---------------------------- MODULE ChatGateProofs ----------------------------
(***************************************************************************)
(* What holds of accounts, requests and the chats that are counted, for    *)
(* any number of them, and of processes, tenants and limits.               *)
(*                                                                         *)
(* UserAccess: IInv is inductive. The tables change in three steps only,   *)
(* each of which writes one account (Written); what a PATCH has read of an *)
(* account stays true until it writes, as long as no other PATCH of it is  *)
(* under way (ReadInv), and what a request has read of its own account is, *)
(* or was, in the tables (SeenInv).                                        *)
(*                                                                         *)
(* ChatGate: every step is one of UserAccess or leaves its variables       *)
(* alone, and one of RateLimit or leaves its variables alone. So what is   *)
(* proved of the two parts holds of the whole.                             *)
(***************************************************************************)
EXTENDS ChatGate, TLAPS

\* the limiter as ChatGate has it, with what is proved about it
L == INSTANCE RateLimitProofs WITH key <- ask

\* The account u is written, and nothing else.
Written(u, row, scope) ==
  /\ users' = [users EXCEPT ![u] = row] /\ scopes' = [scopes EXCEPT ![u] = scope]
  /\ Noted

LEMMA WhoType ==
  ASSUME TypeOK, NEW r \in Requests, req[r] \in {"row", "scope"}
  PROVE  who[r] \in Token /\ who[r].user \in Ids
  BY DEF TypeOK, Token

LEMMA PatchType ==
  ASSUME TypeOK, NEW r \in Patches, req[r] # "start"
  PROVE  ask[r] \in Change /\ ask[r].user \in Ids
<1>1. ask[r] \in Changes
  BY IdsAssumption DEF TypeOK, Asks, Requests
<1> QED
  BY <1>1, BodiesAssumption DEF Change

LEMMA PostType ==
  ASSUME TypeOK, NEW r \in Posts, req[r] # "start"
  PROVE  ask[r] \in Entry
<1>1. ask[r] \in Entries
  BY IdsAssumption DEF TypeOK, Asks, Requests
<1> QED
  BY <1>1, BodiesAssumption

\* What the tables say is a matter of yes and no.
LEMMA NowType ==
  ASSUME NEW table, NEW members, NEW r, NEW t, NEW wish,
         table[t.user] # NoAccount => table[t.user].enabled \in BOOLEAN
  PROVE  Now(table, members, r, t, wish) \in [enabled : BOOLEAN, access : BOOLEAN]
  BY DEF Now, Allows

-----------------------------------------------------------------------------
(* The three steps that write *)

\* The administrator is a new account.
LEMMA AdminWritten ==
  ASSUME IInv, NEW p \in Processes, InsertAdmin(p), ~Taken(users, Root, RootName)
  PROVE  LET row == [name |-> RootName, role |-> "admin", enabled |-> TRUE] IN
           /\ row \in Row /\ {All} \in Scopes /\ Root \in Ids /\ Root \notin Posts
           /\ users[Root] = NoAccount /\ ScopeFits(row, {All})
           /\ Written(Root, row, {All})
<1> DEFINE row == [name |-> RootName, role |-> "admin", enabled |-> TRUE]
<1>1. row \in Row /\ {All} \in Scopes /\ Root \in Ids /\ Root \notin Posts
  BY IdsAssumption DEF Row, Roles, Scopes, Ids
<1>2. users[Root] = NoAccount
  BY <1>1 DEF Taken
<1>3. ScopeFits(row, {All})
  BY <1>1, ScopesAssumption DEF ScopeFits
<1>4. Written(Root, row, {All})
  BY DEF InsertAdmin, Written
<1> QED
  BY <1>1, <1>2, <1>3, <1>4

\* A POST writes a new account too.
LEMMA EntryWritten ==
  ASSUME IInv, NEW r \in Posts, InsertUser(r), ~Taken(users, r, ask[r].name)
  PROVE  LET row == [name |-> ask[r].name, role |-> ask[r].role, enabled |-> TRUE] IN
           /\ row \in Row /\ ask[r].scope \in Scopes /\ r \in Ids
           /\ users[r] = NoAccount /\ ScopeFits(row, ask[r].scope)
           /\ Written(r, row, ask[r].scope)
<1>1. req[r] = "write" /\ r \in Requests
  BY DEF InsertUser, Requests
<1>2. ask[r] \in Entry
  BY <1>1, PostType DEF IInv
<1>3. ValidScope(ask[r].role, ask[r].scope)
  BY <1>1 DEF IInv, ReadInv, ReadOf
<1>4. ask[r].scope \in Scopes
  BY <1>2, <1>3 DEF Entry, AskedScopes, ValidScope, Scopes
<1>5. [name |-> ask[r].name, role |-> ask[r].role, enabled |-> TRUE] \in Row
  BY <1>2 DEF Entry, Row
<1>6. users[r] = NoAccount /\ r \in Ids
  BY DEF Taken, Ids
<1>7. ScopeFits([name |-> ask[r].name, role |-> ask[r].role, enabled |-> TRUE], ask[r].scope)
  BY <1>3, <1>5, ScopesAssumption DEF ScopeFits, ValidScope
<1>8. Written(r, [name |-> ask[r].name, role |-> ask[r].role, enabled |-> TRUE], ask[r].scope)
  BY DEF InsertUser, Written
<1> QED
  BY <1>4, <1>5, <1>6, <1>7, <1>8

\* A PATCH changes an account that exists, and leaves its name.
LEMMA ChangeWritten ==
  ASSUME IInv, NEW r \in Patches, UpdateUser(r)
  PROVE  LET u == ask[r].user
             updated == Updated(ask[r], [row |-> users[u], scope |-> scopes[u]]) IN
           /\ u \in Ids /\ updated.row \in Row /\ updated.scope \in Scopes
           /\ users[u] # NoAccount /\ updated.row.name = users[u].name
           /\ u \notin mixed => ScopeFits(updated.row, updated.scope)
           /\ Written(u, updated.row, updated.scope)
<1> DEFINE b == ask[r]
           u == ask[r].user
           updated == Updated(b, [row |-> users[u], scope |-> scopes[u]])
           role == IF "role" \in b.sets THEN b.role ELSE users[u].role
           enabled == IF "enabled" \in b.sets THEN b.enabled ELSE users[u].enabled
           scope == IF "scope" \in b.sets THEN b.scope ELSE scopes[u]
<1>1. req[r] = "write" /\ r \in Requests
  BY DEF UpdateUser, Requests
<1>2. b \in Change /\ u \in Ids
  BY <1>1, PatchType DEF IInv
<1>3. /\ users[u] # NoAccount
      /\ u \notin mixed => read[r].row = users[u] /\ read[r].scope = scopes[u]
      /\ ValidScope(Proposed(b, read[r]).role, Proposed(b, read[r]).scope)
  BY <1>1 DEF IInv, ReadInv, ReadOf
<1>4. users[u] \in Row /\ scopes[u] \in Scopes
  BY <1>2, <1>3 DEF IInv, TypeOK
<1>5. users[u] = [name |-> users[u].name, role |-> users[u].role, enabled |-> users[u].enabled]
  BY <1>4 DEF Row
<1>6. /\ updated.row = [name |-> users[u].name, role |-> role, enabled |-> enabled]
      /\ updated.scope = scope
  BY <1>5 DEF Updated
<1>7. role \in Roles /\ enabled \in BOOLEAN /\ users[u].name \in Names
  BY <1>2, <1>4 DEF Change, Row
<1>8. scope \in Scopes
  BY <1>2, <1>3, <1>4 DEF Change, AskedScopes, ValidScope, Proposed, Scopes
<1>9. updated.row \in Row
  BY <1>6, <1>7 DEF Row
<1>10. ASSUME u \notin mixed PROVE ScopeFits(updated.row, updated.scope)
  <2>1. Proposed(b, read[r]).role = role /\ Proposed(b, read[r]).scope = scope
    BY <1>3, <1>10 DEF Proposed
  <2> QED
    BY <1>3, <1>6, <1>9, <2>1, ScopesAssumption DEF ValidScope, ScopeFits
<1>11. Written(u, updated.row, updated.scope)
  BY DEF UpdateUser, Written
<1>12. updated.row.name = users[u].name /\ updated.scope \in Scopes
  BY <1>6, <1>8
<1>13. users[u] # NoAccount
  BY <1>3
<1> HIDE DEF updated
<1> QED
  BY <1>2, <1>9, <1>10, <1>11, <1>12, <1>13 DEF updated

-----------------------------------------------------------------------------
(* What a step that writes keeps *)

\* The history has what the tables now say.
LEMMA SeenWritten ==
  ASSUME IInv, NEW u \in Ids, NEW row \in Row, NEW scope \in Scopes, Written(u, row, scope),
         UNCHANGED <<who, ask, read>>,
         \A r \in Requests : req'[r] = req[r] \/ (req[r] = "write" /\ req'[r] = "audit")
  PROVE  SeenInv' /\ Admitted' /\ could' \in [Requests -> [enabled : BOOLEAN, access : BOOLEAN]]
<1>1. \A v \in Ids : /\ users'[v] = IF v = u THEN row ELSE users[v]
                     /\ scopes'[v] = IF v = u THEN scope ELSE scopes[v]
  BY DEF Written, IInv, TypeOK
<1>2. \A r \in Requests :
        could'[r] = IF Deciding(r) /\ who[r] # Trusted
                      THEN [enabled |-> could[r].enabled \/ Now(users', scopes', r, who[r], ask[r]).enabled,
                            access |-> could[r].access \/ Now(users', scopes', r, who[r], ask[r]).access]
                      ELSE could[r]
  BY Zenon DEF Written, Noted
<1>3. could' \in [Requests -> [enabled : BOOLEAN, access : BOOLEAN]]
  <2>1. ASSUME NEW r \in Requests PROVE could'[r] \in [enabled : BOOLEAN, access : BOOLEAN]
    <3> DEFINE e == could[r].enabled \/ Now(users', scopes', r, who[r], ask[r]).enabled
               a == could[r].access \/ Now(users', scopes', r, who[r], ask[r]).access
    <3>1. e \in BOOLEAN /\ a \in BOOLEAN
      BY Zenon
    <3>2. could'[r] = [enabled |-> e, access |-> a] \/ could'[r] = could[r]
      BY <1>2, Zenon
    <3> HIDE DEF e, a
    <3> QED
      BY <3>1, <3>2 DEF IInv, TypeOK
  <2>2. could' = [r \in Requests |-> could'[r]]
    BY DEF Written, Noted
  <2> QED
    BY <2>1, <2>2
<1>4. ASSUME NEW r \in Requests, Deciding(r)' PROVE SeenOf(r)'
  <2>1. Deciding(r) /\ req'[r] = req[r]
    BY <1>4 DEF Deciding
  <2>2. who[r] \in Token /\ who[r].user \in Ids /\ who[r] # Trusted
    BY <2>1, WhoType, ScopesAssumption DEF Deciding, IInv
  <2> DEFINE now == Now(users', scopes', r, who[r], ask[r])
  <2>3. could'[r] = [enabled |-> could[r].enabled \/ now.enabled, access |-> could[r].access \/ now.access]
    BY <1>2, <2>1, <2>2
  <2> HIDE DEF now
  <2>7. /\ could'[r].enabled = (could[r].enabled \/ now.enabled)
        /\ could'[r].access = (could[r].access \/ now.access)
    BY <2>3
  <2>4. /\ now.enabled => could'[r].enabled
        /\ now.access => could'[r].access
        /\ could[r].enabled => could'[r].enabled
        /\ could[r].access => could'[r].access
    BY <2>7, Zenon
  <2> USE DEF now
  <2>5. SeenOf(r)
    BY <2>1 DEF IInv, SeenInv
  <2>6. users[who[r].user] # NoAccount => users'[who[r].user] # NoAccount
    BY <1>1, <2>2, ScopesAssumption
  <2> QED
    BY <2>1, <2>4, <2>5, <2>6 DEF SeenOf
<1>5. ASSUME NEW r \in Requests,
             req'[r] \in {"admitted", "list", "members", "name", "write", "audit", "done"}, who'[r] # Trusted
      PROVE  could'[r].enabled /\ could'[r].access
  <2>1. req[r] \in {"admitted", "list", "members", "name", "write", "audit", "done"}
    BY <1>5
  <2>2. could'[r] = could[r]
    BY <1>2, <2>1 DEF Deciding
  <2> QED
    BY <1>5, <2>1, <2>2 DEF IInv, Admitted
<1> QED
  BY <1>3, <1>4, <1>5 DEF SeenInv, Admitted

\* Another account, or a new one, makes no difference to what a request has read.
LEMMA ReadWritten ==
  ASSUME IInv, NEW q \in Requests, req'[q] = req[q], UNCHANGED <<ask, read, mixed>>,
         NEW u \in Ids, NEW row \in Row, NEW scope \in Scopes, Written(u, row, scope), q # u,
         users[u] = NoAccount
           \/ (q \in Patches /\ req[q] \in {"members", "write"} /\ ask[q].user = u => u \in mixed)
  PROVE  ReadOf(q)'
<1>1. \A v \in Ids : /\ users'[v] = IF v = u THEN row ELSE users[v]
                     /\ scopes'[v] = IF v = u THEN scope ELSE scopes[v]
  BY DEF Written, IInv, TypeOK
<1>2. ReadOf(q)
  BY DEF IInv, ReadInv
<1>3. ASSUME q \in Patches, req[q] \in {"members", "write"}
      PROVE  /\ users'[ask[q].user] # NoAccount
             /\ ask[q].user \notin mixed => /\ users'[ask[q].user] = users[ask[q].user]
                                            /\ scopes'[ask[q].user] = scopes[ask[q].user]
  <2>1. ask[q].user \in Ids
    BY <1>3, PatchType DEF IInv
  <2>2. users[ask[q].user] # NoAccount
    BY <1>2, <1>3 DEF ReadOf
  <2> QED
    BY <1>1, <1>3, <2>1, <2>2, ScopesAssumption
<1>4. q \in Posts => users'[q] = users[q]
  BY <1>1 DEF Ids
<1> QED
  BY <1>2, <1>3, <1>4 DEF ReadOf, Proposed, ValidScope

\* A new account, or a change that leaves the name, keeps names apart.
LEMMA NamesWritten ==
  ASSUME IInv, NEW u \in Ids, NEW row \in Row, NEW scope, Written(u, row, scope),
         (users[u] # NoAccount /\ row.name = users[u].name) \/ ~Taken(users, u, row.name)
  PROVE  NamesUnique'
<1>1. \A v \in Ids : users'[v] = IF v = u THEN row ELSE users[v]
  BY DEF Written, IInv, TypeOK
<1> QED
  BY <1>1, ScopesAssumption DEF IInv, NamesUnique, Taken

LEMMA ScopesWritten ==
  ASSUME IInv, NEW u \in Ids, NEW row, NEW scope, Written(u, row, scope), mixed' = mixed,
         u \notin mixed => ScopeFits(row, scope)
  PROVE  ScopeValid'
<1>1. \A v \in Ids : /\ users'[v] = IF v = u THEN row ELSE users[v]
                     /\ scopes'[v] = IF v = u THEN scope ELSE scopes[v]
  BY DEF Written, IInv, TypeOK
<1> QED
  BY <1>1 DEF IInv, ScopeValid

LEMMA TablesWritten ==
  ASSUME IInv, NEW u \in Ids, NEW row \in Row, NEW scope \in Scopes, Written(u, row, scope)
  PROVE  users' \in [Ids -> Row \cup {NoAccount}] /\ scopes' \in [Ids -> Scopes]
  BY DEF Written, IInv, TypeOK

-----------------------------------------------------------------------------
(* The invariant *)

LEMMA InitInv == Init => IInv
<1> SUFFICES ASSUME Init PROVE IInv
  OBVIOUS
<1> USE DEF Init
<1>1. /\ env \in Scenario /\ users = env.users /\ scopes = env.scopes
      /\ \A u \in Ids : ScopeFits(users[u], scopes[u])
      /\ \A u \in Posts : users[u] = NoAccount
      /\ \A u \in Ids : users[u] # NoAccount =>
           ~Taken([users EXCEPT ![u] = NoAccount], u, users[u].name)
  BY TablesAssumption
<1>2. users \in [Ids -> Row \cup {NoAccount}] /\ scopes \in [Ids -> Scopes]
  BY <1>1 DEF Scenario
<1>3. \A r \in Requests : /\ req[r] = "start" /\ who[r] = Trusted /\ ask[r] = Nothing
                          /\ read[r] = [row |-> NoAccount, scope |-> {}]
  OBVIOUS
<1>4. read \in [Requests -> [row : Row \cup {NoAccount}, scope : Scopes]]
  BY DEF Scopes
<1>5. boot \in [Processes -> {"down", "missing", "up"}] /\ could \in [Requests -> [enabled : BOOLEAN, access : BOOLEAN]]
  OBVIOUS
<1>6. TypeOK
  BY <1>2, <1>3, <1>4, <1>5 DEF TypeOK, RequestPc
<1>7. ReadInv
  BY <1>1, <1>3 DEF ReadInv, ReadOf, Changing, Requests
<1>8. SeenInv /\ Admitted
  BY <1>3 DEF SeenInv, Deciding, Admitted
<1>9. ScopeValid
  BY <1>1 DEF ScopeValid
<1>10. NamesUnique
  <2> SUFFICES ASSUME NEW u \in Ids, NEW v \in Ids, u # v, users[u] # NoAccount, users[v] # NoAccount,
                      users[u].name = users[v].name
               PROVE  FALSE
    BY DEF NamesUnique
  <2>1. [users EXCEPT ![u] = NoAccount][v] = users[v]
    BY <1>2
  <2> QED
    BY <1>1, <2>1 DEF Taken
<1> QED
  BY <1>6, <1>7, <1>8, <1>9, <1>10 DEF IInv

\* What a request does once it is let in, by its kind.
LEMMA LetInCases ==
  ASSUME NEW r \in Requests, NEW wish
  PROVE  /\ LetIn(r, wish) \in {"refused", "admitted", "list", "name"}
         /\ LetIn(r, wish) = "list" => r \in Patches
         /\ LetIn(r, wish) = "name" => r \in Posts /\ ValidScope(wish.role, wish.scope)
  BY IdsAssumption DEF LetIn, Entrance, Requests

\* Every step but the three that write.
Quiet ==
  \/ \E r \in Requests : \/ Begin(r) \/ ReadRow(r) \/ ReadScope(r) \/ ListUsers(r) \/ ListMembers(r)
                         \/ CheckName(r) \/ Audit(r) \/ Drop(r)
  \/ \E p \in Processes : \/ CheckAdmin(p) \/ Stop(p)
                          \/ InsertAdmin(p) /\ Taken(users, Root, RootName)
  \/ \E u \in Ids : Login(u)
  \/ \E r \in Posts : InsertUser(r) /\ Taken(users, r, ask[r].name)

LEMMA StepCases ==
  ASSUME UserNext
  PROVE  \/ Quiet
         \/ \E p \in Processes : InsertAdmin(p) /\ ~Taken(users, Root, RootName)
         \/ \E r \in Posts : InsertUser(r) /\ ~Taken(users, r, ask[r].name)
         \/ \E r \in Patches : UpdateUser(r)
  BY Zenon DEF UserNext, RequestStep, BootStep, Quiet, UpdateUser, InsertUser

LEMMA QuietTables ==
  ASSUME IInv, Quiet
  PROVE  UNCHANGED <<env, tables>> /\ mixed \subseteq mixed'
<1>1. ASSUME NEW r \in Requests, Begin(r) PROVE UNCHANGED <<env, tables>> /\ mixed \subseteq mixed'
  BY <1>1 DEF Begin
<1>2. ASSUME NEW r \in Requests,
             ReadRow(r) \/ ReadScope(r) \/ ListUsers(r) \/ ListMembers(r) \/ CheckName(r) \/ Audit(r) \/ Drop(r)
      PROVE  UNCHANGED <<env, tables>> /\ mixed' = mixed
  BY <1>2 DEF ReadRow, ReadScope, ListUsers, ListMembers, CheckName, Audit, Drop, history
<1>3. ASSUME NEW p \in Processes, CheckAdmin(p) \/ Stop(p) \/ (InsertAdmin(p) /\ Taken(users, Root, RootName))
      PROVE  UNCHANGED <<env, tables>> /\ mixed' = mixed
  BY <1>3 DEF CheckAdmin, Stop, InsertAdmin, history
<1>4. ASSUME NEW u \in Ids, Login(u) PROVE UNCHANGED <<env, tables>> /\ mixed' = mixed
  BY <1>4 DEF Login, history
<1>5. ASSUME NEW r \in Posts, InsertUser(r), Taken(users, r, ask[r].name)
      PROVE  UNCHANGED <<env, tables>> /\ mixed' = mixed
  BY <1>5 DEF InsertUser
<1> QED
  BY <1>1, <1>2, <1>3, <1>4, <1>5 DEF Quiet

LEMMA QuietType ==
  ASSUME IInv, Quiet
  PROVE  TypeOK'
<1> USE DEF IInv, TypeOK, Goto, RequestPc, tables, asking, history
<1>1. ASSUME NEW r \in Requests, Begin(r) PROVE TypeOK'
  <2>1. PICK t \in tokens \cup {Trusted}, wish \in Asks(r) :
          /\ who' = [who EXCEPT ![r] = t] /\ ask' = [ask EXCEPT ![r] = wish]
          /\ Goto(r, IF t = Trusted THEN LetIn(r, wish) ELSE "row")
          /\ could' = IF t = Trusted THEN could
                        ELSE [could EXCEPT ![r] = Now(users, scopes, r, t, wish)]
          /\ mixed' = IF \E q \in Patches \ {r} : r \in Patches /\ Changing(q) /\ ask[q].user = wish.user
                        THEN mixed \cup {wish.user} ELSE mixed
    BY <1>1 DEF Begin
  <2>2. req' \in [Requests -> RequestPc] /\ who' \in [Requests -> Token \cup {Trusted}]
    BY <2>1, LetInCases
  <2>3. wish \in Tenants \cup Changes \cup Entries
    BY DEF Asks
  <2>4. ask' \in [Requests -> Tenants \cup Changes \cup Entries \cup {Nothing}]
    BY <2>1, <2>3
  <2>5. \A q \in Requests : req'[q] # "start" => ask'[q] \in Asks(q)
    BY <2>1
  <2>6. \A q \in Requests : req'[q] \in {"row", "scope"} => who'[q] # Trusted
    BY <2>1, LetInCases, ScopesAssumption
  <2>7. could' \in [Requests -> [enabled : BOOLEAN, access : BOOLEAN]]
    <3>1. CASE t = Trusted
      BY <2>1, <3>1
    <3>2. CASE t # Trusted
      <4>1. t \in Token /\ t.user \in Ids
        BY <3>2 DEF Token
      <4>2. users[t.user] # NoAccount => users[t.user].enabled \in BOOLEAN
        BY <4>1 DEF Row
      <4>3. Now(users, scopes, r, t, wish) \in [enabled : BOOLEAN, access : BOOLEAN]
        BY <4>2, NowType
      <4> QED
        BY <2>1, <3>2, <4>3
    <3> QED
      BY <3>1, <3>2
  <2>8. mixed' \subseteq Ids
    <3>1. r \in Patches => wish.user \in Ids
      BY BodiesAssumption, IdsAssumption DEF Asks, Change
    <3> QED
      BY <2>1, <3>1
  <2> QED
    BY <1>1, <2>2, <2>4, <2>5, <2>6, <2>7, <2>8 DEF Begin
<1>2. ASSUME NEW r \in Requests, ReadRow(r) PROVE TypeOK'
  BY <1>2, WhoType DEF ReadRow
<1>3. ASSUME NEW r \in Requests, ReadScope(r) PROVE TypeOK'
  BY <1>3, WhoType, LetInCases DEF ReadScope
<1>4. ASSUME NEW r \in Requests, ListUsers(r) PROVE TypeOK'
  <2>1. r \in Patches
    BY <1>4 DEF ListUsers, ReadInv, ReadOf
  <2> QED
    BY <1>4, <2>1, PatchType DEF ListUsers
<1>5. ASSUME NEW r \in Requests, ListMembers(r) PROVE TypeOK'
  <2>1. r \in Patches
    BY <1>5 DEF ListMembers, ReadInv, ReadOf
  <2> QED
    BY <1>5, <2>1, PatchType DEF ListMembers
<1>6. ASSUME NEW r \in Requests, CheckName(r) \/ Audit(r) \/ Drop(r) PROVE TypeOK'
  BY <1>6 DEF CheckName, Audit, Drop
<1>7. ASSUME NEW p \in Processes, CheckAdmin(p) \/ Stop(p) \/ (InsertAdmin(p) /\ Taken(users, Root, RootName))
      PROVE  TypeOK'
  BY <1>7 DEF CheckAdmin, Stop, InsertAdmin
<1>8. ASSUME NEW u \in Ids, Login(u) PROVE TypeOK'
  BY <1>8 DEF Login, Token, Row
<1>9. ASSUME NEW r \in Posts, InsertUser(r), Taken(users, r, ask[r].name) PROVE TypeOK'
  BY <1>9 DEF InsertUser, Requests
<1> QED
  BY <1>1, <1>2, <1>3, <1>4, <1>5, <1>6, <1>7, <1>8, <1>9 DEF Quiet

\* Nothing has happened to a request: what it has read is as true as before.
LEMMA ReadKept ==
  ASSUME IInv, NEW q \in Requests, UNCHANGED tables, mixed \subseteq mixed',
         req'[q] = req[q] \/ req'[q] \in {"admitted", "refused", "failed", "audit", "done"},
         read'[q] = read[q], ask'[q] = ask[q]
  PROVE  ReadOf(q)'
<1>1. ReadOf(q)
  BY DEF IInv, ReadInv
<1> QED
  BY <1>1 DEF ReadOf, tables, Proposed, ValidScope

LEMMA QuietRead ==
  ASSUME IInv, Quiet
  PROVE  \A q \in Requests : ReadOf(q)'
<1> USE QuietTables DEF Goto, asking, history, tables
<1>0. TypeOK
  BY DEF IInv
<1>1. ASSUME NEW r \in Requests, Begin(r), NEW q \in Requests PROVE ReadOf(q)'
  <2>1. CASE q # r
    BY <1>0, <1>1, <2>1, ReadKept DEF Begin, TypeOK
  <2>2. CASE q = r
    <3>1. PICK t \in tokens \cup {Trusted}, wish \in Asks(r) :
            ask'[r] = wish /\ req'[r] = IF t = Trusted THEN LetIn(r, wish) ELSE "row"
      BY <1>0, <1>1 DEF Begin, TypeOK
    <3>2. r \in Posts => users'[r] = NoAccount
      BY <1>1 DEF Begin, IInv, ReadInv, ReadOf
    <3> QED
      BY <2>2, <3>1, <3>2, LetInCases DEF ReadOf
  <2> QED
    BY <2>1, <2>2
<1>2. ASSUME NEW r \in Requests, ReadRow(r), NEW q \in Requests PROVE ReadOf(q)'
  <2>1. CASE q # r
    BY <1>0, <1>2, <2>1, ReadKept DEF ReadRow, TypeOK
  <2>2. CASE q = r
    <3>1. req'[r] \in {"scope", "refused"} /\ (r \in Posts => users'[r] = NoAccount)
      BY <1>0, <1>2 DEF ReadRow, TypeOK, IInv, ReadInv, ReadOf
    <3> QED
      BY <2>2, <3>1 DEF ReadOf
  <2> QED
    BY <2>1, <2>2
<1>3. ASSUME NEW r \in Requests, ReadScope(r), NEW q \in Requests PROVE ReadOf(q)'
  <2>1. CASE q # r
    BY <1>0, <1>3, <2>1, ReadKept DEF ReadScope, TypeOK
  <2>2. CASE q = r
    <3>1. /\ ask'[r] = ask[r] /\ (req'[r] = LetIn(r, ask[r]) \/ req'[r] = "refused")
          /\ r \in Posts => users'[r] = NoAccount
      BY <1>0, <1>3 DEF ReadScope, TypeOK, IInv, ReadInv, ReadOf
    <3> QED
      BY <2>2, <3>1, LetInCases DEF ReadOf
  <2> QED
    BY <2>1, <2>2
<1>4. ASSUME NEW r \in Requests, ListUsers(r), NEW q \in Requests PROVE ReadOf(q)'
  <2>1. CASE q # r
    BY <1>0, <1>4, <2>1, ReadKept DEF ListUsers, TypeOK
  <2>2. CASE q = r
    <3>1. r \in Patches /\ r \notin Posts
      BY <1>4, IdsAssumption DEF ListUsers, IInv, ReadInv, ReadOf
    <3>2. /\ ask' = ask /\ users' = users /\ read'[r].row = users[ask[r].user]
          /\ req'[r] = IF users[ask[r].user] = NoAccount THEN "refused" ELSE "members"
      BY <1>0, <1>4 DEF ListUsers, TypeOK
    <3> QED
      BY <2>2, <3>1, <3>2 DEF ReadOf
  <2> QED
    BY <2>1, <2>2
<1>5. ASSUME NEW r \in Requests, ListMembers(r), NEW q \in Requests PROVE ReadOf(q)'
  <2>1. CASE q # r
    BY <1>0, <1>5, <2>1, ReadKept DEF ListMembers, TypeOK
  <2>2. CASE q = r
    <3>1. r \in Patches /\ r \notin Posts /\ ReadOf(r) /\ req[r] = "members"
      BY <1>5, IdsAssumption DEF ListMembers, IInv, ReadInv, ReadOf
    <3>2. /\ ask' = ask /\ users' = users /\ scopes' = scopes /\ mixed \subseteq mixed'
          /\ read'[r] = [row |-> read[r].row, scope |-> scopes[ask[r].user]]
          /\ LET proposed == Proposed(ask[r], read'[r]) IN
               req'[r] = IF ValidScope(proposed.role, proposed.scope) THEN "write" ELSE "refused"
      BY <1>0, <1>5 DEF ListMembers, TypeOK
    <3> QED
      BY <2>2, <3>1, <3>2 DEF ReadOf, Proposed, ValidScope
  <2> QED
    BY <2>1, <2>2
<1>6. ASSUME NEW r \in Requests, CheckName(r), NEW q \in Requests PROVE ReadOf(q)'
  <2>1. CASE q # r
    BY <1>0, <1>6, <2>1, ReadKept DEF CheckName, TypeOK
  <2>2. CASE q = r
    <3>1. r \in Posts /\ r \notin Patches /\ ReadOf(r) /\ req[r] = "name"
      BY <1>6, IdsAssumption DEF CheckName, IInv, ReadInv, ReadOf
    <3>2. ask' = ask /\ users' = users /\ req'[r] \in {"refused", "write"}
      BY <1>0, <1>6 DEF CheckName, TypeOK
    <3> QED
      BY <2>2, <3>1, <3>2 DEF ReadOf, ValidScope
  <2> QED
    BY <2>1, <2>2
<1>7. ASSUME NEW r \in Requests, Audit(r) \/ Drop(r), NEW q \in Requests PROVE ReadOf(q)'
  BY <1>0, <1>7, ReadKept DEF Audit, Drop, TypeOK
<1>8. ASSUME NEW p \in Processes, CheckAdmin(p) \/ Stop(p) \/ (InsertAdmin(p) /\ Taken(users, Root, RootName)),
             NEW q \in Requests
      PROVE  ReadOf(q)'
  BY <1>8, ReadKept DEF CheckAdmin, Stop, InsertAdmin
<1>9. ASSUME NEW u \in Ids, Login(u), NEW q \in Requests PROVE ReadOf(q)'
  BY <1>9, ReadKept DEF Login
<1>10. ASSUME NEW r \in Posts, InsertUser(r), Taken(users, r, ask[r].name), NEW q \in Requests PROVE ReadOf(q)'
  <2>1. \A s \in Requests : req'[s] = req[s] \/ req'[s] = "failed"
    BY <1>0, <1>10 DEF InsertUser, TypeOK
  <2> QED
    BY <1>10, <2>1, ReadKept DEF InsertUser
<1> QED
  BY <1>1, <1>2, <1>3, <1>4, <1>5, <1>6, <1>7, <1>8, <1>9, <1>10 DEF Quiet

\* Two PATCHes of one account are noticed when the second begins.
MixedInv ==
  \A q, r \in Patches : q # r /\ Changing(q) /\ Changing(r) /\ ask[q].user = ask[r].user
    => ask[q].user \in mixed

LEMMA MixedKept ==
  ASSUME IInv, UserNext
  PROVE  MixedInv'
<1>0. MixedInv /\ TypeOK
  BY DEF IInv, ReadInv, MixedInv
<1>1. CASE /\ ask' = ask /\ mixed' = mixed
           /\ \A r \in Patches : Changing(r)' => Changing(r)
  BY <1>0, <1>1 DEF MixedInv
<1>2. ASSUME NEW r \in Requests, Begin(r) PROVE MixedInv'
  <2>1. PICK t \in tokens \cup {Trusted}, wish \in Asks(r) :
          /\ ask' = [ask EXCEPT ![r] = wish]
          /\ mixed' = IF \E q \in Patches \ {r} : r \in Patches /\ Changing(q) /\ ask[q].user = wish.user
                        THEN mixed \cup {wish.user} ELSE mixed
    BY <1>2 DEF Begin
  <2>2. \A q \in Requests : q # r => ask'[q] = ask[q] /\ req'[q] = req[q]
    BY <1>0, <1>2, <2>1 DEF Begin, Goto, TypeOK
  <2>3. \A q \in Requests : q # r => Changing(q)' = Changing(q)
    BY <2>2 DEF Changing
  <2>4. ask'[r] = wish
    BY <1>0, <2>1 DEF TypeOK
  <2>5. SUFFICES ASSUME NEW p \in Patches, NEW q \in Patches, p # q, Changing(p)', Changing(q)',
                        ask'[p].user = ask'[q].user
                 PROVE  ask'[p].user \in mixed'
    BY DEF MixedInv
  <2>6. CASE p # r /\ q # r
    BY <1>0, <2>1, <2>2, <2>3, <2>5, <2>6 DEF MixedInv, Requests
  <2>7. CASE p = r
    <3>1. q \in Patches \ {r} /\ r \in Patches /\ Changing(q) /\ ask[q].user = wish.user
      BY <2>2, <2>3, <2>4, <2>5, <2>7 DEF Requests
    <3> QED
      BY <2>1, <2>4, <2>7, <3>1
  <2>8. CASE q = r
    <3>1. p \in Patches \ {r} /\ r \in Patches /\ Changing(p) /\ ask[p].user = wish.user
      BY <2>2, <2>3, <2>4, <2>5, <2>8 DEF Requests
    <3> QED
      BY <2>1, <2>4, <2>5, <2>8, <3>1
  <2> QED
    BY <2>6, <2>7, <2>8
<1>3. ASSUME NEW r \in Requests,
             \/ ReadRow(r) \/ ReadScope(r) \/ ListUsers(r) \/ ListMembers(r) \/ UpdateUser(r)
             \/ CheckName(r) \/ InsertUser(r) \/ Audit(r) \/ Drop(r)
      PROVE  MixedInv'
  <2>1. ask' = ask /\ mixed' = mixed
    BY <1>3 DEF ReadRow, ReadScope, ListUsers, ListMembers, UpdateUser, CheckName, InsertUser, Audit, Drop,
                asking, history
  <2>2. ASSUME NEW q \in Patches, Changing(q)' PROVE Changing(q)
    <3>1. q \in Requests /\ (q # r => req'[q] = req[q])
      BY <1>0, <1>3 DEF ReadRow, ReadScope, ListUsers, ListMembers, UpdateUser, CheckName, InsertUser, Audit, Drop,
                        Goto, TypeOK, Requests
    <3>2. CASE q = r
      <4>1. CheckName(r) => ReadOf(r) /\ req[r] = "name" /\ r \notin Posts
        BY <2>2, <3>2, IdsAssumption DEF CheckName, IInv, ReadInv
      <4>2. Audit(r) => req'[r] = "done"
        BY <1>0 DEF Audit, Goto, TypeOK
      <4>3. UpdateUser(r) \/ InsertUser(r) => req'[r] \in {"audit", "failed"}
        BY <1>0 DEF UpdateUser, InsertUser, Goto, TypeOK
      <4>4. Drop(r) => req'[r] = "failed"
        BY <1>0 DEF Drop, Goto, TypeOK
      <4>5. ReadRow(r) \/ ReadScope(r) \/ ListUsers(r) \/ ListMembers(r) => Changing(r)
        BY DEF ReadRow, ReadScope, ListUsers, ListMembers, Changing
      <4> QED
        BY <1>3, <2>2, <3>2, <4>1, <4>2, <4>3, <4>4, <4>5 DEF Changing, ReadOf
    <3> QED
      BY <2>2, <3>1, <3>2 DEF Changing
  <2> QED
    BY <1>1, <2>1, <2>2
<1>4. ASSUME NEW p \in Processes, BootStep(p) \/ Stop(p) PROVE MixedInv'
  BY <1>1, <1>4 DEF BootStep, CheckAdmin, InsertAdmin, Stop, Changing, asking, history
<1>5. ASSUME NEW u \in Ids, Login(u) PROVE MixedInv'
  BY <1>1, <1>5 DEF Login, Changing, asking, history
<1> QED
  BY <1>2, <1>3, <1>4, <1>5 DEF UserNext, RequestStep

\* A request that is still looking has a history that is not behind.
LEMMA QuietSeen ==
  ASSUME IInv, Quiet
  PROVE  SeenInv'
<1> USE QuietTables DEF Goto, asking, history, tables
<1>0. TypeOK
  BY DEF IInv
<1>1. ASSUME NEW q \in Requests, Deciding(q)' => Deciding(q) /\ req'[q] = req[q],
             who'[q] = who[q], ask'[q] = ask[q], read'[q] = read[q], could'[q] = could[q]
      PROVE  Deciding(q)' => SeenOf(q)'
  BY <1>1 DEF IInv, SeenInv, SeenOf, Now, Allows
<1>2. ASSUME NEW r \in Requests, Begin(r), NEW q \in Requests PROVE Deciding(q)' => SeenOf(q)'
  <2>1. PICK t \in tokens \cup {Trusted}, wish \in Asks(r) :
          /\ who' = [who EXCEPT ![r] = t] /\ ask' = [ask EXCEPT ![r] = wish]
          /\ Goto(r, IF t = Trusted THEN LetIn(r, wish) ELSE "row")
          /\ could' = IF t = Trusted THEN could
                        ELSE [could EXCEPT ![r] = Now(users, scopes, r, t, wish)]
    BY <1>2 DEF Begin
  <2>2. CASE q # r
    <3>1. /\ req'[q] = req[q] /\ who'[q] = who[q] /\ ask'[q] = ask[q] /\ read'[q] = read[q]
          /\ could'[q] = could[q]
      BY <1>0, <1>2, <2>1, <2>2 DEF Begin, TypeOK
    <3> QED
      BY <1>1, <3>1 DEF Deciding
  <2>3. CASE q = r /\ t = Trusted
    BY <1>0, <2>1, <2>3, LetInCases DEF TypeOK, Deciding
  <2>4. CASE q = r /\ t # Trusted
    <3>1. /\ req'[r] = "row" /\ who'[r] = t /\ ask'[r] = wish
          /\ could'[r] = Now(users, scopes, r, t, wish)
      BY <1>0, <2>1, <2>4 DEF TypeOK
    <3>2. Now(users', scopes', r, t, wish) = Now(users, scopes, r, t, wish)
      OBVIOUS
    <3> QED
      BY <2>4, <3>1, <3>2 DEF SeenOf
  <2> QED
    BY <2>2, <2>3, <2>4
<1>3. ASSUME NEW r \in Requests, ReadRow(r), NEW q \in Requests PROVE Deciding(q)' => SeenOf(q)'
  <2>1. CASE q # r
    <3>1. /\ req'[q] = req[q] /\ who'[q] = who[q] /\ ask'[q] = ask[q] /\ read'[q] = read[q]
          /\ could'[q] = could[q]
      BY <1>0, <1>3, <2>1 DEF ReadRow, TypeOK
    <3> QED
      BY <1>1, <3>1 DEF Deciding
  <2>2. CASE q = r
    <3>1. who[r] \in Token /\ who[r].user \in Ids /\ SeenOf(r) /\ req[r] = "row"
      BY <1>0, <1>3, WhoType DEF ReadRow, IInv, SeenInv, Deciding
    <3> DEFINE row == users[who[r].user]
    <3>2. /\ read'[r].row = row /\ who' = who /\ ask' = ask /\ could' = could
          /\ req'[r] = IF row = NoAccount THEN "refused" ELSE "scope"
      BY <1>0, <1>3 DEF ReadRow, TypeOK
    <3>3. CASE row = NoAccount
      BY <2>2, <3>2, <3>3 DEF Deciding
    <3>4. CASE row # NoAccount
      <4>1. /\ row.enabled => Now(users, scopes, r, who[r], ask[r]).enabled
            /\ row.role = "admin" => Now(users, scopes, r, who[r], ask[r]).access
        BY <3>4 DEF Now, Allows
      <4>2. /\ row.enabled => could[r].enabled
            /\ row.role = "admin" => could[r].access
        BY <3>1, <4>1 DEF SeenOf
      <4>3. /\ Now(users', scopes', r, who'[r], ask'[r]).enabled => could'[r].enabled
            /\ Now(users', scopes', r, who'[r], ask'[r]).access => could'[r].access
        BY <3>1, <3>2 DEF SeenOf
      <4> QED
        BY <2>2, <3>2, <3>4, <4>2, <4>3 DEF SeenOf
    <3> QED
      BY <3>3, <3>4
  <2> QED
    BY <2>1, <2>2
<1>4. ASSUME NEW r \in Requests,
             ReadScope(r) \/ ListUsers(r) \/ ListMembers(r) \/ CheckName(r) \/ Audit(r) \/ Drop(r),
             NEW q \in Requests
      PROVE  Deciding(q)' => SeenOf(q)'
  <2>1. who' = who /\ ask' = ask /\ could' = could
    BY <1>4 DEF ReadScope, ListUsers, ListMembers, CheckName, Audit, Drop
  <2>2. CASE q # r
    <3>1. req'[q] = req[q] /\ read'[q] = read[q]
      BY <1>0, <1>4, <2>2 DEF ReadScope, ListUsers, ListMembers, CheckName, Audit, Drop, TypeOK
    <3> QED
      BY <1>1, <2>1, <3>1 DEF Deciding
  <2>3. CASE q = r
    <3>1. req'[r] \notin {"row", "scope"}
      <4>1. CASE ReadScope(r)
        <5>1. req'[r] = LetIn(r, ask[r]) \/ req'[r] = "refused"
          BY <1>0, <4>1 DEF ReadScope, TypeOK
        <5> QED
          BY <5>1, LetInCases
      <4>2. CASE ~ReadScope(r)
        BY <1>0, <1>4, <4>2 DEF ListUsers, ListMembers, CheckName, Audit, Drop, TypeOK
      <4> QED
        BY <4>1, <4>2
    <3> QED
      BY <2>3, <3>1 DEF Deciding
  <2> QED
    BY <2>2, <2>3
<1>5. ASSUME NEW p \in Processes, CheckAdmin(p) \/ Stop(p) \/ (InsertAdmin(p) /\ Taken(users, Root, RootName)),
             NEW q \in Requests
      PROVE  Deciding(q)' => SeenOf(q)'
  BY <1>1, <1>5 DEF CheckAdmin, Stop, InsertAdmin, Deciding
<1>6. ASSUME NEW u \in Ids, Login(u), NEW q \in Requests PROVE Deciding(q)' => SeenOf(q)'
  BY <1>1, <1>6 DEF Login, Deciding
<1>7. ASSUME NEW r \in Posts, InsertUser(r), Taken(users, r, ask[r].name), NEW q \in Requests
      PROVE  Deciding(q)' => SeenOf(q)'
  <2>1. req'[q] = req[q] \/ req'[q] = "failed"
    BY <1>0, <1>7 DEF InsertUser, TypeOK
  <2> QED
    BY <1>1, <1>7, <2>1 DEF InsertUser, Deciding
<1> QED
  BY <1>2, <1>3, <1>4, <1>5, <1>6, <1>7 DEF Quiet, SeenInv

LEMMA QuietAdmitted ==
  ASSUME IInv, Quiet
  PROVE  Admitted'
<1> USE DEF Goto, asking, history, tables
<1> DEFINE In == {"admitted", "list", "members", "name", "write", "audit", "done"}
           Fine(q) == req'[q] \in In /\ who'[q] # Trusted => could'[q].enabled /\ could'[q].access
<1>0. TypeOK
  BY DEF IInv
<1>1. ASSUME NEW q \in Requests, req'[q] \in In => req[q] \in In, who'[q] = who[q], could'[q] = could[q]
      PROVE  Fine(q)
  BY <1>1 DEF IInv, Admitted
<1>2. ASSUME NEW r \in Requests, Begin(r), NEW q \in Requests PROVE Fine(q)
  <2>1. PICK t \in tokens \cup {Trusted}, wish \in Asks(r) :
          /\ who' = [who EXCEPT ![r] = t]
          /\ Goto(r, IF t = Trusted THEN LetIn(r, wish) ELSE "row")
          /\ could' = IF t = Trusted THEN could
                        ELSE [could EXCEPT ![r] = Now(users, scopes, r, t, wish)]
    BY <1>2 DEF Begin
  <2>2. CASE q # r
    BY <1>0, <1>1, <2>1, <2>2 DEF TypeOK
  <2>3. CASE q = r
    BY <1>0, <2>1, <2>3 DEF TypeOK
  <2> QED
    BY <2>2, <2>3
<1>3. ASSUME NEW r \in Requests, ReadScope(r), NEW q \in Requests PROVE Fine(q)
  <2>1. who' = who /\ could' = could
    BY <1>3 DEF ReadScope
  <2>2. CASE q # r
    <3>1. req'[q] = req[q]
      BY <1>0, <1>3, <2>2 DEF ReadScope, TypeOK
    <3> QED
      BY <1>1, <2>1, <3>1
  <2>3. CASE q = r /\ req'[r] = "refused"
    BY <2>3
  <2>4. CASE q = r /\ req'[r] # "refused"
    <3> DEFINE u == who[r].user
    <3>1. read[r].row.enabled /\ Allows(read[r].row, scopes[u], r, ask[r])
      BY <1>0, <1>3, <2>4 DEF ReadScope, ContextRow, TypeOK
    <3>2. SeenOf(r) /\ req[r] = "scope"
      BY <1>3 DEF ReadScope, IInv, SeenInv, Deciding
    <3>3. could[r].enabled
      BY <3>1, <3>2 DEF SeenOf
    <3>4. CASE read[r].row.role = "admin"
      BY <2>1, <2>4, <3>2, <3>3, <3>4 DEF SeenOf
    <3>5. CASE read[r].row.role # "admin"
      <4>1. Now(users, scopes, r, who[r], ask[r]).access
        BY <3>1, <3>2, <3>5 DEF Allows, Now, SeenOf
      <4> QED
        BY <2>1, <2>4, <3>2, <3>3, <4>1 DEF SeenOf
    <3> QED
      BY <3>4, <3>5
  <2> QED
    BY <2>2, <2>3, <2>4
<1>4. ASSUME NEW r \in Requests,
             ReadRow(r) \/ ListUsers(r) \/ ListMembers(r) \/ CheckName(r) \/ Audit(r) \/ Drop(r),
             NEW q \in Requests
      PROVE  Fine(q)
  <2>1. who' = who /\ could' = could
    BY <1>4 DEF ReadRow, ListUsers, ListMembers, CheckName, Audit, Drop
  <2>2. req'[q] \in In => req[q] \in In
    BY <1>0, <1>4 DEF ReadRow, ListUsers, ListMembers, CheckName, Audit, Drop, TypeOK
  <2> QED
    BY <1>1, <2>1, <2>2
<1>5. ASSUME NEW p \in Processes, CheckAdmin(p) \/ Stop(p) \/ (InsertAdmin(p) /\ Taken(users, Root, RootName)),
             NEW q \in Requests
      PROVE  Fine(q)
  BY <1>1, <1>5 DEF CheckAdmin, Stop, InsertAdmin
<1>6. ASSUME NEW u \in Ids, Login(u), NEW q \in Requests PROVE Fine(q)
  BY <1>1, <1>6 DEF Login
<1>7. ASSUME NEW r \in Posts, InsertUser(r), Taken(users, r, ask[r].name), NEW q \in Requests PROVE Fine(q)
  <2>1. req'[q] = req[q] \/ req'[q] = "failed"
    BY <1>0, <1>7 DEF InsertUser, TypeOK
  <2> QED
    BY <1>1, <1>7, <2>1 DEF InsertUser
<1> HIDE DEF Fine
<1>8. \A q \in Requests : Fine(q)
  BY <1>2, <1>3, <1>4, <1>5, <1>6, <1>7 DEF Quiet
<1> QED
  BY <1>8 DEF Fine, Admitted

LEMMA QuietPreserves ==
  ASSUME IInv, Quiet
  PROVE  TypeOK' /\ (\A q \in Requests : ReadOf(q)') /\ SeenInv' /\ Admitted' /\ ScopeValid' /\ NamesUnique'
<1>1. ScopeValid' /\ NamesUnique'
  BY QuietTables DEF IInv, ScopeValid, NamesUnique, tables
<1> QED
  BY <1>1, QuietType, QuietRead, QuietSeen, QuietAdmitted

LEMMA AdminPreserves ==
  ASSUME IInv, NEW p \in Processes, InsertAdmin(p), ~Taken(users, Root, RootName)
  PROVE  TypeOK' /\ (\A q \in Requests : ReadOf(q)') /\ SeenInv' /\ Admitted' /\ ScopeValid' /\ NamesUnique'
<1> DEFINE row == [name |-> RootName, role |-> "admin", enabled |-> TRUE]
<1>1. /\ row \in Row /\ {All} \in Scopes /\ Root \in Ids /\ Root \notin Posts
      /\ users[Root] = NoAccount /\ ScopeFits(row, {All}) /\ Written(Root, row, {All}) /\ row.name = RootName
  BY AdminWritten
<1>2. /\ UNCHANGED <<env, tokens, req, asking, read, audited, mixed>>
      /\ boot' = [boot EXCEPT ![p] = "up"]
  BY DEF InsertAdmin
<1> HIDE DEF row
<1>3. SeenInv' /\ Admitted' /\ could' \in [Requests -> [enabled : BOOLEAN, access : BOOLEAN]]
  BY <1>1, <1>2, SeenWritten DEF asking
<1>4. TypeOK'
  BY <1>1, <1>2, <1>3, TablesWritten DEF IInv, TypeOK, asking
<1>5. ASSUME NEW q \in Requests PROVE ReadOf(q)'
  <2>1. CASE q # Root
    BY <1>1, <1>2, <2>1, ReadWritten DEF asking
  <2>2. CASE q = Root
    <3>1. q \notin Posts /\ ReadOf(q)
      BY <1>1, <2>2 DEF IInv, ReadInv
    <3>2. ASSUME q \in Patches, req[q] \in {"members", "write"}
          PROVE  users'[ask[q].user] = users[ask[q].user] /\ scopes'[ask[q].user] = scopes[ask[q].user]
      <4>1. ask[q].user # Root
        BY <1>1, <3>1, <3>2 DEF ReadOf
      <4>2. ask[q].user \in Ids
        BY <3>2, PatchType DEF IInv
      <4> QED
        BY <1>1, <4>1, <4>2 DEF Written, IInv, TypeOK
    <3> QED
      BY <1>2, <3>1, <3>2 DEF ReadOf, asking, Proposed, ValidScope
  <2> QED
    BY <2>1, <2>2
<1>6. ScopeValid'
  BY <1>1, <1>2, ScopesWritten
<1>7. NamesUnique'
  BY <1>1, NamesWritten
<1> QED
  BY <1>3, <1>4, <1>5, <1>6, <1>7

LEMMA PostPreserves ==
  ASSUME IInv, NEW r \in Posts, InsertUser(r), ~Taken(users, r, ask[r].name)
  PROVE  TypeOK' /\ (\A q \in Requests : ReadOf(q)') /\ SeenInv' /\ Admitted' /\ ScopeValid' /\ NamesUnique'
<1> DEFINE row == [name |-> ask[r].name, role |-> ask[r].role, enabled |-> TRUE]
           scope == ask[r].scope
<1>1. /\ row \in Row /\ scope \in Scopes /\ r \in Ids /\ users[r] = NoAccount
      /\ ScopeFits(row, scope) /\ Written(r, row, scope) /\ row.name = ask[r].name
  BY EntryWritten
<1>2. /\ UNCHANGED <<env, boot, tokens, asking, read, audited, mixed>>
      /\ req[r] = "write" /\ req' = [req EXCEPT ![r] = "audit"] /\ r \in Requests
  BY DEF InsertUser, Goto, Requests
<1> HIDE DEF row, scope
<1>3. \A q \in Requests : req'[q] = IF q = r THEN "audit" ELSE req[q]
  BY <1>2 DEF IInv, TypeOK
<1>4. SeenInv' /\ Admitted' /\ could' \in [Requests -> [enabled : BOOLEAN, access : BOOLEAN]]
  BY <1>1, <1>2, <1>3, SeenWritten DEF asking
<1>5. TypeOK'
  <2>1. users' \in [Ids -> Row \cup {NoAccount}] /\ scopes' \in [Ids -> Scopes]
    BY <1>1, TablesWritten
  <2> QED
    BY <1>2, <1>4, <2>1 DEF IInv, TypeOK, asking, RequestPc
<1>6. ASSUME NEW q \in Requests PROVE ReadOf(q)'
  <2>1. CASE q # r
    BY <1>1, <1>2, <1>3, <2>1, ReadWritten DEF asking
  <2>2. CASE q = r
    BY <1>3, <2>2 DEF ReadOf
  <2> QED
    BY <2>1, <2>2
<1>7. ScopeValid'
  BY <1>1, <1>2, ScopesWritten
<1>8. NamesUnique'
  BY <1>1, NamesWritten
<1> QED
  BY <1>4, <1>5, <1>6, <1>7, <1>8

LEMMA PatchPreserves ==
  ASSUME IInv, NEW r \in Patches, UpdateUser(r)
  PROVE  TypeOK' /\ (\A q \in Requests : ReadOf(q)') /\ SeenInv' /\ Admitted' /\ ScopeValid' /\ NamesUnique'
<1> DEFINE u == ask[r].user
           updated == Updated(ask[r], [row |-> users[u], scope |-> scopes[u]])
           row == updated.row
           scope == updated.scope
<1>1. /\ u \in Ids /\ row \in Row /\ scope \in Scopes
      /\ users[u] # NoAccount /\ row.name = users[u].name
      /\ u \notin mixed => ScopeFits(row, scope)
      /\ Written(u, row, scope)
  BY ChangeWritten
<1>2. /\ UNCHANGED <<env, boot, tokens, asking, read, audited, mixed>>
      /\ req[r] = "write" /\ req' = [req EXCEPT ![r] = "audit"] /\ r \in Requests
  BY DEF UpdateUser, Goto, Requests
<1> HIDE DEF updated, row, scope
<1>3. \A q \in Requests : req'[q] = IF q = r THEN "audit" ELSE req[q]
  BY <1>2 DEF IInv, TypeOK
<1>4. SeenInv' /\ Admitted' /\ could' \in [Requests -> [enabled : BOOLEAN, access : BOOLEAN]]
  BY <1>1, <1>2, <1>3, SeenWritten DEF asking
<1>5. TypeOK'
  <2>1. users' \in [Ids -> Row \cup {NoAccount}] /\ scopes' \in [Ids -> Scopes]
    BY <1>1, TablesWritten
  <2> QED
    BY <1>2, <1>4, <2>1 DEF IInv, TypeOK, asking, RequestPc
<1>6. ASSUME NEW q \in Requests PROVE ReadOf(q)'
  <2>1. CASE q = r
    BY <1>3, <2>1, IdsAssumption DEF ReadOf
  <2>2. CASE q # r /\ q = u
    \* u is an account, so no request of a POST that is yet to write it
    <3>1. req'[q] = req[q] /\ ReadOf(q)
      BY <1>3, <2>2 DEF IInv, ReadInv
    <3>2. q \in Posts => req[q] \notin {"start", "row", "scope", "name", "write"}
      BY <1>1, <2>2, <3>1 DEF ReadOf
    <3>3. ASSUME q \in Patches PROVE FALSE
      BY <1>1, <2>2, <3>3, IdsAssumption DEF Ids
    <3>4. ask' = ask /\ read' = read /\ mixed' = mixed
      BY <1>2 DEF asking
    <3> QED
      BY <3>1, <3>2, <3>3, <3>4 DEF ReadOf, ValidScope
  <2>3. CASE q # r /\ q # u
    <3>1. q \in Patches /\ req[q] \in {"members", "write"} /\ ask[q].user = u => u \in mixed
      BY <1>2, <2>3 DEF IInv, ReadInv, Changing
    <3> QED
      BY <1>1, <1>2, <1>3, <2>3, <3>1, ReadWritten DEF asking
  <2> QED
    BY <2>1, <2>2, <2>3
<1>7. ScopeValid'
  BY <1>1, <1>2, ScopesWritten
<1>8. NamesUnique'
  BY <1>1, NamesWritten
<1> QED
  BY <1>4, <1>5, <1>6, <1>7, <1>8

\* Accounts, tokens, requests and starts keep IInv, whatever follows whatever.
THEOREM Invariance == UserSpec => []IInv
<1>1. IInv /\ [UserNext]_userVars => IInv'
  <2> SUFFICES ASSUME IInv, [UserNext]_userVars PROVE IInv'
    OBVIOUS
  <2>1. CASE UNCHANGED userVars
    BY <2>1 DEF IInv, userVars, tables, asking, history, TypeOK, ReadInv, ReadOf, Changing, SeenInv, SeenOf,
                Deciding, Now, Allows, Admitted, ScopeValid, NamesUnique
  <2>2. CASE UserNext
    <3>1. TypeOK' /\ (\A q \in Requests : ReadOf(q)') /\ SeenInv' /\ Admitted' /\ ScopeValid' /\ NamesUnique'
      BY <2>2, StepCases, QuietPreserves, AdminPreserves, PostPreserves, PatchPreserves
    <3>2. MixedInv'
      BY <2>2, MixedKept
    <3> QED
      BY <3>1, <3>2 DEF IInv, ReadInv, MixedInv
  <2> QED
    BY <2>1, <2>2
<1> QED
  BY InitInv, <1>1, PTL DEF UserSpec

\* What an account has lost before a request begins is lost for that request, whatever
\* its token says (AuthService.resolve_user_context).
THEOREM AdmittedAlways == UserSpec => []Admitted
<1>1. IInv => Admitted
  BY DEF IInv
<1> QED
  BY Invariance, <1>1, PTL

\* Only administrators have every tenant while the PATCHes of an account do not
\* overlap (validate_user_scope).
THEOREM ScopeValidAlways == UserSpec => []ScopeValid
<1>1. IInv => ScopeValid
  BY DEF IInv
<1> QED
  BY Invariance, <1>1, PTL

\* No two accounts have one name (create_user, ensure_default_admin).
THEOREM NamesUniqueAlways == UserSpec => []NamesUnique
<1>1. IInv => NamesUnique
  BY DEF IInv
<1> QED
  BY Invariance, <1>1, PTL

-----------------------------------------------------------------------------
(* The composition keeps to UserAccess *)

\* Chats on their way to an answer are requests of UserAccess.
THEOREM GateImplementsUsers == Spec => UserSpec
<1>1. GateInit => Init
  BY DEF GateInit
<1>2. [Next]_vars => [UserNext]_userVars
  BY DEF Next, vars, UserStep, Prepare, Limit, Around
<1> QED
  BY <1>1, <1>2, PTL DEF Spec, UserSpec

\* A chat that has been let in stays so, and asks for the tenant it has named.
LEMMA AdmittedStays ==
  ASSUME TypeOK, UserNext, NEW c \in Chats, req[c] = "admitted"
  PROVE  req'[c] = "admitted" /\ ask'[c] = ask[c]
<1> USE DEF Requests, Goto, asking
<1>1. ASSUME NEW r \in Requests, RequestStep(r) \/ Drop(r), r = c PROVE FALSE
  BY <1>1, IdsAssumption
     DEF RequestStep, Begin, ReadRow, ReadScope, ListUsers, ListMembers, UpdateUser, CheckName, InsertUser,
         Audit, Drop
<1>2. ASSUME NEW r \in Requests, Begin(r), r # c PROVE req'[c] = req[c] /\ ask'[c] = ask[c]
  <2>1. PICK t \in tokens \cup {Trusted}, wish \in Asks(r) :
          /\ ask' = [ask EXCEPT ![r] = wish]
          /\ req' = [req EXCEPT ![r] = IF t = Trusted THEN LetIn(r, wish) ELSE "row"]
    BY <1>2 DEF Begin
  <2> QED
    BY <1>2, <2>1 DEF TypeOK
<1>3. ASSUME NEW r \in Requests, RequestStep(r) \/ Drop(r), ~Begin(r), r # c
      PROVE  req'[c] = req[c] /\ ask'[c] = ask[c]
  <2>1. ask' = ask
    BY <1>3 DEF RequestStep, ReadRow, ReadScope, ListUsers, ListMembers, UpdateUser, CheckName, InsertUser,
       Audit, Drop
  <2>2. \E s : req' = [req EXCEPT ![r] = s]
    BY <1>3 DEF RequestStep, ReadRow, ReadScope, ListUsers, ListMembers, UpdateUser, CheckName, InsertUser,
       Audit, Drop
  <2> QED
    BY <1>3, <2>1, <2>2 DEF TypeOK
<1>4. ASSUME NEW p \in Processes, BootStep(p) \/ Stop(p) PROVE UNCHANGED <<req, ask>>
  BY <1>4 DEF BootStep, CheckAdmin, InsertAdmin, Stop
<1>5. ASSUME NEW u \in Ids, Login(u) PROVE UNCHANGED <<req, ask>>
  BY <1>5 DEF Login
<1> QED
  BY <1>1, <1>2, <1>3, <1>4, <1>5 DEF UserNext

\* A chat that has begun asks for a tenant.
LEMMA TenantAsked ==
  ASSUME TypeOK, NEW c \in Chats, req[c] # "start"
  PROVE  ask[c] \in Tenants
BY DEF TypeOK, Requests, Asks

LEMMA GatePreserved ==
  ASSUME TypeOK, GateInv, [Next]_vars
  PROVE  GateInv'
<1> USE CallsAreChats DEF userVars, gateVars, asking
<1>0. setup' = setup
  BY DEF Next, vars
<1>1. CASE UNCHANGED vars
  BY <1>1 DEF vars, GateInv
<1>2. CASE UserStep
  BY <1>0, <1>2, AdmittedStays DEF UserStep, GateInv
<1>3. ASSUME NEW c \in Chats, Prepare(c) PROVE GateInv'
  BY <1>0, <1>3 DEF Prepare, GateInv
<1>4. ASSUME NEW c \in Chats, Limit(c) PROVE GateInv'
  <2>1. prepared[c] = "yes" /\ UNCHANGED <<prepared, req>>
    BY <1>4 DEF Limit
  <2>2. \E s \in Limiter!CallPc : call' = [call EXCEPT ![c] = s]
    BY <1>4 DEF Limit, Limiter!CallStep, Limiter!Incr, Limiter!Expire, Limiter!Verdict, Limiter!AllowHere,
       Limiter!Lose, Limiter!Goto, Limiter!CallPc
  <2> QED
    BY <1>0, <2>1, <2>2 DEF GateInv
<1>5. CASE Around
  BY <1>0, <1>5 DEF Around, GateInv, Limiter!Elapse, Limiter!Reconfigure
<1> QED
  BY <1>1, <1>2, <1>3, <1>4, <1>5 DEF Next

\* In every reachable state the accounts are as UserAccess has them, and whatever is
\* counted has been let in and prepared.
THEOREM GateInvariance == Spec => [](IInv /\ GateInv)
<1>1. GateInit => GateInv
  BY CallsAreChats DEF GateInit, GateInv, Limiter!Unused, Limiter!CallPc
<1>2. ASSUME IInv, GateInv, [Next]_vars PROVE GateInv'
  BY <1>2, GatePreserved DEF IInv
<1> QED
  BY GateImplementsUsers, Invariance, <1>1, <1>2, PTL DEF Spec

\* Also in front of the limiter no request is let in with what its account has lost,
\* only administrators have every tenant, and names are unique.
THEOREM GateKeepsUsers == Spec => [](Admitted /\ ScopeValid /\ NamesUnique)
<1>1. IInv => Admitted /\ ScopeValid /\ NamesUnique
  BY DEF IInv
<1> QED
  BY GateInvariance, <1>1, PTL

-----------------------------------------------------------------------------
(* The composition keeps to RateLimit *)

\* What RateLimitProofs assumes of the constants.
LEMMA LimiterAssumptions == L!LimitsAssumption /\ L!CallsAssumption
<1>1. L!IsFiniteSet(Calls) <=> IsFiniteSet(Calls)
  BY Zenon DEF L!IsFiniteSet, IsFiniteSet
<1> QED
  BY <1>1, LimitsAssumption, CallsAssumption DEF L!LimitsAssumption, L!CallsAssumption

\* The two names of the limiter are names of the same steps.
LEMMA LimiterCallStep ==
  ASSUME NEW c \in Calls, Limiter!CallStep(c) \/ Limiter!Lose(c)
  PROVE  L!CallStep(c) \/ L!Lose(c)
<1> USE DEF Limiter!Store, L!Store, Limiter!stores, L!stores, Limiter!Goto, L!Goto, Limiter!Counted, L!Counted
<1>1. Limiter!Incr(c) => L!Incr(c)
  BY Zenon DEF Limiter!Incr, L!Incr, Limiter!First, L!First
<1>2. Limiter!Expire(c) => L!Expire(c)
  BY Zenon DEF Limiter!Expire, L!Expire
<1>3. Limiter!Verdict(c) => L!Verdict(c)
  BY Zenon DEF Limiter!Verdict, L!Verdict, Limiter!Within, L!Within
<1>4. Limiter!AllowHere(c) => L!AllowHere(c)
  BY Zenon DEF Limiter!AllowHere, L!AllowHere
<1>5. Limiter!Lose(c) => L!Lose(c)
  BY Zenon DEF Limiter!Lose, L!Lose
<1> QED
  BY <1>1, <1>2, <1>3, <1>4, <1>5 DEF Limiter!CallStep, L!CallStep

LEMMA LimiterAround ==
  ASSUME GateInv, Around
  PROVE  (\E s \in L!Stores : L!Elapse(s)) \/ (\E i \in Instances : L!Reconfigure(i))
<1> USE DEF Limiter!stores, L!stores
<1>1. L!Stores = Limiter!Stores
  BY DEF L!Stores, Limiter!Stores
<1>2. ASSUME NEW s \in Limiter!Stores, Limiter!Elapse(s) PROVE L!Elapse(s)
  BY <1>2 DEF Limiter!Elapse, L!Elapse
<1>3. ASSUME NEW i, Limiter!Reconfigure(i) PROVE L!Reconfigure(i)
  BY <1>3 DEF Limiter!Reconfigure, L!Reconfigure
<1>4. setup.tuning \subseteq Instances
  BY SetupsAssumption, CallsAreChats DEF GateInv
<1> QED
  BY <1>1, <1>2, <1>3, <1>4 DEF Around

\* However accounts change meanwhile, chats use the limiter as RateLimit says: a call
\* is made for a tenant, which it keeps.
THEOREM GateImplementsLimiter == Spec => L!LimiterSpec
<1>1. GateInit => L!Unused
  BY DEF GateInit, Limiter!Unused, L!Unused, Limiter!Stores, L!Stores
<1>2. ASSUME TypeOK, GateInv, GateInv', [Next]_vars PROVE [L!LimiterNext]_(L!limiterVars)
  <2>1. CASE UNCHANGED vars
    BY <2>1 DEF vars, userVars, gateVars, asking, L!limiterVars, L!stores
  <2>2. CASE Next
    <3>0. \A c \in Chats : prepared[c] = "yes" => ask'[c] = ask[c]
      BY <1>2, <2>2, AdmittedStays DEF GateInv, Next, UserStep, Prepare, Limit, Around, userVars, asking
    <3>a. \A c \in Chats : call'[c] # "start" => prepared[c] = "yes"
      <4>1. prepared' = prepared \/ call' = call
        BY <2>2 DEF Next, UserStep, Prepare, Limit, Around, gateVars
      <4> QED
        BY <1>2, <4>1 DEF GateInv
    <3>1. \A c \in Calls : call'[c] # "start" => L!KeyKept(c)
      BY <1>2, <3>0, <3>a, CallsAreChats, TenantAsked DEF GateInv, L!KeyKept
    <3>2. CASE UserStep \/ \E c \in Chats : Prepare(c)
      BY <3>1, <3>2 DEF UserStep, Prepare, gateVars, L!LimiterNext, L!stores
    <3>3. ASSUME NEW c \in Chats, Limit(c) PROVE L!LimiterNext
      BY <3>1, <3>3, LimiterCallStep, CallsAreChats DEF Limit, L!LimiterNext
    <3>4. CASE Around
      BY <1>2, <3>1, <3>4, LimiterAround DEF L!LimiterNext
    <3> QED
      BY <2>2, <3>2, <3>3, <3>4 DEF Next
  <2> QED
    BY <1>2, <2>1, <2>2
<1> QED
  BY GateInvariance, <1>1, <1>2, PTL DEF Spec, L!LimiterSpec, IInv

\* The properties of the limiter under its two names.
LEMMA LimiterProperties == (L!WithinLimit <=> WithinLimit) /\ (L!WindowEnds <=> WindowEnds)
<1>1. L!Stores = Limiter!Stores /\ \A c \in Calls : L!Store(c) = Limiter!Store(c)
  BY DEF L!Stores, Limiter!Stores, L!Store, Limiter!Store
<1>2. \A s \in L!Stores : \A w \in 0..window[s] : L!AllowedIn(s, w) = Limiter!AllowedIn(s, w)
  BY <1>1 DEF L!AllowedIn, Limiter!AllowedIn
<1>3. \A S : L!Cardinality(S) = Limiter!Cardinality(S)
  BY Zenon DEF L!Cardinality, Limiter!Cardinality
<1>4. L!WithinLimit <=> WithinLimit
  BY <1>1, <1>2, <1>3 DEF L!WithinLimit, WithinLimit, Limiter!WithinLimit
<1>5. L!WindowEnds <=> WindowEnds
  BY <1>1 DEF L!WindowEnds, WindowEnds, Limiter!WindowEnds
<1> QED
  BY <1>4, <1>5

\* No window lets more chats through than the highest limit there has been, whatever
\* processes, chats, accounts and limits do at once (api/routes/chat.py,
\* RedisRateLimiter.allow, InMemoryRateLimiter.allow).
THEOREM WithinLimitHolds == Spec => []WithinLimit
BY GateImplementsLimiter, L!WithinLimitAlways, LimiterAssumptions, LimiterProperties, PTL

\* A tenant's counter has an expiry, or a chat is about to set it, or has lost its
\* EXPIRE.
THEOREM WindowEndsHolds == Spec => []WindowEnds
BY GateImplementsLimiter, L!WindowEndsAlways, LimiterAssumptions, LimiterProperties, PTL
=============================================================================
