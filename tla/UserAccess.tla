------------------------------ MODULE UserAccess ------------------------------
(***************************************************************************)
(* Accounts and who may do what: the users and user_tenants tables         *)
(* (SqlAlchemyUserRepository), the start of a process that creates the     *)
(* default administrator and logins (AuthService), the check every request *)
(* goes through (api/dependencies.py), and the requests that create and    *)
(* change accounts (admin.py).                                             *)
(*                                                                         *)
(* One action is one statement or transaction of the database, with the    *)
(* code up to the next one. Passwords, the signature and the expiry of     *)
(* tokens are left out: a request has a token that the system has issued,  *)
(* or is one that is trusted without a look at the tables (X-Admin-Token,  *)
(* the local session).                                                     *)
(***************************************************************************)
EXTENDS Naturals, FiniteSets

CONSTANTS
  Processes,   \* API processes, which create the default administrator
  Accounts,    \* accounts that may exist before
  Root,        \* the user_id "local-admin"
  RootName,    \* settings.local_admin_username
  Names,       \* usernames
  Tenants,     \* tenants the knowledge base service knows
  Strangers,   \* tenant ids it does not know
  All,         \* the scope "*"
  Chats,       \* requests for a tenant
  Patches,     \* PATCH /users/{user_id} requests
  Posts,       \* POST /users requests; also the user_id (uuid4) each of them draws
  Changes,     \* the bodies a PATCH may have
  Entries,     \* the bodies a POST may have
  Scenarios,   \* the surroundings of a behaviour, see Scenario
  Trusted, NoAccount, Nothing

Requests == Chats \cup Patches \cup Posts
Ids == Accounts \cup Posts
Roles == {"admin", "viewer"}   \* nothing tells an operator from a viewer
Scopes == SUBSET (Tenants \cup {All})
Row == [name : Names, role : Roles, enabled : BOOLEAN]
Token == [user : Ids, role : Roles]

\* A body may ask for tenants that do not exist; a PATCH sets only some fields.
AskedScopes == SUBSET (Tenants \cup Strangers \cup {All})
Change == [user : Ids, sets : SUBSET {"role", "scope", "enabled"},
           role : Roles, scope : AskedScopes, enabled : BOOLEAN]
Entry == [name : Names, role : Roles, scope : AskedScopes]

\* sent: the requests that are sent; starting: the processes that are not up yet, and
\* may end again; logins: the accounts somebody logs in to; users, scopes: the tables
Scenario == [sent : SUBSET Requests, starting : SUBSET Processes, logins : SUBSET Ids,
             users : [Ids -> Row \cup {NoAccount}], scopes : [Ids -> Scopes]]

ASSUME IdsAssumption ==
  /\ Root \in Accounts /\ RootName \in Names /\ Accounts \cap (Chats \cup Patches \cup Posts) = {}
  /\ Chats \cap Patches = {} /\ Chats \cap Posts = {} /\ Patches \cap Posts = {}
ASSUME ScopesAssumption ==
  /\ Strangers \cap Tenants = {} /\ All \notin Tenants \cup Strangers
  /\ Trusted \notin Token /\ NoAccount \notin Row
ASSUME BodiesAssumption == /\ \A b \in Changes : b \in Change
                           /\ \A b \in Entries : b \in Entry

\* fault: a column of the table is not unique
BadTaken(table, id, name) == table[id] # NoAccount

\* the keys an INSERT collides with: user_id is the primary key, username is unique
Taken(table, id, name) ==
  \E u \in Ids : table[u] # NoAccount /\ (u = id \/ table[u].name = name)

\* only administrators have every tenant
ScopeFits(row, scope) == All \in scope => row # NoAccount /\ row.role = "admin"

\* what the system itself has written
ASSUME TablesAssumption ==
  \A e \in Scenarios :
    /\ e \in Scenario
    /\ \A u \in Ids : ScopeFits(e.users[u], e.scopes[u])
    /\ \A u \in Posts : e.users[u] = NoAccount
    /\ \A u \in Ids : e.users[u] # NoAccount => ~Taken([e.users EXCEPT ![u] = NoAccount], u, e.users[u].name)

VARIABLES
  env,     \* the scenario: constant in a behaviour
  users,   \* the users table
  scopes,  \* the user_tenants table: the tenants of each account
  boot,    \* how far each process has come in its start
  tokens,  \* the tokens issued so far
  req,     \* where each request is
  who,     \* the token each request bears
  ask,     \* what it asks for: a tenant or a body
  read,    \* the account it has read last
  audited, \* requests with a row in audit_logs
  could,   \* history: what the account of each request has allowed since it began
  mixed    \* history: accounts of which two PATCHes were under way at once

tables == <<users, scopes>>
asking == <<who, ask>>
history == <<could, mixed>>
userVars == <<env, tables, boot, tokens, req, asking, read, audited, history>>

RequestPc == {"start", "row", "scope", "list", "members", "name", "write", "audit",
              "admitted", "done", "refused", "failed"}

Asks(r) == IF r \in Chats THEN Tenants ELSE IF r \in Patches THEN Changes ELSE Entries

Init ==
  /\ env \in Scenarios
  /\ users = env.users /\ scopes = env.scopes
  /\ boot = [p \in Processes |-> IF p \in env.starting THEN "down" ELSE "up"]
  /\ tokens = {}
  /\ req = [r \in Requests |-> "start"]
  /\ who = [r \in Requests |-> Trusted] /\ ask = [r \in Requests |-> Nothing]
  /\ read = [r \in Requests |-> [row |-> NoAccount, scope |-> {}]]
  /\ audited = {}
  /\ could = [r \in Requests |-> [enabled |-> FALSE, access |-> FALSE]]
  /\ mixed = {}

Goto(r, s) == req' = [req EXCEPT ![r] = s]
Deciding(r) == req[r] \in {"row", "scope"}
Changing(r) == req[r] \in {"row", "scope", "list", "members", "write"}

\* assert_tenant_access for a tenant, require_admin for the account pages
Allows(row, scope, r, wish) ==
  row # NoAccount /\ (row.role = "admin" \/ (r \in Chats /\ (All \in scope \/ wish \in scope)))

\* What the tables say of a request that bears t and asks for wish.
Now(table, members, r, t, wish) ==
  [enabled |-> table[t.user] # NoAccount /\ table[t.user].enabled,
   access |-> Allows(table[t.user], members[t.user], r, wish)]

\* The tables change under requests that are still looking at them.
Noted ==
  could' = [r \in Requests |->
     IF Deciding(r) /\ who[r] # Trusted
       THEN LET now == Now(users', scopes', r, who[r], ask[r]) IN
            [enabled |-> could[r].enabled \/ now.enabled, access |-> could[r].access \/ now.access]
       ELSE could[r]]

-----------------------------------------------------------------------------
(* Starting a process *)

\* get_by_username
Exists(name) == \E u \in Ids : users[u] # NoAccount /\ users[u].name = name

\* fault: the account is created without a look
BadHasAdmin == FALSE

HasAdmin == Exists(RootName)

\* ensure_default_admin looks the name up ...
CheckAdmin(p) ==
  /\ boot[p] = "down"
  /\ boot' = [boot EXCEPT ![p] = IF HasAdmin THEN "up" ELSE "missing"]
  /\ UNCHANGED <<env, tables, tokens, req, asking, read, audited, history>>

\* ... and inserts the account; an IntegrityError ends the process.
InsertAdmin(p) ==
  /\ boot[p] = "missing"
  /\ IF Taken(users, Root, RootName)
       THEN boot' = [boot EXCEPT ![p] = "down"] /\ UNCHANGED <<tables, could>>
       ELSE /\ boot' = [boot EXCEPT ![p] = "up"]
            /\ users' = [users EXCEPT ![Root] = [name |-> RootName, role |-> "admin", enabled |-> TRUE]]
            /\ scopes' = [scopes EXCEPT ![Root] = {All}]
            /\ Noted
  /\ UNCHANGED <<env, tokens, req, asking, read, audited, mixed>>

\* A process ends; its requests end with Drop.
Stop(p) ==
  /\ boot[p] = "up" /\ p \in env.starting
  /\ boot' = [boot EXCEPT ![p] = "down"]
  /\ UNCHANGED <<env, tables, tokens, req, asking, read, audited, history>>

Serving == \E p \in Processes : boot[p] = "up"

-----------------------------------------------------------------------------
(* Requests: who asks, and may he *)

\* login reads the account and issues a token that names its role. The tenants it
\* names as well are never looked at.
Login(u) ==
  /\ Serving /\ u \in env.logins /\ users[u] # NoAccount /\ users[u].enabled
  /\ tokens' = tokens \cup {[user |-> u, role |-> users[u].role]}
  /\ UNCHANGED <<env, tables, boot, req, asking, read, audited, history>>

\* what a request does once it is let in
Entrance(r) == IF r \in Chats THEN "admitted" ELSE IF r \in Patches THEN "list" ELSE "name"

\* fault: tenants the body does not name are not looked at
BadProposed(change, account) ==
  [role |-> IF "role" \in change.sets THEN change.role ELSE account.row.role,
   scope |-> IF "scope" \in change.sets THEN change.scope ELSE {}]

\* what a PATCH is validated for: the body, and the account where it says nothing
Proposed(change, account) ==
  [role |-> IF "role" \in change.sets THEN change.role ELSE account.row.role,
   scope |-> IF "scope" \in change.sets THEN change.scope ELSE account.scope]

\* what the UPDATE makes of the account: fields the body does not set stay
Updated(change, account) ==
  [row |-> [account.row EXCEPT !.role = IF "role" \in change.sets THEN change.role ELSE @,
                               !.enabled = IF "enabled" \in change.sets THEN change.enabled ELSE @],
   scope |-> IF "scope" \in change.sets THEN change.scope ELSE account.scope]

\* validate_user_scope
ValidScope(role, scope) == (All \in scope => role = "admin") /\ scope \cap Strangers = {}

\* A POST is validated as soon as it is let in.
LetIn(r, wish) ==
  IF r \in Posts /\ ~ValidScope(wish.role, wish.scope) THEN "refused" ELSE Entrance(r)

Begin(r) ==
  /\ req[r] = "start" /\ r \in env.sent /\ Serving
  /\ \E t \in tokens \cup {Trusted}, wish \in Asks(r) :
       /\ who' = [who EXCEPT ![r] = t] /\ ask' = [ask EXCEPT ![r] = wish]
       /\ Goto(r, IF t = Trusted THEN LetIn(r, wish) ELSE "row")
       /\ could' = IF t = Trusted THEN could
                     ELSE [could EXCEPT ![r] = Now(users, scopes, r, t, wish)]
       /\ mixed' = IF \E q \in Patches \ {r} : r \in Patches /\ Changing(q) /\ ask[q].user = wish.user
                     THEN mixed \cup {wish.user} ELSE mixed
  /\ UNCHANGED <<env, tables, boot, tokens, read, audited>>

\* get_by_id: the row of the account ...
ReadRow(r) ==
  /\ req[r] = "row"
  /\ read' = [read EXCEPT ![r].row = users[who[r].user]]
  /\ Goto(r, IF users[who[r].user] = NoAccount THEN "refused" ELSE "scope")
  /\ UNCHANGED <<env, tables, boot, tokens, asking, audited, history>>

\* fault: the role is the token's
BadContextRow(r) == [read[r].row EXCEPT !.role = who[r].role]

\* resolve_user_context: the row that was read replaces what the token says
ContextRow(r) == read[r].row

\* ... and its tenants, in another statement; then the checks.
ReadScope(r) ==
  /\ req[r] = "scope"
  /\ read' = [read EXCEPT ![r].scope = scopes[who[r].user]]
  /\ Goto(r, IF ContextRow(r).enabled /\ Allows(ContextRow(r), scopes[who[r].user], r, ask[r])
               THEN LetIn(r, ask[r]) ELSE "refused")
  /\ UNCHANGED <<env, tables, boot, tokens, asking, audited, history>>

\* The request raises, or its process dies, at any await.
Drop(r) ==
  /\ req[r] \in {"row", "scope", "list", "members", "name", "write", "audit"}
  /\ Goto(r, "failed")
  /\ UNCHANGED <<env, tables, boot, tokens, asking, read, audited, history>>

-----------------------------------------------------------------------------
(* Changing an account *)

\* list_users: the users ...
ListUsers(r) ==
  /\ req[r] = "list"
  /\ LET row == users[ask[r].user] IN
       /\ read' = [read EXCEPT ![r].row = row]
       /\ Goto(r, IF row = NoAccount THEN "refused" ELSE "members")
  /\ UNCHANGED <<env, tables, boot, tokens, asking, audited, history>>

\* ... and their tenants; then what the account would become is validated.
ListMembers(r) ==
  /\ req[r] = "members"
  /\ LET account == [row |-> read[r].row, scope |-> scopes[ask[r].user]]
         proposed == Proposed(ask[r], account) IN
       /\ read' = [read EXCEPT ![r] = account]
       /\ Goto(r, IF ValidScope(proposed.role, proposed.scope) THEN "write" ELSE "refused")
  /\ UNCHANGED <<env, tables, boot, tokens, asking, audited, history>>

\* repository.update: one transaction that sets what the body names, and nothing
\* that has been read before.
UpdateUser(r) ==
  /\ r \in Patches /\ req[r] = "write"
  /\ LET u == ask[r].user
         updated == Updated(ask[r], [row |-> users[u], scope |-> scopes[u]]) IN
       /\ users' = [users EXCEPT ![u] = updated.row]
       /\ scopes' = [scopes EXCEPT ![u] = updated.scope]
  /\ Goto(r, "audit") /\ Noted
  /\ UNCHANGED <<env, boot, tokens, asking, read, audited, mixed>>

-----------------------------------------------------------------------------
(* Creating an account *)

CheckName(r) ==
  /\ req[r] = "name"
  /\ Goto(r, IF Exists(ask[r].name) THEN "refused" ELSE "write")
  /\ UNCHANGED <<env, tables, boot, tokens, asking, read, audited, history>>

\* repository.create: one transaction
InsertUser(r) ==
  /\ r \in Posts /\ req[r] = "write"
  /\ IF Taken(users, r, ask[r].name)
       THEN Goto(r, "failed") /\ UNCHANGED <<tables, could>>
       ELSE /\ users' = [users EXCEPT ![r] = [name |-> ask[r].name, role |-> ask[r].role, enabled |-> TRUE]]
            /\ scopes' = [scopes EXCEPT ![r] = ask[r].scope]
            /\ Goto(r, "audit") /\ Noted
  /\ UNCHANGED <<env, boot, tokens, asking, read, audited, mixed>>

\* record_audit, after the change
Audit(r) ==
  /\ req[r] = "audit"
  /\ audited' = audited \cup {r}
  /\ Goto(r, "done")
  /\ UNCHANGED <<env, tables, boot, tokens, asking, read, history>>

-----------------------------------------------------------------------------

RequestStep(r) ==
  \/ Begin(r) \/ ReadRow(r) \/ ReadScope(r) \/ ListUsers(r) \/ ListMembers(r)
  \/ UpdateUser(r) \/ CheckName(r) \/ InsertUser(r) \/ Audit(r)

BootStep(p) == CheckAdmin(p) \/ InsertAdmin(p)

UserNext ==
  \/ \E r \in Requests : RequestStep(r) \/ Drop(r)
  \/ \E p \in Processes : BootStep(p) \/ Stop(p)
  \/ \E u \in Ids : Login(u)

UserSpec == Init /\ [][UserNext]_userVars

-----------------------------------------------------------------------------

\* The types of all variables.
TypeOK ==
  /\ env \in Scenarios
  /\ users \in [Ids -> Row \cup {NoAccount}] /\ scopes \in [Ids -> Scopes]
  /\ boot \in [Processes -> {"down", "missing", "up"}]
  /\ tokens \subseteq Token
  /\ req \in [Requests -> RequestPc] /\ who \in [Requests -> Token \cup {Trusted}]
  /\ ask \in [Requests -> Tenants \cup Changes \cup Entries \cup {Nothing}]
  /\ \A r \in Requests : req[r] # "start" => ask[r] \in Asks(r)
  /\ \A r \in Requests : req[r] \in {"row", "scope"} => who[r] # Trusted
  /\ read \in [Requests -> [row : Row \cup {NoAccount}, scope : Scopes]]
  /\ audited \subseteq Requests
  /\ could \in [Requests -> [enabled : BOOLEAN, access : BOOLEAN]]
  /\ mixed \subseteq Ids

\* A request is let in only if its account was enabled, and had the tenant or the
\* role it needs, at some time since the request began: what an account has lost
\* before is lost, whatever its token says (AuthService.resolve_user_context).
Admitted ==
  \A r \in Requests :
    req[r] \in {"admitted", "list", "members", "name", "write", "audit", "done"} /\ who[r] # Trusted
      => could[r].enabled /\ could[r].access

\* Only administrators have every tenant, as long as no two PATCHes of the account
\* overlap: a PATCH is validated against what it leaves as it is
\* (validate_user_scope, update_user).
ScopeValid == \A u \in Ids \ mixed : ScopeFits(users[u], scopes[u])

\* A name belongs to one account, although it is looked up before and in another
\* transaction than it is inserted (create_user, ensure_default_admin).
NamesUnique ==
  \A u, v \in Ids : users[u] # NoAccount /\ users[v] # NoAccount /\ users[u].name = users[v].name
                      => u = v

\* Why ScopeValid holds: what a PATCH has read is still so when it writes.
ReadOf(r) ==
  /\ req[r] \in {"list", "members"} => r \in Patches
  /\ req[r] = "name" => r \in Posts
  /\ r \in Patches /\ req[r] \in {"members", "write"} =>
       /\ read[r].row # NoAccount /\ users[ask[r].user] # NoAccount
       /\ ask[r].user \notin mixed => read[r].row = users[ask[r].user]
  /\ r \in Patches /\ req[r] = "write" =>
       /\ ask[r].user \notin mixed => read[r].scope = scopes[ask[r].user]
       /\ LET proposed == Proposed(ask[r], read[r]) IN ValidScope(proposed.role, proposed.scope)
  /\ r \in Posts /\ req[r] \in {"name", "write"} => ValidScope(ask[r].role, ask[r].scope)
  /\ r \in Posts /\ req[r] \in {"start", "row", "scope", "name", "write"} => users[r] = NoAccount

ReadInv ==
  /\ \A r \in Requests : ReadOf(r)
  /\ \A q, r \in Patches : q # r /\ Changing(q) /\ Changing(r) /\ ask[q].user = ask[r].user
       => ask[q].user \in mixed

\* Why Admitted holds: the history is not behind the tables.
SeenOf(r) ==
  LET now == Now(users, scopes, r, who[r], ask[r]) IN
    /\ now.enabled => could[r].enabled
    /\ now.access => could[r].access
    /\ req[r] = "scope" => /\ read[r].row # NoAccount /\ users[who[r].user] # NoAccount
                           /\ read[r].row.enabled => could[r].enabled
                           /\ read[r].row.role = "admin" => could[r].access

SeenInv == \A r \in Requests : Deciding(r) => SeenOf(r)

IInv == TypeOK /\ ReadInv /\ SeenInv /\ Admitted /\ ScopeValid /\ NamesUnique

\* A process that starts is up in the end, also when two of them create the
\* administrator at once and one of them fails (ensure_default_admin). Needs that the
\* account local-admin, if there is one, has the configured name.
BootEnds == \A p \in Processes : boot[p] # "up" ~> boot[p] = "up"

=============================================================================
