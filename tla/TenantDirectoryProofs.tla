----------------------- MODULE TenantDirectoryProofs -----------------------
(***************************************************************************)
(* Proofs about TenantDirectory. The plug-in's default knowledge base is   *)
(* the tenant's in the table and in every copy: creating a knowledge base  *)
(* needs an id the copy does not know, and writing a row only passes on    *)
(* the owner a copy has. So a process that starts always finds a knowledge *)
(* base of the tenant to repair the default with, and one that serves      *)
(* only accepts a default it knows to be the tenant's.                     *)
(*                                                                         *)
(* If one instance creates all knowledge bases no owner changes: its copy  *)
(* is ahead of the table and the others are behind it, so no two of them   *)
(* disagree about an owner.                                                *)
(*                                                                         *)
(* The second part is about one administrator who uses one instance: what  *)
(* that instance's copy has is what is published and written, and the      *)
(* listeners have it or will be told of it.                                *)
(***************************************************************************)
EXTENDS TenantDirectory, TLAPS

-----------------------------------------------------------------------------
(* Lemmas about the operators *)

LEMMA SeedTyped == SeedDefault \in KBs /\ OurSeeds \subseteq KBs /\ SeedDefault \in Seeds
BY DirectoryAssumption

\* Writing a row keeps the table a table, and changes the owner of that row only.
LEMMA WrittenEffect ==
  ASSUME TypeOK, NEW i \in Instances, NEW k \in KBs
  PROVE  /\ Written(i, k) \in Directory
         /\ Written(i, k).known = kbRows.known \cup {k}
         /\ Written(i, k).ours = IF k \in kbs[i].ours THEN kbRows.ours \cup {k} ELSE kbRows.ours \ {k}
BY DEF Written, Put, Set, TypeOK, Directory

\* What a request or a listener makes of a tenant is a tenant, and its default is
\* the one before, or the one asked for.
LEMMA ChangedEffect ==
  ASSUME TypeOK, NEW i \in Instances, NEW k \in KBs \cup {NoKB}, NEW p \in Updates \cup {SeedPlan, NoKB}
  PROVE  /\ Changed(i, k, p) \in Tenant
         /\ Changed(i, k, p).default \in {tenant[i].default, k}
         /\ k = NoKB => Changed(i, k, p).default = tenant[i].default
BY DEF Changed, TypeOK, Tenant

\* A repaired tenant is a tenant, and its default is a knowledge base of its own.
LEMMA RepairedEffect ==
  ASSUME NEW t \in Tenant, NEW ours \in SUBSET KBs, NEW s \in Repaired(t, ours)
  PROVE  s \in Tenant /\ s.default \in ours
<1>1. CASE t.default \in ours
  BY <1>1 DEF Repaired
<1>2. CASE t.default \notin ours
  <2>1. PICK k \in ours : s = [t EXCEPT !.default = k]
    BY <1>2 DEF Repaired
  <2> QED
    BY <2>1 DEF Tenant
<1> QED
  BY <1>1, <1>2

\* A create is refused, or adds a knowledge base this instance does not know.
LEMMA CreateEffect ==
  ASSUME TypeOK, NEW c \in Requests, CreateKB(c)
  PROVE  \/ req' = [req EXCEPT ![c] = "failed"] /\ kbs' = kbs
         \/ /\ req' = [req EXCEPT ![c] = "changed"] /\ Target[c] \notin kbs[Home[c]].known
            /\ kbs'[Home[c]] = Put(kbs[Home[c]], Target[c], c \in OurCreates, TRUE)
            /\ Target[c] \in kbs'[Home[c]].known /\ kbs[Home[c]].known \subseteq kbs'[Home[c]].known
            /\ \A j \in Instances \ {Home[c]} : kbs'[j] = kbs[j]
<1>1. Home[c] \in Instances
  BY DirectoryAssumption
<1>2. CASE Exists(Home[c], Target[c])
  BY <1>2 DEF CreateKB, Goto
<1>3. CASE ~Exists(Home[c], Target[c])
  <2>1. kbs' = [kbs EXCEPT ![Home[c]] = Put(@, Target[c], c \in OurCreates, TRUE)]
    BY <1>3 DEF CreateKB
  <2>2. /\ kbs'[Home[c]] = Put(kbs[Home[c]], Target[c], c \in OurCreates, TRUE)
        /\ \A j \in Instances \ {Home[c]} : kbs'[j] = kbs[j]
    BY <1>1, <2>1 DEF TypeOK
  <2>3. kbs'[Home[c]].known = kbs[Home[c]].known \cup {Target[c]}
    BY <2>2 DEF Put
  <2> QED
    BY <1>3, <2>2, <2>3 DEF CreateKB, Goto, Exists
<1> QED
  BY <1>2, <1>3

\* A toggle is refused, or sets "enabled" and keeps the owner.
LEMMA ToggleEffect ==
  ASSUME TypeOK, NEW g \in Requests, UpdateKB(g)
  PROVE  \/ req' = [req EXCEPT ![g] = "failed"] /\ kbs' = kbs
         \/ /\ req' = [req EXCEPT ![g] = "changed"] /\ Target[g] \in kbs[Home[g]].known
            /\ kbs'[Home[g]].known = kbs[Home[g]].known /\ kbs'[Home[g]].ours = kbs[Home[g]].ours
            /\ kbs'[Home[g]].enabled \in {kbs[Home[g]].enabled \cup {Target[g]}, kbs[Home[g]].enabled \ {Target[g]}}
            /\ \A j \in Instances \ {Home[g]} : kbs'[j] = kbs[j]
<1> DEFINE h == Home[g]  k == Target[g]
<1>1. h \in Instances
  BY DirectoryAssumption
<1>2. CASE k \notin kbs[h].known
  BY <1>2 DEF UpdateKB, Goto
<1>3. CASE k \in kbs[h].known
  <2>1. PICK on \in BOOLEAN : kbs' = [kbs EXCEPT ![h] = Put(@, k, k \in @.ours, on)]
    BY <1>3 DEF UpdateKB
  <2>2. kbs'[h] = Put(kbs[h], k, k \in kbs[h].ours, on) /\ \A j \in Instances \ {h} : kbs'[j] = kbs[j]
    BY <1>1, <2>1 DEF TypeOK
  <2>3. /\ kbs'[h].known = kbs[h].known /\ kbs'[h].ours = kbs[h].ours
        /\ kbs'[h].enabled \in {kbs[h].enabled \cup {k}, kbs[h].enabled \ {k}}
    <3>1. /\ kbs'[h].known = kbs[h].known \cup {k}
          /\ kbs'[h].ours = Set(kbs[h].ours, k, k \in kbs[h].ours)
          /\ kbs'[h].enabled = Set(kbs[h].enabled, k, on)
      BY <2>2 DEF Put
    <3>2. kbs[h].known \cup {k} = kbs[h].known
      BY <1>3
    <3>3. Set(kbs[h].ours, k, k \in kbs[h].ours) = kbs[h].ours
      BY DEF Set
    <3>4. Set(kbs[h].enabled, k, on) \in {kbs[h].enabled \cup {k}, kbs[h].enabled \ {k}}
      BY DEF Set
    <3> QED
      BY <3>1, <3>2, <3>3, <3>4
  <2> QED
    BY <1>3, <2>2, <2>3 DEF UpdateKB, Goto
<1> QED
  BY <1>2, <1>3

\* Counting a fault keeps the counters within their bounds.
LEMMA CountFault ==
  ASSUME TypeOK
  PROVE  /\ faults.error < Errors =>
              [faults EXCEPT !.error = @ + 1] \in [error : 0..Errors, death : 0..Deaths]
         /\ faults.death < Deaths =>
              [faults EXCEPT !.death = @ + 1] \in [error : 0..Errors, death : 0..Deaths]
<1>1. /\ faults.error \in 0..Errors /\ faults.death \in 0..Deaths
      /\ faults = [error |-> faults.error, death |-> faults.death]
  BY DEF TypeOK
<1>2. ASSUME faults.error < Errors PROVE faults.error + 1 \in 0..Errors
  BY <1>1, <1>2, DirectoryAssumption
<1>3. ASSUME faults.death < Deaths PROVE faults.death + 1 \in 0..Deaths
  BY <1>1, <1>3, DirectoryAssumption
<1> QED
  BY <1>1, <1>2, <1>3

-----------------------------------------------------------------------------
(* The invariant *)

LEMMA InitIInv == Init => IInv
<1> SUFFICES ASSUME Init PROVE IInv
  OBVIOUS
<1> USE DirectoryAssumption DEF Init
<1>1. tenantRow \in Tenant /\ kbRows \in Directory
  BY SeedTyped DEF Tenant, Directory
<1>2. TypeOK
  BY <1>1 DEF TypeOK, RequestPc, InstancePc
<1>3. SeedInv /\ DefaultOwned
  BY DEF SeedInv, DefaultOwned
<1> QED
  BY <1>2, <1>3 DEF IInv

LEMMA TypePreserved ==
  ASSUME IInv, Next
  PROVE  TypeOK'
<1>0. TypeOK
  BY DEF IInv
<1> USE DirectoryAssumption
    DEF Requests, storeVars, copyVars, requestVars, instanceVars, Goto, Become, Start, RequestPc, InstancePc
<1>1. ASSUME NEW u \in Requests, UpdateTenant(u) PROVE TypeOK'
  <2> DEFINE t == Changed(Home[u], Default[u], IF u \in Renames THEN u ELSE NoKB)
  <2>1. t \in Tenant
    BY <1>0, <1>1, ChangedEffect DEF UpdateTenant
  <2>2. tenant' \in [Instances -> Tenant] /\ sent' \in [Updates -> Tenant]
    BY <1>0, <1>1, <2>1 DEF UpdateTenant, TypeOK
  <2>3. req' \in [Requests -> RequestPc]
    BY <1>0, <1>1 DEF UpdateTenant, TypeOK
  <2>4. alone' \in BOOLEAN /\ UNCHANGED <<storeVars, kbs, instanceVars, faults>>
    BY <1>1 DEF UpdateTenant
  <2> QED
    BY <1>0, <2>2, <2>3, <2>4 DEF TypeOK
<1>2. ASSUME NEW u \in Requests, SaveTenant(u) PROVE TypeOK'
  BY <1>0, <1>2 DEF SaveTenant, TypeOK
<1>3. ASSUME NEW u \in Requests, CreateVersion(u) PROVE TypeOK'
  BY <1>0, <1>3 DEF CreateVersion, Result, TypeOK
<1>4. ASSUME NEW u \in Requests, PublishVersion(u) PROVE TypeOK'
  BY <1>0, <1>4 DEF PublishVersion, TypeOK
<1>5. ASSUME NEW u \in Requests, Announce(u) PROVE TypeOK'
  BY <1>0, <1>5 DEF Announce, TypeOK
<1>6. ASSUME NEW c \in Requests, CreateKB(c) PROVE TypeOK'
  <2> DEFINE e == Put(kbs[Home[c]], Target[c], c \in OurCreates, TRUE)
  <2>1. e \in Directory
    BY <1>0, <1>6 DEF CreateKB, Put, Set, TypeOK, Directory
  <2>2. \/ kbs' = kbs /\ req' = [req EXCEPT ![c] = "failed"]
        \/ kbs' = [kbs EXCEPT ![Home[c]] = e] /\ req' = [req EXCEPT ![c] = "changed"]
    BY <1>6, Zenon DEF CreateKB
  <2> HIDE DEF e
  <2>3. kbs' \in [Instances -> Directory] /\ req' \in [Requests -> RequestPc]
    BY <1>0, <2>1, <2>2 DEF TypeOK
  <2> QED
    BY <1>0, <1>6, <2>3 DEF CreateKB, TypeOK
<1>7. ASSUME NEW g \in Requests, UpdateKB(g) PROVE TypeOK'
  <2>1. \A on \in BOOLEAN : Put(kbs[Home[g]], Target[g], Target[g] \in kbs[Home[g]].ours, on) \in Directory
    BY <1>0, <1>7 DEF UpdateKB, Put, Set, TypeOK, Directory
  <2>2. kbs' \in [Instances -> Directory] /\ req' \in [Requests -> RequestPc]
    BY <1>0, <1>7, <2>1 DEF UpdateKB, TypeOK
  <2> QED
    BY <1>0, <1>7, <2>2 DEF UpdateKB, TypeOK
<1>8. ASSUME NEW r \in Requests, SaveKB(r) PROVE TypeOK'
  <2>1. Written(Home[r], Target[r]) \in Directory
    BY <1>0, <1>8, WrittenEffect DEF SaveKB
  <2> QED
    BY <1>0, <1>8, <2>1 DEF SaveKB, TypeOK
<1>9. ASSUME NEW r \in Requests, Error(r) PROVE TypeOK'
  <2>1. faults' \in [error : 0..Errors, death : 0..Deaths]
    BY <1>0, <1>9, CountFault DEF Error, Fault
  <2> QED
    BY <1>0, <1>9, <2>1 DEF Error, TypeOK
<1>10. ASSUME NEW i \in Instances, Receive(i) PROVE TypeOK'
  <2>1. inbox[i] \in Nat /\ inbox[i] > 0 /\ published \in Tenant
    BY <1>0, <1>10 DEF Receive, TypeOK
  <2>2. inbox' \in [Instances -> Nat]
    BY <1>0, <1>10, <2>1 DEF Receive, TypeOK
  <2> QED
    BY <1>0, <1>10, <2>1, <2>2 DEF Receive, TypeOK
<1>11. ASSUME NEW i \in Instances, Apply(i) PROVE TypeOK'
  <2>1. Changed(i, hread[i].default, hread[i].plan) \in Tenant
    BY <1>0, ChangedEffect DEF TypeOK, Tenant
  <2> QED
    BY <1>0, <1>11, <2>1 DEF Apply, TypeOK
<1>12. ASSUME NEW i \in Instances, Ignore(i) \/ Subscribe(i) PROVE TypeOK'
  BY <1>0, <1>12 DEF Ignore, Subscribe, TypeOK
<1>13. ASSUME NEW i \in Instances, WriteBack(i) PROVE TypeOK'
  BY <1>0, <1>13 DEF WriteBack, TypeOK
<1>14. ASSUME NEW i \in Instances, HandlerError(i) PROVE TypeOK'
  <2>1. faults' \in [error : 0..Errors, death : 0..Deaths]
    BY <1>0, <1>14, CountFault DEF HandlerError, Fault
  <2>2. inbox[i] > 0 => inbox[i] - 1 \in Nat
    BY <1>0 DEF TypeOK
  <2>3. inbox' \in [Instances -> Nat]
    BY <1>0, <1>14, <2>2 DEF HandlerError, TypeOK
  <2> QED
    BY <1>0, <1>14, <2>1, <2>3 DEF HandlerError, TypeOK
<1>15. ASSUME NEW i \in Instances, Die(i) PROVE TypeOK'
  <2>1. faults' \in [error : 0..Errors, death : 0..Deaths]
    BY <1>0, <1>15, CountFault DEF Die
  <2> QED
    BY <1>0, <1>15, <2>1 DEF Die, TypeOK
<1>16. ASSUME NEW i \in Instances, LoadKBs(i) PROVE TypeOK'
  <2>1. kbs'[i] \in Directory /\ \A j \in Instances \ {i} : kbs'[j] = kbs[j]
    BY <1>0, <1>16 DEF LoadKBs, TypeOK, Directory
  <2>2. kbs' \in [Instances -> Directory]
    BY <1>0, <1>16, <2>1 DEF LoadKBs, TypeOK
  <2> QED
    BY <1>0, <1>16, <2>2 DEF LoadKBs, TypeOK
<1>17. ASSUME NEW i \in Instances, LoadTenant(i) PROVE TypeOK'
  <2>1. PICK t \in Repaired(tenantRow, kbs[i].ours) : tenant' = [tenant EXCEPT ![i] = t]
    BY <1>17 DEF LoadTenant
  <2>2. tenantRow \in Tenant /\ kbs[i].ours \in SUBSET KBs
    BY <1>0 DEF TypeOK, Directory
  <2>3. t \in Tenant
    BY <2>1, <2>2, RepairedEffect
  <2> QED
    BY <1>0, <1>17, <2>1, <2>3 DEF LoadTenant, TypeOK
<1>18. ASSUME NEW i \in Instances, SeedTenant(i) PROVE TypeOK'
  BY <1>0, <1>18 DEF SeedTenant, TypeOK, Directory
<1>19. ASSUME NEW i \in Instances, SeedKB(i) PROVE TypeOK'
  <2>1. PICK k \in todo[i] : /\ kbRows' = Written(i, k)
                             /\ todo' = [todo EXCEPT ![i] = @ \ {k}]
    BY <1>19 DEF SeedKB
  <2>2. k \in KBs
    BY <1>0, <2>1 DEF TypeOK
  <2>3. kbRows' \in Directory
    BY <1>0, <2>1, <2>2, WrittenEffect
  <2>4. todo' \in [Instances -> SUBSET KBs] /\ ipc' \in [Instances -> InstancePc]
    BY <1>0, <1>19, <2>1 DEF SeedKB, TypeOK
  <2> QED
    BY <1>0, <1>19, <2>3, <2>4 DEF SeedKB, TypeOK
<1> QED
  BY <1>1, <1>2, <1>3, <1>4, <1>5, <1>6, <1>7, <1>8, <1>9, <1>10, <1>11, <1>12, <1>13,
     <1>14, <1>15, <1>16, <1>17, <1>18, <1>19 DEF Next, RequestStep, ListenerStep, StartStep

\* The owner of the plug-in's default, in the table and in the copies.
LEMMA SeedPreserved ==
  ASSUME IInv, Next
  PROVE  SeedInv'
<1>0. TypeOK /\ SeedInv
  BY DEF IInv
<1> USE DirectoryAssumption
    DEF Requests, storeVars, copyVars, requestVars, instanceVars
\* a row is written with the owner of the copy it comes from
<1>1. ASSUME NEW i \in Instances, NEW k \in KBs, kbRows' = Written(i, k), kbs' = kbs PROVE SeedInv'
  <2>1. /\ kbRows'.known = kbRows.known \cup {k}
        /\ kbRows'.ours = IF k \in kbs[i].ours THEN kbRows.ours \cup {k} ELSE kbRows.ours \ {k}
    BY <1>0, <1>1, WrittenEffect
  <2>2. SeedDefault \in kbRows'.ours
    BY <1>0, <2>1 DEF SeedInv
  <2>3. kbRows'.ours \subseteq kbRows'.known
    BY <1>0, <2>1 DEF SeedInv
  <2> QED
    BY <1>0, <1>1, <2>2, <2>3 DEF SeedInv
<1>2. ASSUME NEW i \in Instances, kbRows' = kbRows, \A j \in Instances \ {i} : kbs'[j] = kbs[j],
             kbs[i].ours \subseteq kbs'[i].ours, kbs'[i].ours \subseteq kbs'[i].known
      PROVE  SeedInv'
  BY <1>0, <1>2 DEF SeedInv
<1>3. ASSUME NEW c \in Requests, CreateKB(c) PROVE SeedInv'
  <2> DEFINE k == Target[c]  d == kbs[Home[c]]  e == Put(d, k, c \in OurCreates, TRUE)
  <2>1. CASE Exists(Home[c], k)
    BY <1>0, <1>3, <2>1 DEF CreateKB, SeedInv
  <2>2. CASE ~Exists(Home[c], k)
    <3>1. d.ours \subseteq e.ours /\ e.ours \subseteq e.known
      BY <1>0, <1>3, <2>2 DEF Exists, Put, Set, SeedInv, CreateKB
    <3>2. kbs'[Home[c]] = e /\ \A j \in Instances \ {Home[c]} : kbs'[j] = kbs[j]
      BY <1>0, <1>3, <2>2 DEF CreateKB, TypeOK
    <3> QED
      BY <1>2, <1>3, <3>1, <3>2 DEF CreateKB
  <2> QED
    BY <2>1, <2>2
<1>4. ASSUME NEW g \in Requests, UpdateKB(g) PROVE SeedInv'
  <2> DEFINE k == Target[g]  d == kbs[Home[g]]
  <2>1. CASE k \notin d.known
    BY <1>0, <1>4, <2>1 DEF UpdateKB, SeedInv
  <2>2. CASE k \in d.known
    <3>1. PICK on \in BOOLEAN : kbs' = [kbs EXCEPT ![Home[g]] = Put(@, k, k \in @.ours, on)]
      BY <1>4, <2>2 DEF UpdateKB
    <3>2. /\ kbs'[Home[g]] = Put(d, k, k \in d.ours, on)
          /\ \A j \in Instances \ {Home[g]} : kbs'[j] = kbs[j]
      BY <1>0, <1>4, <3>1 DEF UpdateKB, TypeOK
    <3>3. /\ d.ours \subseteq kbs'[Home[g]].ours
          /\ kbs'[Home[g]].ours \subseteq kbs'[Home[g]].known
      BY <1>0, <1>4, <3>2 DEF Put, Set, SeedInv, UpdateKB
    <3> QED
      BY <1>2, <1>4, <3>2, <3>3 DEF UpdateKB
  <2> QED
    BY <2>1, <2>2
<1>5. ASSUME NEW r \in Requests, SaveKB(r) PROVE SeedInv'
  BY <1>1, <1>5 DEF SaveKB
<1>6. ASSUME NEW i \in Instances, LoadKBs(i) PROVE SeedInv'
  <2>1. /\ kbs'[i].known = kbRows.known \cup Seeds
        /\ kbs'[i].ours = kbRows.ours \cup (OurSeeds \ kbRows.known)
        /\ \A j \in Instances \ {i} : kbs'[j] = kbs[j]
    BY <1>0, <1>6 DEF LoadKBs, TypeOK
  <2> QED
    BY <1>0, <1>6, <2>1 DEF LoadKBs, SeedInv
<1>7. ASSUME NEW i \in Instances, SeedKB(i) PROVE SeedInv'
  BY <1>0, <1>1, <1>7 DEF SeedKB, TypeOK
\* all other steps leave the knowledge bases alone
<1>8. ASSUME UNCHANGED <<kbRows, kbs>> PROVE SeedInv'
  BY <1>0, <1>8 DEF SeedInv
<1>9. ASSUME NEW u \in Requests,
             \/ UpdateTenant(u) \/ SaveTenant(u) \/ CreateVersion(u) \/ PublishVersion(u)
             \/ Announce(u) \/ Error(u)
      PROVE  SeedInv'
  BY <1>8, <1>9 DEF UpdateTenant, SaveTenant, CreateVersion, PublishVersion, Announce, Error
<1>10. ASSUME NEW i \in Instances,
              \/ ListenerStep(i) \/ HandlerError(i) \/ Die(i)
              \/ LoadTenant(i) \/ SeedTenant(i) \/ Subscribe(i)
       PROVE  SeedInv'
  BY <1>8, <1>10 DEF ListenerStep, Receive, Apply, Ignore, WriteBack, HandlerError, Die, LoadTenant,
     SeedTenant, Subscribe
<1> QED
  BY <1>3, <1>4, <1>5, <1>6, <1>7, <1>9, <1>10 DEF Next, RequestStep, StartStep

\* The default of a process that serves.
LEMMA DefaultPreserved ==
  ASSUME IInv, Next
  PROVE  DefaultOwned'
<1>0. TypeOK /\ SeedInv /\ DefaultOwned
  BY DEF IInv
<1> USE DirectoryAssumption
    DEF Requests, storeVars, copyVars, requestVars, instanceVars, Become
\* a request on, or an event for, an instance that serves
<1>1. ASSUME NEW i \in Instances, NEW k \in KBs \cup {NoKB}, NEW p \in Updates \cup {SeedPlan, NoKB},
             Serving(i), Accepts(i, k), tenant' = [tenant EXCEPT ![i] = Changed(i, k, p)], kbs' = kbs,
             \A j \in Instances : ipc'[j] \in {"loading", "loaded"} <=> ipc[j] \in {"loading", "loaded"}
      PROVE  DefaultOwned'
  <2>1. tenant[i].default \in kbs[i].ours
    BY <1>0, <1>1 DEF DefaultOwned, Serving
  <2>2. Changed(i, k, p).default \in kbs[i].ours
    BY <1>0, <1>1, <2>1, ChangedEffect DEF Accepts
  <2>3. tenant'[i] = Changed(i, k, p) /\ \A j \in Instances \ {i} : tenant'[j] = tenant[j]
    BY <1>0, <1>1 DEF TypeOK
  <2> QED
    BY <1>0, <1>1, <2>2, <2>3 DEF DefaultOwned
\* steps that take nothing from a copy, and let no process serve
<1>2. ASSUME tenant' = tenant, \A j \in Instances : kbs[j].ours \subseteq kbs'[j].ours,
             \A j \in Instances : ipc[j] \in {"loading", "loaded"} => ipc'[j] \in {"loading", "loaded"}
      PROVE  DefaultOwned'
  BY <1>0, <1>2 DEF DefaultOwned
<1>3. ASSUME NEW u \in Requests, UpdateTenant(u) PROVE DefaultOwned'
  <2>1. CASE Accepts(Home[u], Default[u])
    BY <1>1, <1>3, <2>1 DEF UpdateTenant, Start
  <2>2. CASE ~Accepts(Home[u], Default[u])
    BY <1>2, <1>3, <2>2 DEF UpdateTenant
  <2> QED
    BY <2>1, <2>2
<1>4. ASSUME NEW c \in Requests, CreateKB(c) PROVE DefaultOwned'
  <2>1. CASE Exists(Home[c], Target[c])
    BY <1>2, <1>4, <2>1 DEF CreateKB
  <2>2. CASE ~Exists(Home[c], Target[c])
    <3>1. kbs' = [kbs EXCEPT ![Home[c]] = Put(@, Target[c], c \in OurCreates, TRUE)]
      BY <1>4, <2>2 DEF CreateKB
    <3>2. kbs[Home[c]].ours \subseteq Put(kbs[Home[c]], Target[c], c \in OurCreates, TRUE).ours
      BY <1>0, <1>4, <2>2 DEF Exists, Put, Set, SeedInv, CreateKB
    <3>3. \A j \in Instances : kbs[j].ours \subseteq kbs'[j].ours
      BY <1>0, <3>1, <3>2 DEF TypeOK
    <3> QED
      BY <1>2, <1>4, <3>3 DEF CreateKB
  <2> QED
    BY <2>1, <2>2
<1>5. ASSUME NEW g \in Requests, UpdateKB(g) PROVE DefaultOwned'
  <2>1. CASE Target[g] \notin kbs[Home[g]].known
    BY <1>2, <1>5, <2>1 DEF UpdateKB
  <2>2. CASE Target[g] \in kbs[Home[g]].known
    <3>1. PICK on \in BOOLEAN :
            kbs' = [kbs EXCEPT ![Home[g]] = Put(@, Target[g], Target[g] \in @.ours, on)]
      BY <1>5, <2>2 DEF UpdateKB
    <3>2. \A j \in Instances : kbs[j].ours \subseteq kbs'[j].ours
      BY <1>0, <3>1 DEF Put, Set, TypeOK
    <3> QED
      BY <1>2, <1>5, <3>2 DEF UpdateKB
  <2> QED
    BY <2>1, <2>2
<1>6. ASSUME NEW r \in Requests,
             \/ SaveTenant(r) \/ CreateVersion(r) \/ PublishVersion(r)
             \/ Announce(r) \/ SaveKB(r) \/ Error(r)
      PROVE  DefaultOwned'
  BY <1>2, <1>6 DEF SaveTenant, CreateVersion, PublishVersion, Announce, SaveKB, Error
<1>7. ASSUME NEW i \in Instances, Apply(i) PROVE DefaultOwned'
  <2>1. hread[i].default \in KBs /\ hread[i].plan \in Updates \cup {SeedPlan}
    BY <1>0 DEF TypeOK, Tenant
  <2>2. \A j \in Instances : ipc'[j] \in {"loading", "loaded"} <=> ipc[j] \in {"loading", "loaded"}
    BY <1>0, <1>7 DEF Apply, TypeOK
  <2>3. tenant' = [tenant EXCEPT ![i] = Changed(i, hread[i].default, hread[i].plan)]
    BY <1>7 DEF Apply
  <2> QED
    BY <1>1, <1>7, <2>1, <2>2, <2>3 DEF Apply, Serving
<1>8. ASSUME NEW i \in Instances,
             Receive(i) \/ Ignore(i) \/ WriteBack(i) \/ HandlerError(i) \/ Die(i) \/ Subscribe(i)
      PROVE  DefaultOwned'
  <2>1. tenant' = tenant /\ kbs' = kbs
    BY <1>8 DEF Receive, Ignore, WriteBack, HandlerError, Die, Subscribe
  <2>2. \A j \in Instances : ipc[j] \in {"loading", "loaded"} => ipc'[j] \in {"loading", "loaded"}
    BY <1>0, <1>8 DEF Receive, Ignore, WriteBack, HandlerError, Die, Subscribe, TypeOK
  <2> QED
    BY <1>2, <2>1, <2>2
\* a process that starts: nothing is asked of it before its tenant is loaded
<1>9. ASSUME NEW i \in Instances, LoadKBs(i) PROVE DefaultOwned'
  <2>1. ipc'[i] = "loaded" /\ \A j \in Instances \ {i} : ipc'[j] = ipc[j] /\ kbs'[j] = kbs[j]
    BY <1>0, <1>9 DEF LoadKBs, TypeOK
  <2> QED
    BY <1>0, <1>9, <2>1 DEF LoadKBs, DefaultOwned
<1>10. ASSUME NEW i \in Instances, LoadTenant(i) PROVE DefaultOwned'
  <2>1. PICK t \in Repaired(tenantRow, kbs[i].ours) : tenant' = [tenant EXCEPT ![i] = t]
    BY <1>10 DEF LoadTenant
  <2>2. t.default \in kbs[i].ours
    BY <1>0, <2>1, RepairedEffect DEF TypeOK, Directory
  <2>3. tenant'[i] = t /\ \A j \in Instances \ {i} : tenant'[j] = tenant[j] /\ ipc'[j] = ipc[j]
    BY <1>0, <1>10, <2>1 DEF LoadTenant, TypeOK
  <2> QED
    BY <1>0, <1>10, <2>2, <2>3 DEF LoadTenant, DefaultOwned
<1>11. ASSUME NEW i \in Instances, SeedTenant(i) PROVE DefaultOwned'
  BY <1>0, <1>2, <1>11 DEF SeedTenant, TypeOK
<1>12. ASSUME NEW i \in Instances, SeedKB(i) PROVE DefaultOwned'
  <2>1. \A j \in Instances \ {i} : ipc'[j] = ipc[j]
    BY <1>0, <1>12 DEF SeedKB, TypeOK
  <2>2. ipc[i] = "writing" /\ tenant' = tenant /\ kbs' = kbs
    BY <1>12 DEF SeedKB
  <2> QED
    BY <1>2, <2>1, <2>2
<1> QED
  BY <1>3, <1>4, <1>5, <1>6, <1>7, <1>8, <1>9, <1>10, <1>11, <1>12
     DEF Next, RequestStep, ListenerStep, StartStep

-----------------------------------------------------------------------------

\* In every reachable state the types are correct, the plug-in's default is the
\* tenant's in the table and in every copy, and every process that serves has a
\* default of the tenant's own.
THEOREM Invariance == Spec => []IInv
<1>1. ASSUME IInv, [Next]_vars PROVE IInv'
  <2>1. CASE Next
    BY <1>1, <2>1, TypePreserved, SeedPreserved, DefaultPreserved DEF IInv
  <2>2. CASE UNCHANGED vars
    BY <1>1, <2>2 DEF vars, storeVars, copyVars, requestVars, instanceVars, IInv, TypeOK, SeedInv,
       DefaultOwned
  <2> QED
    BY <1>1, <2>1, <2>2
<1> QED
  BY InitIInv, <1>1, PTL DEF Spec

\* Whatever instances do to the tenant and its knowledge bases at once, whatever
\* fails, dies and starts again, no instance serves a tenant with a default it
\* does not know to be that tenant's (KnowledgeBaseService.seed_defaults,
\* update_tenant, create_knowledge_base).
THEOREM DefaultOwnedHolds == Spec => []DefaultOwned
<1>1. IInv => DefaultOwned
  BY DEF IInv
<1> QED
  BY Invariance, <1>1, PTL

-----------------------------------------------------------------------------
(* The owner of a knowledge base, where one instance creates them all *)

LEMMA WriterPreserved ==
  ASSUME IInv, WriterInv, Next
  PROVE  WriterInv'
<1>0. TypeOK
  BY DEF IInv
<1> USE DirectoryAssumption
    DEF Requests, storeVars, copyVars, requestVars, instanceVars, Goto, Become, Start
\* steps that begin nothing, and take nothing from a copy and no instance from service
<1>1. ASSUME \A r \in Requests : InFlight(r)' => InFlight(r),
             \A r \in Creates \cup Toggles : req'[r] = "changed" => req[r] = "changed",
             \A i \in Instances : (Serving(i) => Serving(i)') /\ kbs[i].known \subseteq kbs'[i].known,
             \A i \in Instances : ipc'[i] = "writing" => ipc[i] = "writing" /\ todo'[i] \subseteq todo[i]
      PROVE  WriterInv'
  <2>1. \A r \in Requests : Home[r] \in Instances
    OBVIOUS
  <2> HIDE DEF Requests
  <2>2. Creates \cup Toggles \subseteq Requests
    BY DEF Requests
  <2> QED
    BY <1>1, <2>1, <2>2 DEF WriterInv
<1>2. ASSUME NEW r \in Requests,
             \/ SaveTenant(r) \/ CreateVersion(r) \/ PublishVersion(r) \/ Announce(r) \/ SaveKB(r) \/ Error(r)
      PROVE  WriterInv'
  <2>1. UNCHANGED <<kbs, ipc, todo>> /\ InFlight(r)
    BY <1>2 DEF InFlight, SaveTenant, CreateVersion, PublishVersion, Announce, SaveKB, Error
  <2>2. req'[r] # "changed" /\ \A s \in Requests \ {r} : req'[s] = req[s]
    BY <1>0, <1>2 DEF SaveTenant, CreateVersion, PublishVersion, Announce, SaveKB, Error, TypeOK
  <2>3. \A s \in Requests : InFlight(s)' => InFlight(s)
    BY <2>1, <2>2 DEF InFlight
  <2> QED
    BY <1>1, <2>1, <2>2, <2>3 DEF Serving
<1>3. ASSUME NEW u \in Requests, UpdateTenant(u) PROVE WriterInv'
  <2>1. /\ UNCHANGED <<kbs, ipc, todo>> /\ Serving(Home[u])
        /\ \A s \in Requests \ {u} : req'[s] = req[s]
    BY <1>0, <1>3 DEF UpdateTenant, TypeOK
  <2>2. u \in Updates
    BY <1>3 DEF UpdateTenant
  <2> QED
    BY <2>1, <2>2 DEF WriterInv, InFlight, Serving
<1>4. ASSUME NEW r \in Requests, CreateKB(r) \/ UpdateKB(r) PROVE WriterInv'
  <2>1. /\ UNCHANGED <<ipc, todo>> /\ Serving(Home[r]) /\ Target[r] \in KBs
        /\ \A s \in Requests \ {r} : req'[s] = req[s]
    BY <1>0, <1>4 DEF CreateKB, UpdateKB, TypeOK
  <2>2. \A i \in Instances : kbs[i].known \subseteq kbs'[i].known
    <3>1. CASE CreateKB(r)
      BY <1>0, <3>1, CreateEffect
    <3>2. CASE UpdateKB(r)
      BY <1>0, <3>2, ToggleEffect
    <3> QED
      BY <1>4, <3>1, <3>2
  <2>3. req'[r] = "changed" => Target[r] \in kbs'[Home[r]].known
    <3>1. CASE CreateKB(r)
      <4>1. req' = [req EXCEPT ![r] = "failed"] \/ Target[r] \in kbs'[Home[r]].known
        BY <1>0, <3>1, CreateEffect
      <4>2. req' = [req EXCEPT ![r] = "failed"] => req'[r] = "failed"
        BY <1>0 DEF TypeOK
      <4> QED
        BY <4>1, <4>2
    <3>2. CASE UpdateKB(r)
      <4>1. req' = [req EXCEPT ![r] = "failed"] \/ Target[r] \in kbs'[Home[r]].known
        BY <1>0, <3>2, ToggleEffect
      <4>2. req' = [req EXCEPT ![r] = "failed"] => req'[r] = "failed"
        BY <1>0 DEF TypeOK
      <4> QED
        BY <4>1, <4>2
    <3> QED
      BY <1>4, <3>1, <3>2
  <2> QED
    BY <2>1, <2>2, <2>3 DEF WriterInv, InFlight, Serving
<1>5. ASSUME NEW i \in Instances, ListenerStep(i) \/ HandlerError(i) \/ LoadTenant(i) \/ Subscribe(i)
      PROVE  WriterInv'
  <2>1. UNCHANGED <<req, kbs, todo>>
    BY <1>5 DEF ListenerStep, Receive, Apply, Ignore, WriteBack, HandlerError, LoadTenant, Subscribe
  <2>2. /\ \A j \in Instances \ {i} : ipc'[j] = ipc[j]
        /\ ipc'[i] # "writing" /\ (Serving(i) => Serving(i)')
    BY <1>0, <1>5 DEF ListenerStep, Receive, Apply, Ignore, WriteBack, HandlerError, LoadTenant, Subscribe,
       Serving, TypeOK
  <2> QED
    BY <1>1, <2>1, <2>2 DEF InFlight, Serving
<1>6. ASSUME NEW i \in Instances, Die(i) PROVE WriterInv'
  <2>1. /\ UNCHANGED <<kbs, todo>> /\ ipc'[i] = "loading" /\ \A j \in Instances \ {i} : ipc'[j] = ipc[j]
        /\ \A r \in Requests : InFlight(r)' => InFlight(r) /\ req'[r] = req[r] /\ Home[r] # i
    BY <1>0, <1>6 DEF Die, InFlight, TypeOK
  <2>2. \A r \in Requests : req'[r] = "changed" => InFlight(r)'
    BY DEF InFlight
  <2> QED
    BY <2>1, <2>2 DEF WriterInv, Serving
<1>7. ASSUME NEW i \in Instances, LoadKBs(i) PROVE WriterInv'
  <2>1. /\ UNCHANGED <<req, todo>> /\ ipc[i] = "loading" /\ ipc'[i] = "loaded"
        /\ \A j \in Instances \ {i} : ipc'[j] = ipc[j] /\ kbs'[j] = kbs[j]
    BY <1>0, <1>7 DEF LoadKBs, TypeOK
  <2>2. \A r \in Requests : InFlight(r) => Home[r] # i
    BY <2>1 DEF WriterInv, Serving
  <2>3. \A r \in Requests : req[r] = "changed" => InFlight(r)
    BY DEF InFlight
  <2> QED
    BY <2>1, <2>2, <2>3 DEF WriterInv, InFlight, Serving
<1>8. ASSUME NEW i \in Instances, SeedTenant(i) PROVE WriterInv'
  <2>1. /\ UNCHANGED <<req, kbs>> /\ ipc[i] = "seeded" /\ ipc'[i] = "writing" /\ todo'[i] = kbs[i].known
        /\ \A j \in Instances \ {i} : ipc'[j] = ipc[j] /\ todo'[j] = todo[j]
    BY <1>0, <1>8 DEF SeedTenant, TypeOK
  <2> QED
    BY <2>1 DEF WriterInv, InFlight, Serving
<1>9. ASSUME NEW i \in Instances, SeedKB(i) PROVE WriterInv'
  <2>1. /\ UNCHANGED <<req, kbs>> /\ ipc[i] = "writing" /\ todo'[i] \subseteq todo[i]
        /\ \A j \in Instances \ {i} : ipc'[j] = ipc[j] /\ todo'[j] = todo[j]
    BY <1>0, <1>9 DEF SeedKB, TypeOK
  <2> QED
    BY <1>1, <2>1 DEF InFlight, Serving
<1> QED
  BY <1>2, <1>3, <1>4, <1>5, <1>6, <1>7, <1>8, <1>9 DEF Next, RequestStep, StartStep

\* One instance serves all requests that create a knowledge base.
OneCreator == \A c, e \in Creates : Home[c] = Home[e]

\* A step either writes a row from a copy that knows it or leaves the rows alone.
LEMMA RowsStep ==
  ASSUME IInv, WriterInv, Next
  PROVE  \/ kbRows' = kbRows
         \/ /\ kbs' = kbs
            /\ \E i \in Instances : \E k \in kbs[i].known : kbRows' = Written(i, k)
<1>0. TypeOK
  BY DEF IInv
<1> USE DirectoryAssumption DEF Requests, storeVars, copyVars
<1>1. ASSUME NEW r \in Requests, SaveKB(r)
      PROVE  kbs' = kbs /\ Home[r] \in Instances /\ Target[r] \in kbs[Home[r]].known
             /\ kbRows' = Written(Home[r], Target[r])
  BY <1>1 DEF SaveKB, WriterInv
<1>2. ASSUME NEW i \in Instances, SeedKB(i)
      PROVE  kbs' = kbs /\ \E k \in kbs[i].known : kbRows' = Written(i, k)
  BY <1>2 DEF SeedKB, WriterInv
<1>3. ASSUME NEW r \in Requests,
             \/ UpdateTenant(r) \/ SaveTenant(r) \/ CreateVersion(r) \/ PublishVersion(r) \/ Announce(r)
             \/ CreateKB(r) \/ UpdateKB(r) \/ Error(r)
      PROVE  kbRows' = kbRows
  BY <1>3 DEF UpdateTenant, SaveTenant, CreateVersion, PublishVersion, Announce, CreateKB, UpdateKB, Error
<1>4. ASSUME NEW i \in Instances,
             \/ ListenerStep(i) \/ HandlerError(i) \/ Die(i) \/ LoadKBs(i) \/ LoadTenant(i)
             \/ SeedTenant(i) \/ Subscribe(i)
      PROVE  kbRows' = kbRows
  BY <1>4 DEF ListenerStep, Receive, Apply, Ignore, WriteBack, HandlerError, Die, LoadKBs, LoadTenant,
     SeedTenant, Subscribe
<1> QED
  BY <1>1, <1>2, <1>3, <1>4 DEF Next, RequestStep, StartStep

\* Writing a row that the table has changes no owner.
LEMMA WrittenOwner ==
  ASSUME TypeOK, OwnerInv, NEW i \in Instances, NEW k \in kbs[i].known
  PROVE  /\ Written(i, k).known = kbRows.known \cup {k}
         /\ \A l \in kbRows.known : l \in Written(i, k).ours <=> l \in kbRows.ours
         /\ k \in Written(i, k).ours <=> k \in kbs[i].ours
<1>1. k \in KBs
  BY DEF TypeOK, Directory
<1>2. /\ Written(i, k).known = kbRows.known \cup {k}
      /\ Written(i, k).ours = IF k \in kbs[i].ours THEN kbRows.ours \cup {k} ELSE kbRows.ours \ {k}
  BY <1>1, WrittenEffect
<1>3. k \in kbRows.known => (k \in kbs[i].ours <=> k \in kbRows.ours)
  BY DEF OwnerInv
<1> QED
  BY <1>2, <1>3

LEMMA OwnerPreserved ==
  ASSUME IInv, WriterInv, OwnerInv, OneCreator, Next
  PROVE  OwnerInv'
<1>0. TypeOK /\ SeedInv
  BY DEF IInv
<1> USE DirectoryAssumption
    DEF Requests, storeVars, copyVars, requestVars, instanceVars, Goto, Become, Start
<1>1. ASSUME NEW i \in Instances, NEW k \in kbs[i].known, kbRows' = Written(i, k), kbs' = kbs
      PROVE  OwnerInv'
  <2>1. /\ kbRows'.known = kbRows.known \cup {k}
        /\ \A l \in kbRows.known : l \in kbRows'.ours <=> l \in kbRows.ours
        /\ k \in kbRows'.ours <=> k \in kbs[i].ours
    BY <1>0, <1>1, WrittenOwner
  <2>2. CASE i \in Creators
    <3>1. \A j \in Creators : j = i
      BY <2>2 DEF Creators, OneCreator
    <3>2. \A j \in Instances : k \in kbs[j].known => j = i \/ k \in kbRows.known
      BY <3>1 DEF OwnerInv
    <3> QED
      BY <1>1, <2>1, <3>1, <3>2 DEF OwnerInv
  <2>3. CASE i \notin Creators
    BY <1>1, <2>1, <2>3 DEF OwnerInv
  <2> QED
    BY <2>2, <2>3
<1>2. ASSUME NEW c \in Requests, CreateKB(c) PROVE OwnerInv'
  <2> DEFINE k == Target[c]  h == Home[c]  e == Put(kbs[h], k, c \in OurCreates, TRUE)
  <2>1. CASE Exists(h, k)
    BY <1>2, <2>1 DEF CreateKB, OwnerInv
  <2>2. CASE ~Exists(h, k)
    <3>1. /\ kbs'[h] = e /\ \A j \in Instances \ {h} : kbs'[j] = kbs[j]
          /\ kbRows' = kbRows /\ h \in Creators /\ h \in Instances
      BY <1>0, <1>2, <2>2 DEF CreateKB, TypeOK, Creators
    <3>2. k \notin kbRows.known
      BY <2>2, <3>1 DEF Exists, OwnerInv
    <3>3. /\ e.known = kbs[h].known \cup {k}
          /\ \A l \in kbs[h].known : l # k => (l \in e.ours <=> l \in kbs[h].ours)
      BY DEF Put, Set
    <3> HIDE DEF e, h, k
    <3>4. \A j \in Creators : kbRows'.known \subseteq kbs'[j].known
      <4>1. \A j \in Creators : j \in Instances
        BY DEF Creators
      <4> QED
        BY <3>1, <3>3, <4>1 DEF OwnerInv
    <3>5. \A j \in Instances : \A l \in kbs'[j].known \cap kbRows'.known : l \in kbs'[j].ours <=> l \in kbRows'.ours
      BY <3>1, <3>2, <3>3 DEF OwnerInv
    <3> QED
      BY <3>1, <3>4, <3>5 DEF OwnerInv
  <2> QED
    BY <2>1, <2>2
<1>3. ASSUME NEW g \in Requests, UpdateKB(g) PROVE OwnerInv'
  <2>1. \A j \in Instances : kbs'[j].known = kbs[j].known /\ kbs'[j].ours = kbs[j].ours
    BY <1>0, <1>3, ToggleEffect
  <2>2. kbRows' = kbRows
    BY <1>3 DEF UpdateKB
  <2>3. \A j \in Creators : j \in Instances
    BY DEF Creators
  <2> QED
    BY <2>1, <2>2, <2>3 DEF OwnerInv
<1>4. ASSUME NEW i \in Instances, LoadKBs(i) PROVE OwnerInv'
  <2>1. /\ kbs'[i].known = kbRows.known /\ kbs'[i].ours = kbRows.ours
        /\ \A j \in Instances \ {i} : kbs'[j] = kbs[j]
        /\ kbRows' = kbRows
    BY <1>0, <1>4 DEF LoadKBs, TypeOK, OwnerInv
  <2>2. \A j \in Creators : j \in Instances
    BY DEF Creators
  <2> QED
    BY <2>1, <2>2 DEF OwnerInv
<1>5. ASSUME UNCHANGED <<kbRows, kbs>> PROVE OwnerInv'
  BY <1>5 DEF OwnerInv
<1>6. ASSUME NEW u \in Requests,
             \/ UpdateTenant(u) \/ SaveTenant(u) \/ CreateVersion(u) \/ PublishVersion(u)
             \/ Announce(u) \/ Error(u)
      PROVE  OwnerInv'
  BY <1>5, <1>6 DEF UpdateTenant, SaveTenant, CreateVersion, PublishVersion, Announce, Error
<1>7. ASSUME NEW i \in Instances,
             \/ ListenerStep(i) \/ HandlerError(i) \/ Die(i)
             \/ LoadTenant(i) \/ SeedTenant(i) \/ Subscribe(i)
      PROVE  OwnerInv'
  BY <1>5, <1>7 DEF ListenerStep, Receive, Apply, Ignore, WriteBack, HandlerError, Die, LoadTenant,
     SeedTenant, Subscribe
<1>8. ASSUME NEW r \in Requests, SaveKB(r) PROVE OwnerInv'
  BY <1>1, <1>8 DEF SaveKB, WriterInv
<1>9. ASSUME NEW i \in Instances, SeedKB(i) PROVE OwnerInv'
  BY <1>1, <1>9 DEF SeedKB, WriterInv
<1> QED
  BY <1>2, <1>3, <1>4, <1>6, <1>7, <1>8, <1>9 DEF Next, RequestStep, StartStep

\* Where one instance serves all creates, no knowledge base in the table ever changes
\* hands, whatever raises, dies and starts again, and however stale the copies of the
\* other instances are (create_knowledge_base, seed_defaults).
THEOREM OwnerKeptHolds == OneCreator => (Spec => OwnerKept)
<1> SUFFICES ASSUME OneCreator PROVE Spec => OwnerKept
  OBVIOUS
<1> DEFINE Inv == IInv /\ WriterInv /\ OwnerInv
<1>1. Init => WriterInv /\ OwnerInv
  BY DirectoryAssumption DEF Init, WriterInv, OwnerInv, InFlight, Requests, Creators
<1>2. ASSUME Inv, [Next]_vars, IInv' PROVE (WriterInv /\ OwnerInv)'
  <2>1. CASE Next
    BY <1>2, <2>1, WriterPreserved, OwnerPreserved
  <2>2. CASE UNCHANGED vars
    BY <1>2, <2>2 DEF vars, storeVars, copyVars, requestVars, instanceVars, WriterInv, OwnerInv, InFlight,
       Serving
  <2> QED
    BY <1>2, <2>1, <2>2
<1>3. ASSUME Inv, [Next]_vars
      PROVE  \A k \in kbRows.known : k \in kbRows.ours <=> k \in kbRows'.ours
  <2>1. CASE Next
    BY <1>3, <2>1, RowsStep, WrittenOwner DEF IInv
  <2>2. CASE UNCHANGED vars
    BY <2>2 DEF vars, storeVars
  <2> QED
    BY <1>3, <2>1, <2>2
<1>4. Spec => []Inv
  BY Invariance, <1>1, <1>2, PTL DEF Spec
<1> QED
  BY <1>3, <1>4, PTL DEF Spec, OwnerKept

-----------------------------------------------------------------------------
(* One administrator on one instance: what every step does *)

LEMMA InitSettle == Init => SettleInv
<1> SUFFICES ASSUME Init PROVE SettleInv
  OBVIOUS
<1>1. IInv
  BY InitIInv
<1> USE DirectoryAssumption DEF Init, Requests
<1>2. TurnInv
  BY DEF TurnInv, InFlight, Subscribed
<1>3. AgreeInv
  BY DEF AgreeInv
<1>4. HomeInv
  BY DEF HomeInv, Made, InFlight
<1>5. ListenInv
  BY DEF ListenInv, Knows
<1>6. RowInv
  BY DEF RowInv
<1> QED
  BY <1>1, <1>2, <1>3, <1>4, <1>5, <1>6 DEF SettleInv

\* A step that begins or goes on with a request.
LEMMA RequestEffect ==
  ASSUME TypeOK, NEW r \in Requests, RequestStep(r)
  PROVE  /\ \/ InFlight(r) /\ alone' = alone
            \/ req[r] = "start" /\ alone' = (alone /\ \A s \in Requests : ~InFlight(s))
         /\ req'[r] # "start" /\ \A s \in Requests \ {r} : req'[s] = req[s]
         /\ UNCHANGED <<ipc, hread, todo, faults>>
<1> USE DEF RequestStep, Goto, instanceVars
<1>1. /\ \/ InFlight(r) /\ alone' = alone
         \/ req[r] = "start" /\ alone' = (alone /\ \A s \in Requests : ~InFlight(s))
      /\ UNCHANGED <<ipc, hread, todo, faults>>
  BY DEF Start, InFlight, UpdateTenant, SaveTenant, CreateVersion, PublishVersion, Announce, CreateKB,
     UpdateKB, SaveKB
<1>2. \E s \in RequestPc \ {"start"} : req' = [req EXCEPT ![r] = s]
  BY DEF RequestPc, UpdateTenant, SaveTenant, CreateVersion, PublishVersion, Announce, CreateKB,
     UpdateKB, SaveKB
<1> QED
  BY <1>1, <1>2 DEF TypeOK

\* Requests never begin twice.
LEMMA BegunStep ==
  ASSUME TypeOK, Next
  PROVE  /\ \A r \in Requests : req[r] # "start" => req'[r] # "start"
         /\ \A i \in Instances : ServesAll(i)' => ServesAll(i)
<1>1. ASSUME NEW r \in Requests, RequestStep(r) PROVE \A s \in Requests : req[s] # "start" => req'[s] # "start"
  BY <1>1, RequestEffect
<1>2. ASSUME NEW r \in Requests, Error(r) PROVE \A s \in Requests : req[s] # "start" => req'[s] # "start"
  BY <1>2 DEF Error, Goto, TypeOK
<1>3. ASSUME NEW i \in Instances, ListenerStep(i) \/ HandlerError(i) \/ StartStep(i) PROVE req' = req
  BY <1>3 DEF ListenerStep, Receive, Apply, Ignore, WriteBack, HandlerError, StartStep, LoadKBs, LoadTenant,
     SeedTenant, SeedKB, Subscribe, requestVars
<1>4. ASSUME NEW i \in Instances, Die(i) PROVE \A s \in Requests : req'[s] \in {req[s], "failed"}
  BY <1>4 DEF Die
<1>5. \A r \in Requests : req[r] # "start" => req'[r] # "start"
  BY <1>1, <1>2, <1>3, <1>4 DEF Next
<1> QED
  BY <1>5 DEF ServesAll

\* While nothing has failed, every step is one of a request or of a listener.
LEMMA UndisturbedStep ==
  ASSUME IInv, TurnInv, Next, Undisturbed'
  PROVE  /\ Undisturbed
         /\ \/ \E r \in Requests : RequestStep(r)
            \/ \E i \in Instances : ListenerStep(i)
<1>0. /\ TypeOK /\ faults = [error |-> faults.error, death |-> faults.death]
      /\ faults.error \in Nat /\ faults.death \in Nat
  <2>1. faults \in [error : 0..Errors, death : 0..Deaths] /\ TypeOK
    BY DEF IInv, TypeOK
  <2> QED
    BY <2>1, DirectoryAssumption
<1>1. ASSUME Fault PROVE FALSE
  BY <1>0, <1>1 DEF Fault, Undisturbed
<1>2. ASSUME NEW i \in Instances, Die(i) PROVE FALSE
  BY <1>0, <1>2 DEF Die, Undisturbed
<1>3. CASE \E r \in Requests : RequestStep(r)
  <2>1. PICK r \in Requests : RequestStep(r)
    BY <1>3
  <2>2. faults' = faults /\ (alone' => alone)
    BY <1>0, <2>1, RequestEffect
  <2> QED
    BY <1>3, <2>2 DEF Undisturbed
<1>4. CASE \E i \in Instances : ListenerStep(i)
  BY <1>4 DEF ListenerStep, Receive, Apply, Ignore, WriteBack, requestVars, Undisturbed
<1>5. CASE \E i \in Instances : StartStep(i)
  <2>1. PICK i \in Instances : StartStep(i)
    BY <1>5
  <2>2. UNCHANGED <<alone, faults>> /\ ~Subscribed(i)
    BY <2>1 DEF StartStep, LoadKBs, LoadTenant, SeedTenant, SeedKB, Subscribe, requestVars, Subscribed
  <2> QED
    BY <2>2 DEF Undisturbed, TurnInv
<1>6. ~\E r \in Requests : Error(r)
  BY <1>1 DEF Error
<1>7. ~\E i \in Instances : HandlerError(i)
  BY <1>1 DEF HandlerError
<1> QED
  BY <1>2, <1>3, <1>4, <1>5, <1>6, <1>7 DEF Next

\* Then the request that takes a step is the only one under way.
LEMMA OnlyOne ==
  ASSUME TypeOK, TurnInv, alone', NEW r \in Requests, RequestStep(r)
  PROVE  \A s \in Requests \ {r} : ~InFlight(s)
BY RequestEffect DEF TurnInv

LEMMA TurnPreserved ==
  ASSUME IInv, TurnInv, Next
  PROVE  TurnInv'
<1>0. TypeOK
  BY DEF IInv
<1>1. alone' => \A q, r \in Requests : InFlight(q)' /\ InFlight(r)' => q = r
  <2>1. ASSUME NEW r \in Requests, RequestStep(r), alone'
        PROVE  \A s \in Requests \ {r} : ~InFlight(s)'
    BY <1>0, <2>1, OnlyOne, RequestEffect DEF InFlight
  <2>2. ASSUME NEW r \in Requests, Error(r) PROVE alone' = alone /\ \A s \in Requests : InFlight(s)' => InFlight(s)
    BY <1>0, <2>2 DEF Error, Goto, InFlight, TypeOK
  <2>3. ASSUME NEW i \in Instances, ListenerStep(i) \/ HandlerError(i) \/ StartStep(i)
        PROVE  alone' = alone /\ req' = req
    BY <2>3 DEF ListenerStep, Receive, Apply, Ignore, WriteBack, HandlerError, StartStep, LoadKBs, LoadTenant,
       SeedTenant, SeedKB, Subscribe, requestVars
  <2>4. ASSUME NEW i \in Instances, Die(i)
        PROVE  alone' = alone /\ \A s \in Requests : InFlight(s)' => InFlight(s)
    BY <2>4 DEF Die, InFlight
  <2> QED
    BY <2>1, <2>2, <2>3, <2>4 DEF Next, TurnInv, InFlight
<1>2. Undisturbed' => \A i \in Instances : Subscribed(i)'
  <2> SUFFICES ASSUME Undisturbed' PROVE \A i \in Instances : Subscribed(i)'
    OBVIOUS
  <2>1. \A i \in Instances : Subscribed(i)
    BY UndisturbedStep DEF TurnInv
  <2>2. ASSUME NEW r \in Requests, RequestStep(r) PROVE ipc' = ipc
    BY <1>0, <2>2, RequestEffect
  <2>3. ASSUME NEW i \in Instances, ListenerStep(i)
        PROVE  \E s \in {"idle", "read", "changed"} : ipc' = [ipc EXCEPT ![i] = s]
    BY <2>3 DEF ListenerStep, Receive, Apply, Ignore, WriteBack, Become
  <2> QED
    BY <1>0, <2>1, <2>2, <2>3, UndisturbedStep DEF Subscribed, TypeOK
<1>3. published' # NoKB => \E u \in Updates : req'[u] # "start"
  <2>1. CASE \E u \in Requests : PublishVersion(u)
    BY <1>0, <2>1, BegunStep DEF PublishVersion
  <2>2. CASE published' = published
    BY <1>0, <2>2, BegunStep DEF TurnInv, Requests
  <2>3. published' = published \/ \E u \in Requests : PublishVersion(u)
    BY DEF Next, RequestStep, ListenerStep, StartStep, UpdateTenant, SaveTenant, CreateVersion, Announce,
       CreateKB, UpdateKB, SaveKB, Error, Receive, Apply, Ignore, WriteBack, HandlerError, Die, LoadKBs,
       LoadTenant, SeedTenant, SeedKB, Subscribe, storeVars
  <2> QED
    BY <2>1, <2>2, <2>3
<1> QED
  BY <1>1, <1>2, <1>3 DEF TurnInv

\* For the instance that serves all requests, a step is one of the only request
\* under way, which is its own, or one of a listener.
LEMMA ServingStep ==
  ASSUME IInv, TurnInv, Next, Undisturbed', NEW h \in Instances, ServesAll(h)'
  PROVE  /\ Undisturbed /\ ServesAll(h)
         /\ \/ \E r \in Requests :
                 /\ RequestStep(r) /\ Home[r] = h
                 /\ \A s \in Requests \ {r} : ~InFlight(s) /\ ~InFlight(s)' /\ req'[s] = req[s]
            \/ \E i \in Instances : ListenerStep(i)
<1>0. TypeOK
  BY DEF IInv
<1>1. ASSUME NEW r \in Requests, RequestStep(r)
      PROVE  /\ Home[r] = h
             /\ \A s \in Requests \ {r} : ~InFlight(s) /\ ~InFlight(s)' /\ req'[s] = req[s]
  <2>1. req'[r] # "start" /\ \A s \in Requests \ {r} : req'[s] = req[s]
    BY <1>0, <1>1, RequestEffect
  <2>2. \A s \in Requests \ {r} : ~InFlight(s)
    BY <1>0, <1>1, OnlyOne DEF Undisturbed
  <2> QED
    BY <2>1, <2>2 DEF ServesAll, InFlight
<1> QED
  BY <1>0, <1>1, UndisturbedStep, BegunStep

-----------------------------------------------------------------------------
(* The knowledge bases of the instance that serves all requests *)

LEMMA AgreePreserved ==
  ASSUME IInv, TurnInv, AgreeInv, Next
  PROVE  AgreeInv'
<1> DEFINE Agrees(h) ==
      /\ (\A r \in Creates \cup Toggles : req[r] # "changed") => kbs[h] = kbRows
      /\ \A r \in Creates \cup Toggles : req[r] = "changed" => kbs[h] = Written(h, Target[r])
<1> SUFFICES ASSUME Undisturbed', NEW h \in Instances, ServesAll(h)' PROVE Agrees(h)'
  BY DEF AgreeInv
<1>0. TypeOK /\ Agrees(h)
  BY ServingStep DEF IInv, AgreeInv
<1> USE DirectoryAssumption DEF Goto, storeVars, copyVars, requestVars
<1>1. ASSUME UNCHANGED <<kbs, kbRows>>, \A r \in Creates \cup Toggles : req'[r] = req[r] PROVE Agrees(h)'
  BY <1>0, <1>1 DEF Written
<1>2. ASSUME NEW i \in Instances, ListenerStep(i) PROVE Agrees(h)'
  BY <1>1, <1>2 DEF ListenerStep, Receive, Apply, Ignore, WriteBack
<1>3. ASSUME NEW r \in Requests, RequestStep(r), Home[r] = h,
             \A s \in Requests \ {r} : ~InFlight(s) /\ ~InFlight(s)' /\ req'[s] = req[s]
      PROVE  Agrees(h)'
  <2>0. Creates \cup Toggles \subseteq Requests
    BY DEF Requests
  <2>1. CASE UpdateTenant(r) \/ SaveTenant(r) \/ CreateVersion(r) \/ PublishVersion(r) \/ Announce(r)
    <3>1. r \in Updates /\ UNCHANGED <<kbs, kbRows>>
      BY <2>1 DEF UpdateTenant, SaveTenant, CreateVersion, PublishVersion, Announce
    <3> QED
      BY <1>1, <1>3, <2>0, <3>1
  \* before a change nothing is under way
  <2>2. ASSUME req[r] = "start" PROVE kbs[h] = kbRows
    BY <1>0, <1>3, <2>0, <2>2 DEF InFlight
  \* what will be written is the copy, once it has been changed
  <2> DEFINE Sets(S) == {S \cup {Target[r]}, S \ {Target[r]}}
  <2>3. ASSUME r \in Creates \cup Toggles, req[r] = "start", req' = [req EXCEPT ![r] = "changed"],
               kbRows' = kbRows, NEW O \in Sets(kbs[h].ours), NEW E \in Sets(kbs[h].enabled),
               kbs'[h] = [known |-> kbs[h].known \cup {Target[r]}, ours |-> O, enabled |-> E]
        PROVE  Agrees(h)'
    <3>1. req'[r] = "changed"
      BY <1>0, <1>3, <2>3 DEF TypeOK
    <3>2. \A s \in Creates \cup Toggles : req'[s] = "changed" => s = r
      BY <1>3, <2>0 DEF InFlight
    <3>3. O \in Sets(kbRows.ours) /\ E \in Sets(kbRows.enabled)
      BY <2>2, <2>3
    <3>4. /\ O = Set(kbRows.ours, Target[r], Target[r] \in O)
          /\ E = Set(kbRows.enabled, Target[r], Target[r] \in E)
      BY <3>3 DEF Set
    <3>5. kbs'[h] = [known |-> kbRows.known \cup {Target[r]}, ours |-> O, enabled |-> E]
      BY <2>2, <2>3
    <3>6. Written(h, Target[r])' = [known   |-> kbRows.known \cup {Target[r]},
                                    ours    |-> Set(kbRows.ours, Target[r], Target[r] \in kbs'[h].ours),
                                    enabled |-> Set(kbRows.enabled, Target[r], Target[r] \in kbs'[h].enabled)]
      BY <2>3, Zenon DEF Written, Put
    <3>7. kbs'[h].ours = O /\ kbs'[h].enabled = E
      BY <3>5
    <3>8. Written(h, Target[r])' = kbs'[h]
      BY <3>4, <3>5, <3>6, <3>7 DEF Set
    <3> QED
      BY <2>3, <3>1, <3>2, <3>8
  <2>4. ASSUME r \in Creates \cup Toggles, req[r] = "start", kbs' = kbs, kbRows' = kbRows, req'[r] = "failed"
        PROVE  Agrees(h)'
    <3>1. kbs[h] = kbRows
      BY <2>2, <2>4
    <3>2. \A s \in Creates \cup Toggles : req'[s] # "changed"
      BY <1>3, <2>0, <2>4 DEF InFlight
    <3> QED
      BY <2>4, <3>1, <3>2
  <2>5. CASE CreateKB(r)
    <3>1. /\ r \in Creates \cup Toggles /\ req[r] = "start" /\ kbRows' = kbRows
      BY <2>5 DEF CreateKB, Start
    <3>2. CASE req' = [req EXCEPT ![r] = "failed"] /\ kbs' = kbs
      BY <1>0, <2>4, <3>1, <3>2 DEF TypeOK
    <3>3. CASE req' = [req EXCEPT ![r] = "changed"] /\ kbs'[h] = Put(kbs[h], Target[r], r \in OurCreates, TRUE)
      BY <2>3, <3>1, <3>3 DEF Put, Set
    <3> QED
      BY <1>0, <1>3, <2>5, <3>2, <3>3, CreateEffect
  <2>6. CASE UpdateKB(r)
    <3>1. /\ r \in Creates \cup Toggles /\ req[r] = "start" /\ kbRows' = kbRows
      BY <2>6 DEF UpdateKB, Start
    <3>2. CASE Target[r] \notin kbs[h].known
      BY <1>0, <1>3, <2>4, <2>6, <3>1, <3>2 DEF UpdateKB, TypeOK
    <3>3. CASE Target[r] \in kbs[h].known
      <4>1. PICK on \in BOOLEAN :
              kbs' = [kbs EXCEPT ![h] = Put(@, Target[r], Target[r] \in @.ours, on)]
        BY <1>3, <2>6, <3>3 DEF UpdateKB
      <4>2. kbs'[h] = Put(kbs[h], Target[r], Target[r] \in kbs[h].ours, on)
        BY <1>0, <4>1 DEF TypeOK
      <4>3. req' = [req EXCEPT ![r] = "changed"]
        BY <1>3, <2>6, <3>3 DEF UpdateKB
      <4> QED
        BY <2>3, <3>1, <4>2, <4>3 DEF Put, Set
    <3> QED
      BY <3>2, <3>3
  <2>7. CASE SaveKB(r)
    <3>1. /\ r \in Creates \cup Toggles /\ req[r] = "changed" /\ req'[r] = "done"
          /\ kbRows' = Written(h, Target[r]) /\ kbs' = kbs
      BY <1>0, <1>3, <2>7 DEF SaveKB, TypeOK
    <3>2. \A s \in Creates \cup Toggles : req'[s] # "changed"
      BY <1>3, <2>0, <3>1 DEF InFlight
    <3> QED
      BY <1>0, <3>1, <3>2
  <2> QED
    BY <1>3, <2>1, <2>5, <2>6, <2>7 DEF RequestStep
<1> QED
  BY <1>2, <1>3, ServingStep

-----------------------------------------------------------------------------
(* The tenant of the instance that serves all requests *)

\* Its listener has nothing to do.
LEMMA ListenerElsewhere ==
  ASSUME TypeOK, HomeInv, Undisturbed, NEW h \in Instances, ServesAll(h), NEW i \in Instances, ListenerStep(i)
  PROVE  /\ i # h
         /\ UNCHANGED <<published, kbs, kbRows, req, sent>>
         /\ UNCHANGED <<inbox[h], ipc[h], tenant[h]>>
<1>1. ipc[h] = "idle" /\ inbox[h] = 0
  BY DEF HomeInv
<1>2. i # h
  BY <1>1 DEF ListenerStep, Receive, Apply, Ignore, WriteBack
<1>3. UNCHANGED <<published, kbs, kbRows, req, sent>>
  BY DEF ListenerStep, Receive, Apply, Ignore, WriteBack, storeVars, copyVars, requestVars
<1>4. CASE Receive(i)
  BY <1>2, <1>3, <1>4 DEF Receive, Become, copyVars, TypeOK
<1>5. CASE Apply(i)
  BY <1>2, <1>3, <1>5 DEF Apply, Become, TypeOK
<1>6. CASE Ignore(i) \/ WriteBack(i)
  BY <1>2, <1>3, <1>6 DEF Ignore, WriteBack, Become, copyVars, TypeOK
<1> QED
  BY <1>2, <1>3, <1>4, <1>5, <1>6 DEF ListenerStep

\* An update is refused, or changes the copy of its instance to what it will write.
LEMMA UpdateEffect ==
  ASSUME TypeOK, NEW u \in Requests, UpdateTenant(u)
  PROVE  /\ u \in Updates /\ req[u] = "start" /\ \A v \in Requests \ {u} : req'[v] = req[v]
         /\ UNCHANGED <<tenantRow, kbRows, published, kbs>> /\ UNCHANGED instanceVars
         /\ \A j \in Instances \ {Home[u]} : tenant'[j] = tenant[j]
         /\ \/ req'[u] = "failed" /\ UNCHANGED <<tenant, sent>>
            \/ /\ req'[u] = "changed"
               /\ sent'[u] = tenant'[Home[u]] /\ \A v \in Updates \ {u} : sent'[v] = sent[v]
               /\ tenant'[Home[u]].default =
                    IF Default[u] = NoKB THEN tenant[Home[u]].default ELSE Default[u]
               /\ tenant'[Home[u]].plan = IF u \in Renames THEN u ELSE tenant[Home[u]].plan
<1> DEFINE t == Changed(Home[u], Default[u], IF u \in Renames THEN u ELSE NoKB)
<1>1. /\ u \in Updates /\ req[u] = "start" /\ UNCHANGED <<tenantRow, kbRows, published, kbs>>
      /\ UNCHANGED instanceVars
  BY DEF UpdateTenant, Start, storeVars
<1>2. CASE Accepts(Home[u], Default[u])
  <2>1. /\ tenant' = [tenant EXCEPT ![Home[u]] = t] /\ sent' = [sent EXCEPT ![u] = t]
        /\ req' = [req EXCEPT ![u] = "changed"]
    BY <1>2 DEF UpdateTenant, Goto
  <2>2. /\ t.default = IF Default[u] = NoKB THEN tenant[Home[u]].default ELSE Default[u]
        /\ t.plan = IF u \in Renames THEN u ELSE tenant[Home[u]].plan
    BY <1>1, DirectoryAssumption DEF Changed
  <2> HIDE DEF t
  <2>3. Home[u] \in Instances
    BY DirectoryAssumption
  <2>4. req'[u] = "changed" /\ \A v \in Requests \ {u} : req'[v] = req[v]
    BY <2>1 DEF TypeOK
  <2> QED
    BY <1>1, <2>1, <2>2, <2>3, <2>4 DEF TypeOK
<1>3. CASE ~Accepts(Home[u], Default[u])
  BY <1>1, <1>3 DEF UpdateTenant, Goto, TypeOK
<1> QED
  BY <1>2, <1>3

LEMMA HomePreserved ==
  ASSUME IInv, TurnInv, HomeInv, Next
  PROVE  HomeInv'
<1> DEFINE Idle(h) == ipc[h] = "idle" /\ inbox[h] = 0
           Rests(h) == NoUpdate /\ published # NoKB => tenant[h] = published
           Works(h) == \A u \in Updates : InFlight(u) =>
                          /\ sent[u] = tenant[h]
                          /\ req[u] = "published" => published = tenant[h]
           Last(h) == \A u \in Made :
                         /\ u \in Renames /\ Made \cap Renames = {u} => tenant[h].plan = u
                         /\ Default[u] # NoKB /\ (\A v \in Made \ {u} : Default[v] = NoKB)
                              => tenant[h].default = Default[u]
<1> SUFFICES ASSUME Undisturbed', NEW h \in Instances, ServesAll(h)'
             PROVE  (Idle(h) /\ Rests(h) /\ Works(h) /\ Last(h))'
  BY DEF HomeInv
<1>0. TypeOK /\ Undisturbed /\ ServesAll(h) /\ Idle(h) /\ Rests(h) /\ Works(h) /\ Last(h)
  BY ServingStep DEF IInv, HomeInv
<1>a. Updates \subseteq Requests
  BY DEF Requests
<1> USE DEF storeVars, copyVars, requestVars, instanceVars, Goto
<1>1. ASSUME NEW i \in Instances, ListenerStep(i) PROVE (Idle(h) /\ Rests(h) /\ Works(h) /\ Last(h))'
  <2>1. UNCHANGED <<published, req, sent, inbox[h], ipc[h], tenant[h]>>
    BY <1>0, <1>1, ListenerElsewhere
  <2>2. Made' = Made /\ NoUpdate' = NoUpdate
    BY <2>1 DEF Made, NoUpdate, InFlight
  <2> QED
    BY <1>0, <2>1, <2>2 DEF InFlight
<1>2. ASSUME NEW r \in Requests, RequestStep(r), Home[r] = h,
             \A s \in Requests \ {r} : ~InFlight(s) /\ ~InFlight(s)' /\ req'[s] = req[s]
      PROVE  (Idle(h) /\ Rests(h) /\ Works(h) /\ Last(h))'
  \* a step that leaves the copy alone, and makes no update of what was none
  <2>1. ASSUME tenant' = tenant, {u \in Updates : req'[u] \notin {"start", "failed"}} = Made PROVE Last(h)'
    <3>1. Made' = Made
      BY <2>1 DEF Made
    <3> QED
      BY <1>0, <2>1, <3>1
  <2>2. CASE UpdateTenant(r)
    <3>1. /\ r \in Updates /\ req[r] = "start" /\ UNCHANGED <<published, inbox, ipc>>
      BY <1>0, <2>2, UpdateEffect
    <3>2. NoUpdate
      BY <1>2, <1>a, <3>1 DEF NoUpdate, InFlight
    <3>3. CASE req'[r] = "failed" /\ UNCHANGED <<tenant, sent>>
      <4>1. {u \in Updates : req'[u] \notin {"start", "failed"}} = Made
        BY <1>2, <1>a, <3>1, <3>3 DEF Made
      <4>2. \A u \in Updates : ~InFlight(u)'
        BY <1>2, <1>a, <3>3 DEF InFlight
      <4> QED
        BY <1>0, <2>1, <3>1, <3>2, <3>3, <4>1, <4>2
    <3>4. CASE /\ req'[r] = "changed"
               /\ sent'[r] = tenant'[h]
               /\ tenant'[h].default = IF Default[r] = NoKB THEN tenant[h].default ELSE Default[r]
               /\ tenant'[h].plan = IF r \in Renames THEN r ELSE tenant[h].plan
      <4>1. Made' = Made \cup {r} /\ r \notin Made
        BY <1>2, <1>a, <3>1, <3>4 DEF Made
      <4>2. ~NoUpdate'
        BY <3>1, <3>4 DEF NoUpdate, InFlight
      <4>3. Works(h)'
        BY <1>2, <1>a, <3>4
      <4>4. Last(h)'
        BY <1>0, <3>4, <4>1
      <4> QED
        BY <1>0, <3>1, <4>2, <4>3, <4>4
    <3> QED
      BY <1>0, <1>2, <2>2, <3>3, <3>4, UpdateEffect
  \* the update goes on
  <2>3. ASSUME r \in Updates, InFlight(r), UNCHANGED <<tenant, ipc>>, inbox'[h] = 0,
               req'[r] \in {"saved", "created", "published", "done"}
        PROVE  Idle(h)' /\ Last(h)'
    <3>1. {u \in Updates : req'[u] \notin {"start", "failed"}} = Made
      BY <1>2, <1>a, <2>3 DEF Made, InFlight
    <3> QED
      BY <1>0, <2>1, <2>3, <3>1
  <2>4. ASSUME r \in Updates, InFlight(r)' PROVE ~NoUpdate'
    BY <2>4 DEF NoUpdate
  <2>5. CASE SaveTenant(r)
    <3>1. /\ r \in Updates /\ InFlight(r) /\ UNCHANGED <<tenant, ipc, inbox, sent>> /\ req'[r] = "saved"
      BY <1>0, <2>5 DEF SaveTenant, InFlight, TypeOK
    <3> QED
      BY <1>0, <1>2, <1>a, <2>3, <2>4, <3>1 DEF InFlight
  <2>6. CASE CreateVersion(r)
    <3>1. /\ r \in Updates /\ InFlight(r) /\ UNCHANGED <<tenant, ipc, inbox>> /\ req'[r] = "created"
          /\ sent'[r] = tenant[h]
      BY <1>0, <1>2, <2>6 DEF CreateVersion, Result, InFlight, TypeOK
    <3> QED
      BY <1>0, <1>2, <1>a, <2>3, <2>4, <3>1 DEF InFlight
  <2>7. CASE PublishVersion(r)
    <3>1. /\ r \in Updates /\ InFlight(r) /\ UNCHANGED <<tenant, ipc, inbox, sent>> /\ req'[r] = "published"
          /\ published' = sent[r]
      BY <1>0, <2>7 DEF PublishVersion, InFlight, TypeOK
    <3> QED
      BY <1>0, <1>2, <1>a, <2>3, <2>4, <3>1 DEF InFlight
  <2>8. CASE Announce(r)
    <3>1. /\ r \in Updates /\ InFlight(r) /\ UNCHANGED <<tenant, ipc, published>> /\ req'[r] = "done"
          /\ inbox'[h] = inbox[h] /\ req[r] = "published"
      BY <1>0, <1>2, <2>8 DEF Announce, InFlight, TypeOK
    <3>2. \A u \in Updates : ~InFlight(u)'
      BY <1>2, <1>a, <3>1 DEF InFlight
    <3> QED
      BY <1>0, <2>3, <3>1, <3>2
  \* knowledge bases
  <2>9. CASE CreateKB(r) \/ UpdateKB(r) \/ SaveKB(r)
    <3>1. /\ UNCHANGED <<tenant, sent, published, ipc, inbox>> /\ r \notin Updates
      BY <2>9, DirectoryAssumption DEF CreateKB, UpdateKB, SaveKB
    <3>2. \A u \in Updates : req'[u] = req[u]
      BY <1>2, <1>a, <3>1
    <3>3. {u \in Updates : req'[u] \notin {"start", "failed"}} = Made /\ NoUpdate' = NoUpdate
      BY <3>2 DEF Made, NoUpdate, InFlight
    <3> QED
      BY <1>0, <2>1, <3>1, <3>2, <3>3 DEF InFlight
  <2> QED
    BY <1>2, <2>2, <2>5, <2>6, <2>7, <2>8, <2>9 DEF RequestStep
<1> QED
  BY <1>1, <1>2, ServingStep

-----------------------------------------------------------------------------
(* The listeners of all other instances *)

\* A request changes the copies of its own instance only.
LEMMA HomeOnly ==
  ASSUME TypeOK, NEW r \in Requests, RequestStep(r), NEW i \in Instances \ {Home[r]}
  PROVE  tenant'[i] = tenant[i] /\ kbs'[i] = kbs[i]
<1> USE DEF copyVars
<1>1. CASE UpdateTenant(r)
  BY <1>1, UpdateEffect
<1>2. CASE CreateKB(r)
  <2>1. tenant' = tenant
    BY <1>2 DEF CreateKB
  <2> QED
    BY <1>2, <2>1, CreateEffect
<1>3. CASE UpdateKB(r)
  <2>1. tenant' = tenant
    BY <1>3 DEF UpdateKB
  <2> QED
    BY <1>3, <2>1, ToggleEffect
<1>4. CASE SaveTenant(r) \/ CreateVersion(r) \/ PublishVersion(r) \/ Announce(r) \/ SaveKB(r)
  BY <1>4 DEF SaveTenant, CreateVersion, PublishVersion, Announce, SaveKB
<1> QED
  BY <1>1, <1>2, <1>3, <1>4 DEF RequestStep

\* A listener that applies a complete tenant makes its copy that tenant.
LEMMA ApplyEffect ==
  ASSUME TypeOK, NEW i \in Instances, Apply(i)
  PROVE  /\ ipc[i] = "read" /\ ipc'[i] = "changed" /\ \A j \in Instances \ {i} : ipc'[j] = ipc[j]
         /\ hread'[i] = hread[i] /\ \A j \in Instances \ {i} : hread'[j] = hread[j]
         /\ tenant'[i] = hread[i] /\ \A j \in Instances \ {i} : tenant'[j] = tenant[j]
         /\ UNCHANGED <<tenantRow, published, kbs, req, inbox>>
<1> DEFINE t == Changed(i, hread[i].default, hread[i].plan)
<1>1. hread[i] \in Tenant /\ hread[i] = [default |-> hread[i].default, plan |-> hread[i].plan]
  BY DEF TypeOK, Tenant
<1>2. hread[i].default # NoKB /\ hread[i].plan # NoKB
  BY <1>1, DirectoryAssumption DEF Tenant
<1>3. t = hread[i]
  BY <1>1, <1>2 DEF Changed
<1>4. /\ tenant' = [tenant EXCEPT ![i] = t] /\ hread' = [hread EXCEPT ![i] = t]
      /\ ipc[i] = "read" /\ ipc' = [ipc EXCEPT ![i] = "changed"]
      /\ UNCHANGED <<tenantRow, published, kbs, req, inbox>>
  BY DEF Apply, Become, storeVars, requestVars
<1> HIDE DEF t
<1> QED
  BY <1>3, <1>4 DEF TypeOK

LEMMA ListenPreserved ==
  ASSUME IInv, TurnInv, HomeInv, ListenInv, Next
  PROVE  ListenInv'
<1> DEFINE Told(i) == /\ ipc[i] = "changed" => hread[i] = tenant[i]
                      /\ Knows(i) => Owed(i) \/ (ipc[i] # "read" /\ tenant[i] = published)
<1> SUFFICES ASSUME Undisturbed', NEW h \in Instances, ServesAll(h)', NEW i \in Instances, i # h
             PROVE  Told(i)'
  BY DEF ListenInv
<1>0. TypeOK /\ Undisturbed /\ ServesAll(h) /\ Told(i) /\ Subscribed(i) /\ inbox[i] \in Nat
  BY ServingStep DEF IInv, ListenInv, TurnInv, TypeOK
<1>a. Updates \subseteq Requests
  BY DEF Requests
<1> USE DEF storeVars, copyVars, requestVars, instanceVars, Goto, Become
\* a step that does not concern this instance
<1>1. ASSUME UNCHANGED <<published, kbs[i], tenant[i], ipc[i], hread[i], inbox[i]>>,
             (\E u \in Updates : req[u] = "published") => \E u \in Updates : req'[u] = "published"
      PROVE  Told(i)'
  BY <1>0, <1>1 DEF Knows, Owed
<1>2. ASSUME NEW r \in Requests, RequestStep(r), Home[r] = h,
             \A s \in Requests \ {r} : ~InFlight(s) /\ ~InFlight(s)' /\ req'[s] = req[s]
      PROVE  Told(i)'
  <2>1. UNCHANGED <<kbs[i], tenant[i], ipc[i], hread[i]>>
    BY <1>0, <1>2, HomeOnly, RequestEffect
  <2>2. \A u \in Updates : req[u] = "published" => u = r
    BY <1>2, <1>a DEF InFlight
  <2>3. CASE PublishVersion(r)
    <3>1. r \in Updates /\ req'[r] = "published"
      BY <1>0, <2>3 DEF PublishVersion, TypeOK
    <3> QED
      BY <1>0, <2>1, <3>1 DEF Owed
  <2>4. CASE Announce(r)
    <3>1. inbox'[i] = inbox[i] + 1
      BY <1>0, <1>2, <2>4 DEF Announce
    <3>2. inbox'[i] > 0
      BY <1>0, <3>1
    <3> QED
      BY <1>0, <2>1, <3>2 DEF Owed
  <2>5. CASE \/ UpdateTenant(r) \/ SaveTenant(r) \/ CreateVersion(r)
             \/ CreateKB(r) \/ UpdateKB(r) \/ SaveKB(r)
    <3>1. UNCHANGED <<published, inbox>> /\ req[r] # "published"
      BY <2>5 DEF UpdateTenant, Start, SaveTenant, CreateVersion, CreateKB, UpdateKB, SaveKB
    <3> QED
      BY <1>1, <2>1, <2>2, <3>1
  <2> QED
    BY <1>2, <2>3, <2>4, <2>5 DEF RequestStep
\* a listener
<1>3. ASSUME NEW j \in Instances, ListenerStep(j) PROVE Told(i)'
  <2>1. UNCHANGED <<published, kbs, req>>
    BY <1>3 DEF ListenerStep, Receive, Apply, Ignore, WriteBack
  <2>2. CASE j # i
    <3>1. UNCHANGED <<tenant[i], ipc[i], hread[i], inbox[i]>>
      <4>1. CASE Receive(j)
        BY <1>0, <2>2, <4>1 DEF Receive, TypeOK
      <4>2. CASE Apply(j)
        BY <1>0, <2>2, <4>2, ApplyEffect
      <4>3. CASE Ignore(j) \/ WriteBack(j)
        BY <1>0, <2>2, <4>3 DEF Ignore, WriteBack, TypeOK
      <4> QED
        BY <1>3, <4>1, <4>2, <4>3 DEF ListenerStep
    <3> QED
      BY <1>1, <2>1, <3>1
  <2>3. CASE Receive(i)
    <3>1. ipc'[i] = "read" /\ hread'[i] = published
      BY <1>0, <2>3 DEF Receive, TypeOK
    <3> QED
      BY <2>1, <3>1 DEF Owed
  <2>4. CASE Apply(i)
    <3>1. /\ ipc[i] = "read" /\ ipc'[i] = "changed" /\ hread'[i] = hread[i] /\ tenant'[i] = hread[i]
          /\ UNCHANGED inbox
      BY <1>0, <2>4, ApplyEffect
    <3> QED
      BY <1>0, <2>1, <3>1 DEF Knows, Owed
  <2>5. CASE Ignore(i)
    <3>1. /\ ipc[i] = "read" /\ ipc'[i] = "idle" /\ hread[i].default \notin kbs[i].ours
          /\ UNCHANGED inbox
      BY <1>0, <2>5 DEF Ignore, Accepts, TypeOK
    <3> QED
      BY <1>0, <2>1, <3>1 DEF Knows, Owed
  <2>6. CASE WriteBack(i)
    <3>1. ipc[i] = "changed" /\ ipc'[i] = "idle" /\ UNCHANGED <<inbox, tenant>>
      BY <1>0, <2>6 DEF WriteBack, TypeOK
    <3> QED
      BY <1>0, <2>1, <3>1 DEF Knows, Owed
  <2> QED
    BY <1>3, <2>2, <2>3, <2>4, <2>5, <2>6 DEF ListenerStep
<1> QED
  BY <1>2, <1>3, ServingStep

-----------------------------------------------------------------------------
(* The row of the tenant *)

LEMMA RowPreserved ==
  ASSUME IInv, TurnInv, HomeInv, ListenInv, RowInv, Next
  PROVE  RowInv'
<1> DEFINE Ours(h) == \A u \in Updates : req[u] \in {"saved", "created", "published"} =>
                        tenantRow = tenant[h] \/ Instances # {h}
           Mends(i) == inbox[i] > 0 \/ (ipc[i] \in {"read", "changed"} /\ hread[i] = published)
           Row(h) == NoUpdate /\ published # NoKB /\ (\A i \in Instances \ {h} : Knows(i)) =>
                       tenantRow = published \/ \E i \in Instances \ {h} : Mends(i)
<1> SUFFICES ASSUME Undisturbed', NEW h \in Instances, ServesAll(h)' PROVE Ours(h)' /\ Row(h)'
  BY DEF RowInv
<1>0. TypeOK /\ Undisturbed /\ ServesAll(h) /\ Ours(h) /\ Row(h)
  BY ServingStep DEF IInv, RowInv
<1>a. Updates \subseteq Requests
  BY DEF Requests
<1> USE DEF storeVars, copyVars, requestVars, instanceVars, Goto, Become
<1>1. ASSUME NEW r \in Requests, RequestStep(r), Home[r] = h,
             \A s \in Requests \ {r} : ~InFlight(s) /\ ~InFlight(s)' /\ req'[s] = req[s]
      PROVE  Ours(h)' /\ Row(h)'
  <2>1. ipc' = ipc /\ hread' = hread /\ \A i \in Instances \ {h} : kbs'[i] = kbs[i]
    BY <1>0, <1>1, HomeOnly, RequestEffect
  <2>2. \A u \in Updates : InFlight(u)' => u = r
    BY <1>1, <1>a
  <2>3. \A u \in Updates : req'[u] \in {"saved", "created", "published"} => u = r
    BY <2>2 DEF InFlight
  \* a step that leaves the tenant's row, what is published and the inboxes alone
  <2>4. ASSUME UNCHANGED <<tenantRow, published, inbox>>, NoUpdate PROVE Row(h)'
    <3>1. \A i \in Instances \ {h} : Knows(i)' = Knows(i)
      BY <2>1, <2>4 DEF Knows
    <3> QED
      BY <1>0, <2>1, <2>4, <3>1
  <2>5. ASSUME r \in Updates, InFlight(r)' PROVE Row(h)'
    BY <2>5 DEF NoUpdate
  <2>6. CASE UpdateTenant(r)
    <3>1. /\ UNCHANGED <<tenantRow, published, inbox>> /\ req[r] = "start"
          /\ req'[r] \in {"failed", "changed"}
      BY <1>0, <2>6, UpdateEffect
    <3>2. NoUpdate
      BY <1>1, <1>a, <3>1 DEF NoUpdate, InFlight
    <3> QED
      BY <2>3, <2>4, <3>1, <3>2
  <2>7. CASE SaveTenant(r)
    <3>1. /\ r \in Updates /\ InFlight(r) /\ InFlight(r)'
          /\ tenantRow' = sent[r] /\ tenant' = tenant
      BY <1>0, <2>7 DEF SaveTenant, InFlight, TypeOK
    <3>2. sent[r] = tenant[h]
      BY <1>0, <3>1 DEF HomeInv
    <3> QED
      BY <2>5, <3>1, <3>2
  <2>8. CASE CreateVersion(r) \/ PublishVersion(r)
    <3>1. /\ r \in Updates /\ req[r] \in {"saved", "created"} /\ req'[r] \in {"created", "published"}
          /\ UNCHANGED <<tenantRow, tenant>>
      BY <1>0, <2>8 DEF CreateVersion, PublishVersion, TypeOK
    <3>2. Row(h)'
      BY <2>5, <3>1 DEF InFlight
    <3> QED
      BY <1>0, <2>3, <3>1, <3>2
  <2>9. CASE Announce(r)
    <3>1. /\ r \in Updates /\ req[r] = "published" /\ req'[r] = "done"
          /\ UNCHANGED <<tenantRow, published, tenant>>
          /\ \A i \in Instances \ {h} : Subscribed(i) => inbox'[i] = inbox[i] + 1
      BY <1>0, <1>1, <2>9 DEF Announce, TypeOK
    <3>2. published = tenant[h]
      BY <1>0, <3>1 DEF HomeInv, InFlight
    <3>3. \A i \in Instances \ {h} : inbox'[i] > 0
      <4>1. \A i \in Instances : inbox[i] \in Nat /\ Subscribed(i)
        BY <1>0 DEF TurnInv, TypeOK
      <4>2. \A i \in Instances \ {h} : inbox'[i] = inbox[i] + 1 /\ inbox[i] \in Nat
        BY <3>1, <4>1
      <4> QED
        BY <4>2
    <3>4. tenantRow = tenant[h] \/ \E i \in Instances \ {h} : TRUE
      BY <1>0, <3>1
    <3> QED
      BY <2>3, <3>1, <3>2, <3>3, <3>4
  <2>10. CASE CreateKB(r) \/ UpdateKB(r) \/ SaveKB(r)
    <3>1. /\ UNCHANGED <<tenantRow, published, inbox, tenant>> /\ r \notin Updates
      BY <2>10, DirectoryAssumption DEF CreateKB, UpdateKB, SaveKB
    <3>2. NoUpdate
      BY <1>1, <1>a, <3>1 DEF NoUpdate
    <3> QED
      BY <2>3, <2>4, <3>1, <3>2
  <2> QED
    BY <1>1, <2>6, <2>7, <2>8, <2>9, <2>10 DEF RequestStep
\* the listener of another instance
<1>2. ASSUME NEW j \in Instances, ListenerStep(j) PROVE Ours(h)' /\ Row(h)'
  <2>1. UNCHANGED <<published, kbs, req, tenant[h]>> /\ j # h
    BY <1>0, <1>2, ListenerElsewhere
  <2>2. /\ NoUpdate' = NoUpdate
        /\ \A i \in Instances : Knows(i)' = Knows(i)
    BY <2>1 DEF NoUpdate, InFlight, Knows
  <2>3. Ours(h)'
    BY <2>1
  \* a step that leaves the row alone, and after which somebody will still mend it
  <2>4. ASSUME tenantRow' = tenantRow, \A i \in Instances \ {h} : Knows(i) /\ Mends(i) => Mends(i)'
        PROVE  Row(h)'
    BY <1>0, <2>1, <2>2, <2>4
  <2>5. CASE Receive(j)
    <3>1. /\ published # NoKB /\ hread'[j] = published /\ ipc'[j] = "read"
      BY <1>0, <2>5 DEF Receive, TypeOK
    <3> QED
      BY <2>1, <2>3, <3>1
  <2>6. CASE Apply(j)
    <3>1. /\ tenantRow' = tenantRow /\ inbox' = inbox
          /\ \A i \in Instances : hread'[i] = hread[i]
          /\ ipc'[j] = "changed" /\ \A i \in Instances \ {j} : ipc'[i] = ipc[i]
      BY <1>0, <2>6, ApplyEffect
    <3>2. \A i \in Instances \ {h} : Mends(i) => Mends(i)'
      BY <2>1, <3>1
    <3> QED
      BY <2>3, <2>4, <3>1, <3>2
  <2>7. CASE Ignore(j)
    <3>1. /\ UNCHANGED <<tenantRow, inbox, hread>> /\ hread[j].default \notin kbs[j].ours
          /\ ipc[j] = "read" /\ \A i \in Instances \ {j} : ipc'[i] = ipc[i]
      BY <1>0, <2>7 DEF Ignore, Accepts, TypeOK
    <3>2. \A i \in Instances \ {h} : Knows(i) /\ Mends(i) => Mends(i)'
      BY <2>1, <3>1 DEF Knows
    <3> QED
      BY <2>3, <2>4, <3>1, <3>2
  <2>8. CASE WriteBack(j)
    <3>1. /\ ipc[j] = "changed" /\ tenantRow' = hread[j] /\ UNCHANGED inbox
      BY <2>8 DEF WriteBack
    <3>2. hread[j] = tenant[j] /\ (Knows(j) => Owed(j) \/ tenant[j] = published)
      BY <1>0, <2>1, <3>1 DEF ListenInv
    <3>3. NoUpdate /\ Owed(j) => inbox[j] > 0
      BY <3>1 DEF NoUpdate, InFlight, Owed
    <3> QED
      BY <2>1, <2>2, <2>3, <3>1, <3>2, <3>3
  <2> QED
    BY <1>2, <2>5, <2>6, <2>7, <2>8 DEF ListenerStep
<1> QED
  BY <1>1, <1>2, ServingStep

-----------------------------------------------------------------------------
(* The theorems about one administrator *)

\* While one administrator uses one instance and nothing fails: that instance's copy
\* is the table or what is being written to it, all other instances have the
\* published tenant or will be told of it, and so has the row.
THEOREM SettleInvariance == Spec => []SettleInv
<1>1. ASSUME SettleInv, [Next]_vars, IInv' PROVE SettleInv'
  <2>1. CASE Next
    BY <1>1, <2>1, TurnPreserved, AgreePreserved, HomePreserved, ListenPreserved, RowPreserved DEF SettleInv
  <2>2. CASE UNCHANGED vars
    <3>1. /\ UNCHANGED <<tenantRow, kbRows, published, tenant, kbs, req, sent, alone, inbox, ipc>>
          /\ UNCHANGED <<hread, faults>>
      BY <2>2 DEF vars, storeVars, copyVars, requestVars, instanceVars
    <3>2. Undisturbed' = Undisturbed /\ NoUpdate' = NoUpdate /\ Made' = Made
      BY <3>1 DEF Undisturbed, NoUpdate, Made, InFlight
    <3>3. \A i \in Instances : ServesAll(i)' = ServesAll(i) /\ Knows(i)' = Knows(i) /\ Owed(i)' = Owed(i)
      BY <3>1 DEF ServesAll, Knows, Owed
    <3>4. TurnInv'
      BY <1>1, <3>1, <3>2 DEF SettleInv, TurnInv, InFlight, Subscribed
    <3>5. AgreeInv'
      BY <1>1, <3>1, <3>2, <3>3 DEF SettleInv, AgreeInv, Written
    <3>6. HomeInv'
      BY <1>1, <3>1, <3>2, <3>3 DEF SettleInv, HomeInv, InFlight
    <3>7. ListenInv'
      BY <1>1, <3>1, <3>2, <3>3 DEF SettleInv, ListenInv
    <3>8. RowInv'
      BY <1>1, <3>1, <3>2, <3>3 DEF SettleInv, RowInv
    <3> QED
      BY <1>1, <3>4, <3>5, <3>6, <3>7, <3>8 DEF SettleInv
  <2> QED
    BY <1>1, <2>1, <2>2
<1> QED
  BY Invariance, InitSettle, <1>1, PTL DEF Spec

\* The instance that has served a request has served all of them.
LEMMA SettledHome ==
  ASSUME Settled, NEW r \in Requests, req[r] # "start"
  PROVE  Undisturbed /\ Home[r] \in Instances /\ ServesAll(Home[r])
BY DirectoryAssumption DEF Settled, Undisturbed, ServesAll

\* Once everything is handled, the table, and every copy that knows the published
\* default, hold the tenant that is published.
LEMMA SettledTenant ==
  ASSUME SettleInv, Settled, AllKnow
  PROVE  /\ tenantRow = published /\ \A i \in Instances : tenant[i] = published
         /\ \E h \in Instances : ServesAll(h)
<1>1. PICK u \in Updates : req[u] # "start"
  BY DEF SettleInv, TurnInv, AllKnow
<1> DEFINE h == Home[u]
<1>2. Undisturbed /\ h \in Instances /\ ServesAll(h)
  BY <1>1, SettledHome DEF Requests
<1> HIDE DEF h
<1>3. NoUpdate /\ published # NoKB /\ \A i \in Instances : Knows(i) /\ ipc[i] = "idle" /\ inbox[i] = 0
  BY DEF Settled, AllKnow, NoUpdate, Knows, Requests
<1>4. tenant[h] = published
  BY <1>2, <1>3 DEF SettleInv, HomeInv
<1>5. \A i \in Instances \ {h} : tenant[i] = published
  <2>1. ASSUME NEW i \in Instances PROVE ~Owed(i)
    BY <1>3 DEF Owed, NoUpdate, InFlight
  <2> QED
    BY <1>2, <1>3, <2>1 DEF SettleInv, ListenInv
<1>6. tenantRow = published
  BY <1>2, <1>3 DEF SettleInv, RowInv
<1> QED
  BY <1>2, <1>4, <1>5, <1>6

\* However many updates, creates and toggles one administrator makes on one of any
\* number of instances, the table and all copies end with the published tenant,
\* although listeners write the row back as well (_handle_config_event).
THEOREM TenantsConvergeHolds == Spec => []TenantsConverge
<1>1. SettleInv => TenantsConverge
  BY SettledTenant DEF TenantsConverge
<1> QED
  BY SettleInvariance, <1>1, PTL

\* And no update of a field is lost unless another update sets the same field
\* (update_tenant, the PATCH /tenants/{id} handler).
THEOREM UpdateStaysHolds == Spec => []UpdateStays
<1>1. ASSUME SettleInv, Settled, AllKnow, NEW u \in Updates, req[u] = "done"
      PROVE  /\ u \in Renames /\ (\A v \in Renames \ {u} : req[v] # "done") => tenantRow.plan = u
             /\ Default[u] # NoKB /\ (\A v \in Updates \ {u} : req[v] = "done" => Default[v] = NoKB)
                  => tenantRow.default = Default[u]
  <2>1. PICK h \in Instances : ServesAll(h)
    BY <1>1, SettledTenant
  <2>2. tenantRow = tenant[h]
    BY <1>1, <2>1, SettledTenant
  <2>3. \A v \in Updates : v \in Made => req[v] = "done"
    BY <1>1 DEF Settled, InFlight, Made, Requests
  <2>4. u \in Made
    BY <1>1 DEF Made
  <2>5. /\ u \in Renames /\ Made \cap Renames = {u} => tenant[h].plan = u
        /\ Default[u] # NoKB /\ (\A v \in Made \ {u} : Default[v] = NoKB) => tenant[h].default = Default[u]
    BY <1>1, <2>1, <2>4 DEF SettleInv, HomeInv, Settled, Undisturbed
  <2>6. Made \subseteq Updates
    BY DEF Made
  <2> QED
    BY <2>2, <2>3, <2>4, <2>5, <2>6
<1>2. SettleInv => UpdateStays
  BY <1>1 DEF UpdateStays
<1> QED
  BY SettleInvariance, <1>2, PTL

\* The copy of the instance an administrator uses agrees with the table once the
\* requests are answered (create_knowledge_base, update_knowledge_base).
THEOREM KBsAgreeHolds == Spec => []KBsAgree
<1>1. ASSUME SettleInv, Settled, NEW r \in Creates \cup Toggles, req[r] = "done"
      PROVE  kbs[Home[r]] = kbRows
  <2>1. Undisturbed /\ Home[r] \in Instances /\ ServesAll(Home[r])
    BY <1>1, SettledHome DEF Requests
  <2>2. \A s \in Creates \cup Toggles : req[s] # "changed"
    BY <1>1 DEF Settled, InFlight, Requests
  <2> QED
    BY <1>1, <2>1, <2>2 DEF SettleInv, AgreeInv
<1>2. SettleInv => KBsAgree
  BY <1>1 DEF KBsAgree
<1> QED
  BY SettleInvariance, <1>2, PTL

=============================================================================
