------------------------- MODULE ConfigPublishProofs -------------------------
(* Proofs about ConfigPublish. *)
EXTENDS ConfigPublish, TLAPS

LEMMA PublishedTyped ==
  ASSUME TypeOK
  PROVE  Published \in 0..latest
<1>1. CASE PublishedRows = {}
  BY <1>1 DEF Published, TypeOK
<1>2. CASE PublishedRows # {}
  <2>1. Published \in PublishedRows
    BY <1>2 DEF Published
  <2> QED
    BY <2>1 DEF PublishedRows, Versions, TypeOK
<1> QED
  BY <1>1, <1>2

\* Counting a fault keeps the counters within their bounds.
LEMMA CountFault ==
  ASSUME TypeOK
  PROVE  /\ faults.error < env.errors =>
              [faults EXCEPT !.error = @ + 1] \in [error : 0..env.errors, restart : 0..env.restarts]
         /\ faults.restart < env.restarts =>
              [faults EXCEPT !.restart = @ + 1] \in [error : 0..env.errors, restart : 0..env.restarts]
<1>1. /\ faults.error \in 0..env.errors /\ faults.restart \in 0..env.restarts
      /\ env.errors \in Nat /\ env.restarts \in Nat
  BY ScenariosAssumption DEF TypeOK, Scenario
<1>2. faults = [error |-> faults.error, restart |-> faults.restart]
  BY DEF TypeOK
<1>3. ASSUME faults.error < env.errors PROVE faults.error + 1 \in 0..env.errors
  BY <1>1, <1>3
<1>4. ASSUME faults.restart < env.restarts PROVE faults.restart + 1 \in 0..env.restarts
  BY <1>1, <1>4
<1> QED
  BY <1>1, <1>2, <1>3, <1>4

LEMMA InitIInv == Init => IInv
<1> SUFFICES ASSUME Init PROVE IInv
  OBVIOUS
<1> USE RequestsAssumption DEF Init
<1>0. env.errors \in Nat /\ env.restarts \in Nat
  BY ScenariosAssumption DEF Scenario
<1>1. Versions = {} /\ PublishedRows = {}
  BY DEF Versions, PublishedRows
<1>2. TypeOK
  BY <1>0, <1>1 DEF TypeOK, ListenPc, RequestPc
<1>3. LockInv /\ OnePublished
  BY <1>1 DEF LockInv, OnePublished
<1> QED
  BY <1>2, <1>3 DEF IInv

LEMMA TypePreserved ==
  ASSUME IInv, Next
  PROVE  TypeOK'
<1> USE RequestsAssumption
<1>0. TypeOK /\ LockInv /\ Published \in 0..latest /\ env' = env
  BY PublishedTyped DEF IInv, Next
<1> USE DEF TypeOK, Versions, RequestPc, ListenPc, Requests,
            storeVars, instanceVars, listenVars, requestVars, Goto
<1>1. ASSUME NEW r \in Requests, TakeSnapshot(r) PROVE TypeOK'
  BY <1>0, <1>1 DEF TakeSnapshot, Snapshot, ConfigOf
<1>2. ASSUME NEW r \in Requests, CreateVersion(r) PROVE TypeOK'
  <2>1. latest' = latest + 1 /\ latest' \in Nat
    BY <1>0, <1>2 DEF CreateVersion
  <2>2. 0..latest \subseteq 0..latest' /\ 1..latest' = (1..latest) \cup {latest + 1}
    <3> HIDE DEF TypeOK
    <3>1. latest \in Nat
      BY <1>0 DEF TypeOK
    <3> QED
      BY <2>1, <3>1
  <2>3. status' \in [1..latest' -> {"draft", "published", "archived"}]
    <3>1. status' = [v \in 1..(latest + 1) |-> IF v = latest + 1 THEN "draft" ELSE status[v]]
      BY <1>2 DEF CreateVersion
    <3> QED
      BY <1>0, <2>1, <2>2, <3>1
  <2>4. values' \in [1..latest' -> SUBSET (Updates \cup Drafts)]
    <3>1. values' = [v \in 1..(latest + 1) |-> IF v = latest + 1 THEN cand[r] ELSE values[v]]
      BY <1>2 DEF CreateVersion
    <3> QED
      BY <1>0, <2>1, <2>2, <3>1
  <2>5. ver' \in [Requests -> 0..latest'] /\ req' \in [Requests -> RequestPc]
    BY <1>0, <1>2, <2>1, <2>2 DEF CreateVersion
  <2>6. UNCHANGED <<instanceVars, listenVars, cand, held, old, faults>>
    BY <1>2 DEF CreateVersion
  <2> QED
    BY <1>0, <2>1, <2>2, <2>3, <2>4, <2>5, <2>6
<1>3. ASSUME NEW r \in Requests, ChooseVersion(r) PROVE TypeOK'
  BY <1>0, <1>3 DEF ChooseVersion
<1>4. ASSUME NEW r \in Requests, Apply(r) PROVE TypeOK'
  BY <1>0, <1>4 DEF Apply
<1>5. ASSUME NEW r \in Requests, Reject(r) PROVE TypeOK'
  BY <1>0, <1>5 DEF Reject
<1>6. ASSUME NEW r \in Requests, LockTarget(r) PROVE TypeOK'
  BY <1>0, <1>6 DEF LockTarget, LockInv
<1>7. ASSUME NEW r \in Requests, LockScope(r) PROVE TypeOK'
  BY <1>0, <1>7 DEF LockScope
<1>8. ASSUME NEW r \in Requests, DeadlockVictim(r) PROVE TypeOK'
  BY <1>0, <1>8 DEF DeadlockVictim, Unlock
<1>9. ASSUME NEW r \in Requests, Archive(r) PROVE TypeOK'
  BY <1>0, <1>9 DEF Archive, PublishedRows
<1>10. ASSUME NEW r \in Requests, Commit(r) PROVE TypeOK'
  BY <1>0, <1>10 DEF Commit, Unlock
<1>11. ASSUME NEW r \in Requests, RecordVersion(r) PROVE TypeOK'
  BY <1>0, <1>11 DEF RecordVersion
<1>12. ASSUME NEW r \in Requests, Announce(r) PROVE TypeOK'
  BY <1>0, <1>12 DEF Announce
<1>13. ASSUME NEW r \in Requests, Error(r) PROVE TypeOK'
  <2>1. faults' \in [error : 0..env.errors, restart : 0..env.restarts]
    BY <1>0, <1>13, CountFault DEF Error
  <2>2. req' \in [Requests -> RequestPc] /\ held' \in [Requests -> SUBSET Versions]
    BY <1>0, <1>13 DEF Error, Unlock
  <2> QED
    BY <1>0, <1>13, <2>1, <2>2 DEF Error
<1>14. ASSUME NEW i \in Instances, Receive(i) PROVE TypeOK'
  <2>1. inbox[i] \in Nat /\ inbox[i] > 0
    BY <1>0, <1>14 DEF Receive
  <2>2. inbox' \in [Instances -> Nat]
    BY <1>0, <1>14, <2>1 DEF Receive
  <2>3. hread' \in [Instances -> 0..latest] /\ hpc' \in [Instances -> ListenPc]
    BY <1>0, <1>14 DEF Receive
  <2>4. UNCHANGED <<storeVars, instanceVars, requestVars, faults>>
    BY <1>14 DEF Receive
  <2> QED
    BY <1>0, <2>2, <2>3, <2>4
<1>15. ASSUME NEW i \in Instances, Skip(i) PROVE TypeOK'
  BY <1>0, <1>15 DEF Skip
<1>16. ASSUME NEW i \in Instances, Reload(i) PROVE TypeOK'
  BY <1>0, <1>16 DEF Reload
<1>17. ASSUME NEW i \in Instances, Reloaded(i) PROVE TypeOK'
  BY <1>0, <1>17 DEF Reloaded
<1>18. ASSUME NEW i \in Instances, HandlerError(i) PROVE TypeOK'
  <2>1. inbox[i] \in Nat /\ inbox[i] > 0
    BY <1>0, <1>18 DEF HandlerError
  <2>2. inbox' \in [Instances -> Nat]
    BY <1>0, <1>18, <2>1 DEF HandlerError
  <2>3. faults' \in [error : 0..env.errors, restart : 0..env.restarts]
    BY <1>0, <1>18, CountFault DEF HandlerError
  <2> QED
    BY <1>0, <1>18, <2>2, <2>3 DEF HandlerError
<1>19. ASSUME NEW i \in Instances, Restart(i) PROVE TypeOK'
  <2>1. faults' \in [error : 0..env.errors, restart : 0..env.restarts]
    BY <1>0, <1>19, CountFault DEF Restart
  <2>2. req' \in [Requests -> RequestPc] /\ held' \in [Requests -> SUBSET Versions]
    BY <1>0, <1>19 DEF Restart
  <2>3. /\ runtime' \in [Instances -> 0..latest] /\ pubver' \in [Instances -> 0..latest]
        /\ hread' \in [Instances -> 0..latest] /\ hpc' \in [Instances -> ListenPc]
        /\ inbox' \in [Instances -> Nat]
    BY <1>0, <1>19 DEF Restart
  <2> QED
    BY <1>0, <1>19, <2>1, <2>2, <2>3 DEF Restart
<1>20. ASSUME NEW i \in Instances, Subscribe(i) PROVE TypeOK'
  BY <1>0, <1>20 DEF Subscribe
<1> QED
  BY <1>1, <1>2, <1>3, <1>4, <1>5, <1>6, <1>7, <1>8, <1>9, <1>10, <1>11, <1>12, <1>13,
     <1>14, <1>15, <1>16, <1>17, <1>18, <1>19, <1>20
     DEF Next, RequestStep, ListenerStep

\* A request fails and its transaction lets go of its rows.
Released(r) == Unlock(r) /\ Goto(r, "failed")

\* A step that keeps the rows, their locks and the targets, and brings no request
\* nearer to its transaction, keeps LockInv and OnePublished.
LEMMA Untouched ==
  ASSUME IInv, UNCHANGED <<latest, status, ver, held, old>>,
         \A r \in Requests : req'[r] \in {req[r], "snapped", "done", "failed"}
  PROVE  LockInv' /\ OnePublished'
<1>1. Versions' = Versions /\ PublishedRows' = PublishedRows
  BY DEF Versions, PublishedRows
<1> QED
  BY <1>1 DEF IInv, LockInv, OnePublished

LEMMA LockPreserved ==
  ASSUME IInv, Next
  PROVE  LockInv' /\ OnePublished'
<1>0. TypeOK /\ LockInv /\ OnePublished
  BY DEF IInv
<1> USE DEF storeVars, instanceVars, listenVars, requestVars, Goto
<1>1. ASSUME NEW r \in Requests, TakeSnapshot(r) PROVE LockInv' /\ OnePublished'
  BY <1>0, <1>1, Untouched DEF TakeSnapshot, TypeOK
<1>2. ASSUME NEW r \in Requests, CreateVersion(r) PROVE LockInv' /\ OnePublished'
  <2>1. /\ Versions \subseteq Versions' /\ latest' \in Versions'
        /\ \A v \in Versions : status'[v] = status[v]
        /\ PublishedRows' = PublishedRows
    BY <1>0, <1>2 DEF CreateVersion, Versions, PublishedRows, TypeOK
  <2>2. ver'[r] = latest' /\ \A s \in Requests \ {r} : ver'[s] = ver[s] /\ req'[s] = req[s]
    BY <1>0, <1>2 DEF CreateVersion, TypeOK
  <2>3. req'[r] \in {"done", "created"}
    BY <1>0, <1>2 DEF CreateVersion, TypeOK
  <2>4. UNCHANGED <<held, old>>
    BY <1>2 DEF CreateVersion
  <2> QED
    BY <1>0, <2>1, <2>2, <2>3, <2>4 DEF LockInv, OnePublished
<1>3. ASSUME NEW r \in Requests, ChooseVersion(r) PROVE LockInv' /\ OnePublished'
  <2>1. Versions' = Versions /\ PublishedRows' = PublishedRows
    BY <1>3 DEF ChooseVersion, Versions, PublishedRows
  <2>2. ver'[r] \in Versions /\ req'[r] = "created"
    BY <1>0, <1>3 DEF ChooseVersion, TypeOK
  <2>3. \A s \in Requests \ {r} : ver'[s] = ver[s] /\ req'[s] = req[s]
    BY <1>0, <1>3 DEF ChooseVersion, TypeOK
  <2> QED
    BY <1>0, <1>3, <2>1, <2>2, <2>3 DEF ChooseVersion, LockInv, OnePublished
<1>4. ASSUME NEW r \in Requests, Apply(r) PROVE LockInv' /\ OnePublished'
  <2>1. Versions' = Versions /\ PublishedRows' = PublishedRows
    BY <1>4 DEF Apply, Versions, PublishedRows
  <2>2. req'[r] = "applied" /\ \A s \in Requests \ {r} : req'[s] = req[s]
    BY <1>0, <1>4 DEF Apply, TypeOK
  <2> QED
    BY <1>0, <1>4, <2>1, <2>2 DEF Apply, LockInv, OnePublished
<1>5. ASSUME NEW r \in Requests, Reject(r) PROVE LockInv' /\ OnePublished'
  BY <1>0, <1>5, Untouched DEF Reject, TypeOK
<1>6. ASSUME NEW r \in Requests, LockTarget(r) PROVE LockInv' /\ OnePublished'
  <2>1. Versions' = Versions /\ PublishedRows' = PublishedRows
    BY <1>6 DEF LockTarget, Versions, PublishedRows
  <2>2. req'[r] = "target" /\ held'[r] = {ver[r]}
    BY <1>0, <1>6 DEF LockTarget, TypeOK
  <2>3. \A s \in Requests \ {r} : held'[s] = held[s] /\ req'[s] = req[s]
    BY <1>0, <1>6 DEF LockTarget, TypeOK
  <2> QED
    BY <1>0, <1>6, <2>1, <2>2, <2>3 DEF LockTarget, LockInv, OnePublished
<1>7. ASSUME NEW r \in Requests, LockScope(r) PROVE LockInv' /\ OnePublished'
  <2>1. Versions' = Versions /\ PublishedRows' = PublishedRows
    BY <1>7 DEF LockScope, Versions, PublishedRows
  <2>2. req'[r] = "locked" /\ held'[r] = Versions
    BY <1>0, <1>7 DEF LockScope, TypeOK
  <2>3. \A s \in Requests \ {r} : held'[s] = held[s] /\ req'[s] = req[s]
    BY <1>0, <1>7 DEF LockScope, TypeOK
  <2>4. \A s \in Requests \ {r} : req[s] \notin {"target", "locked", "archived"}
    \* it would hold the row it publishes
    BY <1>0, <1>7 DEF LockScope, Unlocked, LockInv
  <2> QED
    BY <1>0, <1>7, <2>1, <2>2, <2>3, <2>4 DEF LockScope, LockInv, OnePublished
<1>8. ASSUME NEW r \in Requests, Released(r), UNCHANGED <<latest, status, ver, old>>
      PROVE LockInv' /\ OnePublished'
  <2>1. Versions' = Versions /\ PublishedRows' = PublishedRows
    BY <1>8 DEF Versions, PublishedRows
  <2>2. req'[r] = "failed"
    BY <1>0, <1>8 DEF Released, TypeOK
  <2>3. \A s \in Requests \ {r} : held'[s] = held[s] /\ req'[s] = req[s]
    BY <1>0, <1>8 DEF Released, Unlock, TypeOK
  <2> QED
    BY <1>0, <1>8, <2>1, <2>2, <2>3 DEF LockInv, OnePublished
<1>9. ASSUME NEW r \in Requests, Archive(r) PROVE LockInv' /\ OnePublished'
  <2>1. Versions' = Versions /\ PublishedRows' = PublishedRows
    BY <1>9 DEF Archive, Versions, PublishedRows
  <2>2. req[r] = "locked" /\ req'[r] = "archived" /\ old'[r] = PublishedRows
    BY <1>0, <1>9 DEF Archive, TypeOK
  <2>3. \A s \in Requests \ {r} : old'[s] = old[s] /\ req'[s] = req[s]
    BY <1>0, <1>9 DEF Archive, TypeOK
  <2> QED
    BY <1>0, <1>9, <2>1, <2>2, <2>3 DEF Archive, LockInv, OnePublished
<1>10. ASSUME NEW r \in Requests, Commit(r) PROVE LockInv' /\ OnePublished'
  <2>1. Versions' = Versions
    BY <1>10 DEF Commit, Versions
  <2>2. PublishedRows' = {ver[r]}
    BY <1>0, <1>10 DEF Commit, LockInv, PublishedRows, Versions, TypeOK
  <2>3. req[r] = "archived" /\ req'[r] = "committed"
    BY <1>0, <1>10 DEF Commit, TypeOK
  <2>4. \A s \in Requests \ {r} : held'[s] = held[s] /\ req'[s] = req[s]
    BY <1>0, <1>10 DEF Commit, Unlock, TypeOK
  <2>5. \A s \in Requests : req'[s] # "archived"
    BY <1>0, <2>3, <2>4 DEF LockInv
  <2> QED
    BY <1>0, <1>10, <2>1, <2>2, <2>3, <2>4, <2>5 DEF Commit, LockInv, OnePublished
<1>11. ASSUME NEW r \in Requests, RecordVersion(r) PROVE LockInv' /\ OnePublished'
  <2>1. Versions' = Versions /\ PublishedRows' = PublishedRows
    BY <1>11 DEF RecordVersion, Versions, PublishedRows
  <2>2. /\ req[r] = "committed" /\ req'[r] = "recorded"
        /\ \A s \in Requests \ {r} : req'[s] = req[s]
    BY <1>0, <1>11 DEF RecordVersion, TypeOK
  <2> QED
    BY <1>0, <1>11, <2>1, <2>2 DEF RecordVersion, LockInv, OnePublished
<1>12. ASSUME NEW r \in Requests, Announce(r) PROVE LockInv' /\ OnePublished'
  BY <1>0, <1>12, Untouched DEF Announce, TypeOK
<1>13. ASSUME NEW r \in Requests, DeadlockVictim(r) \/ Error(r) PROVE LockInv' /\ OnePublished'
  BY <1>8, <1>13 DEF Released, DeadlockVictim, Error
<1>14. ASSUME NEW i \in Instances, ListenerStep(i) \/ HandlerError(i)
       PROVE LockInv' /\ OnePublished'
  <2>1. UNCHANGED <<storeVars, requestVars>>
    BY <1>14 DEF ListenerStep, Receive, Skip, Reload, Reloaded, Subscribe, HandlerError
  <2> QED
    BY <2>1, Untouched
<1>15. ASSUME NEW i \in Instances, Restart(i) PROVE LockInv' /\ OnePublished'
  <2>1. Versions' = Versions /\ PublishedRows' = PublishedRows
    BY <1>15 DEF Restart, Versions, PublishedRows
  <2>2. \A r \in Requests : \/ req'[r] = "failed"
                            \/ req'[r] = req[r] /\ held'[r] = held[r]
    BY <1>0, <1>15 DEF Restart, TypeOK
  <2> QED
    BY <1>0, <1>15, <2>1, <2>2 DEF Restart, LockInv, OnePublished
<1> QED
  BY <1>1, <1>2, <1>3, <1>4, <1>5, <1>6, <1>7, <1>9, <1>10, <1>11, <1>12, <1>13, <1>14, <1>15
     DEF Next, RequestStep

\* In every reachable state the types are correct, one transaction at most is
\* past its second SELECT, and at most one version is published.
THEOREM Invariance == Spec => []IInv
<1>1. ASSUME IInv, [Next]_vars PROVE IInv'
  <2>1. CASE Next
    BY <1>1, <2>1, TypePreserved, LockPreserved DEF IInv
  <2>2. CASE UNCHANGED vars
    BY <1>1, <2>2 DEF vars, storeVars, instanceVars, listenVars, requestVars, IInv, TypeOK,
       LockInv, OnePublished, PublishedRows, Versions
  <2> QED
    BY <1>1, <2>1, <2>2
<1> QED
  BY InitIInv, <1>1, PTL DEF Spec

\* However many requests on however many instances publish at once, the table
\* never has two published versions (SqlAlchemyConfigRepository.publish).
THEOREM OnePublishedHolds == Spec => []OnePublished
<1>1. IInv => OnePublished
  BY DEF IInv
<1> QED
  BY Invariance, <1>1, PTL

-----------------------------------------------------------------------------
(* What every step does to the table, the requests and the faults *)

\* Nothing but a commit changes what is published, and stored values stay.
LEMMA TableKept ==
  ASSUME IInv, UNCHANGED storeVars \/ \E r \in Requests : CreateVersion(r)
  PROVE  /\ Published' = Published /\ ConfigOf(Published)' = ConfigOf(Published)
         /\ \A v \in Versions : v \in Versions' /\ values'[v] = values[v]
<1>0. TypeOK /\ Published \in 0..latest
  BY PublishedTyped DEF IInv
<1> USE DEF storeVars
<1>1. ASSUME NEW r \in Requests, CreateVersion(r)
      PROVE  /\ \A v \in Versions : v \in Versions' /\ values'[v] = values[v]
             /\ PublishedRows' = PublishedRows
  <2>1. latest \in Nat /\ latest' = latest + 1
    BY <1>0, <1>1 DEF CreateVersion, TypeOK
  <2>2. \A v \in 1..latest : v \in 1..(latest + 1) /\ v # latest + 1
    BY <2>1
  <2>3. \A v \in 1..latest : values'[v] = values[v] /\ status'[v] = status[v]
    BY <1>1, <2>2 DEF CreateVersion
  <2>4. status'[latest + 1] = "draft" /\ latest + 1 \in 1..(latest + 1)
    BY <1>1, <2>1 DEF CreateVersion
  <2>5. 1..(latest + 1) = (1..latest) \cup {latest + 1}
    BY <2>1
  <2> QED
    BY <2>1, <2>2, <2>3, <2>4, <2>5 DEF Versions, PublishedRows
<1>2. CASE \E r \in Requests : CreateVersion(r)
  <2>1. PublishedRows' = PublishedRows
    BY <1>1, <1>2
  <2>2. Published' = Published
    BY <2>1 DEF Published
  <2>3. Published = 0 \/ Published \in Versions
    BY <1>0 DEF Versions, TypeOK
  <2> QED
    BY <1>1, <1>2, <2>2, <2>3 DEF ConfigOf
<1>3. CASE UNCHANGED storeVars
  BY <1>3 DEF Versions, PublishedRows, Published, ConfigOf
<1> QED
  BY <1>2, <1>3

\* What a commit publishes is its own version.
LEMMA CommitStep ==
  ASSUME IInv, NEW r \in Requests, Commit(r)
  PROVE  Published' = ver[r] /\ ver[r] \in Versions /\ UNCHANGED <<latest, values>>
<1>0. TypeOK /\ LockInv
  BY DEF IInv
<1>1. ver[r] \in Versions /\ UNCHANGED <<latest, values>>
  BY <1>0 DEF Commit, LockInv
<1>2. PublishedRows' = {ver[r]}
  BY <1>0, <1>1 DEF Commit, LockInv, PublishedRows, Versions, TypeOK
<1> QED
  BY <1>1, <1>2 DEF Published

\* A fault has come to stay.
LEMMA FaultStep ==
  ASSUME IInv, Next
  PROVE  /\ FaultFree' => FaultFree
         /\ FaultFree' => ~\E r \in Requests : Error(r)
         /\ FaultFree' => ~\E i \in Instances : HandlerError(i) \/ Restart(i)
<1>0. /\ faults = [error |-> faults.error, restart |-> faults.restart]
      /\ faults.error \in Nat /\ faults.restart \in Nat
  <2>1. env.errors \in Nat /\ env.restarts \in Nat /\ faults \in [error : 0..env.errors, restart : 0..env.restarts]
    BY ScenariosAssumption DEF IInv, TypeOK, Scenario
  <2> QED
    BY <2>1
<1>1. \/ faults' = faults
      \/ faults' = [faults EXCEPT !.error = @ + 1]
      \/ faults' = [faults EXCEPT !.restart = @ + 1]
  BY DEF Next, RequestStep, ListenerStep, TakeSnapshot, CreateVersion, ChooseVersion, Apply, Reject,
     LockTarget, LockScope, DeadlockVictim, Archive, Commit, RecordVersion, Announce, Error, Receive,
     Skip, Reload, Reloaded, Subscribe, HandlerError, Restart
<1>2. CASE faults' = faults
  <2>1. ~\E r \in Requests : Error(r)
    BY <1>0, <1>2 DEF Error
  <2>2. ~\E i \in Instances : HandlerError(i) \/ Restart(i)
    BY <1>0, <1>2 DEF HandlerError, Restart
  <2> QED
    BY <1>2, <2>1, <2>2 DEF FaultFree
<1>3. CASE faults' = [faults EXCEPT !.error = @ + 1]
  BY <1>0, <1>3 DEF FaultFree
<1>4. CASE faults' = [faults EXCEPT !.restart = @ + 1]
  BY <1>0, <1>4 DEF FaultFree
<1> QED
  BY <1>1, <1>2, <1>3, <1>4

\* A request that has begun does not begin again.
LEMMA BegunStep ==
  ASSUME IInv, Next
  PROVE  /\ \A r \in Requests : req[r] # "start" => req'[r] # "start"
         /\ \A i \in Instances : ServesAll(i)' => ServesAll(i)
         /\ \A i \in Instances : Listens(i)' => Listens(i)
         /\ NothingRolledBack' => NothingRolledBack
<1>0. req \in [Requests -> RequestPc]
  BY DEF IInv, TypeOK
<1>1. ASSUME NEW r \in Requests, RequestStep(r) \/ Error(r)
      PROVE \E s \in RequestPc \ {"start"} : req' = [req EXCEPT ![r] = s]
  BY <1>1 DEF RequestStep, Goto, RequestPc, TakeSnapshot, CreateVersion, ChooseVersion, Apply, Reject,
     LockTarget, LockScope, DeadlockVictim, Archive, Commit, RecordVersion, Announce, Error
<1>2. ASSUME NEW i \in Instances, ListenerStep(i) \/ HandlerError(i) PROVE req' = req
  BY <1>2 DEF requestVars, ListenerStep, Receive, Skip, Reload, Reloaded, Subscribe, HandlerError
<1>3. ASSUME NEW i \in Instances, Restart(i) PROVE \A r \in Requests : req'[r] \in {req[r], "failed"}
  BY <1>3 DEF Restart
<1>4. \A r \in Requests : req[r] # "start" => req'[r] # "start"
  BY <1>0, <1>1, <1>2, <1>3 DEF Next
<1> QED
  BY <1>4 DEF ServesAll, Listens, NothingRolledBack, Publishers, Requests

-----------------------------------------------------------------------------
(* Turns: one request at a time in a serial scenario *)

LEMMA InitConverge == Init => ConvergeInv
<1> SUFFICES ASSUME Init PROVE ConvergeInv
  OBVIOUS
<1>1. IInv /\ TypeOK
  BY InitIInv DEF IInv
<1>2. Published = 0
  BY DEF Init, Published, PublishedRows, Versions
<1> USE RequestsAssumption DEF Init, Requests, Publishers
<1>3. TurnInv
  BY DEF TurnInv, InFlight
<1>4. ListenInv
  BY <1>2 DEF ListenInv, InStep
<1>5. ServeInv
  BY <1>2 DEF ServeInv, Applied
<1>6. KeepInv
  BY DEF KeepInv, InFlight
<1> QED
  BY <1>1, <1>3, <1>4, <1>5, <1>6 DEF ConvergeInv

LEMMA TurnPreserved ==
  ASSUME IInv, TurnInv, Next
  PROVE  TurnInv'
<1>0. req \in [Requests -> RequestPc] /\ env' = env /\ Drafts \subseteq Requests
  BY DEF IInv, TypeOK, Next, Requests
<1> USE DEF Goto
\* beginning needs that nothing else is under way, ...
<1>1. ASSUME NEW r \in Requests, TakeSnapshot(r) \/ ChooseVersion(r) PROVE TurnInv'
  <2>1. MayStart(r) /\ \A s \in Requests \ {r} : req'[s] = req[s]
    BY <1>0, <1>1 DEF TakeSnapshot, ChooseVersion
  <2>2. req'[r] = "snapped" \/ r \notin Drafts
    BY <1>0, <1>1, RequestsAssumption DEF TakeSnapshot, ChooseVersion
  <2> QED
    BY <1>0, <2>1, <2>2 DEF TurnInv, MayStart, InFlight
\* ... and all other steps are of a request that is
<1>2. ASSUME NEW r \in Requests, InFlight(r), \A s \in Requests \ {r} : req'[s] = req[s],
             r \in Drafts => req'[r] \in {"done", "failed"}
      PROVE  TurnInv'
  BY <1>0, <1>2 DEF TurnInv, InFlight
<1>3. ASSUME NEW r \in Requests, CreateVersion(r) PROVE TurnInv'
  BY <1>0, <1>2, <1>3 DEF CreateVersion, InFlight
<1>4. ASSUME NEW r \in Requests, NEW s \in RequestPc, InFlight(r), req[r] # "snapped",
             req' = [req EXCEPT ![r] = s]
      PROVE  TurnInv'
  <2>1. r \notin Drafts
    BY <1>4 DEF TurnInv, InFlight
  <2> QED
    BY <1>0, <1>2, <1>4, <2>1
<1>5. ASSUME NEW r \in Requests,
             \/ Apply(r) \/ Reject(r) \/ LockTarget(r) \/ LockScope(r) \/ DeadlockVictim(r)
             \/ Archive(r) \/ Commit(r) \/ RecordVersion(r) \/ Announce(r)
      PROVE  TurnInv'
  <2>1. InFlight(r) /\ req[r] # "snapped"
    BY <1>5 DEF InFlight, Apply, Reject, LockTarget, LockScope, DeadlockVictim, Archive, Commit,
       RecordVersion, Announce
  <2>2. \E s \in RequestPc : req' = [req EXCEPT ![r] = s]
    BY <1>5 DEF RequestPc, Apply, Reject, LockTarget, LockScope, DeadlockVictim, Archive, Commit,
       RecordVersion, Announce
  <2> QED
    BY <1>4, <2>1, <2>2
<1>6. ASSUME NEW r \in Requests, Error(r) PROVE TurnInv'
  BY <1>0, <1>2, <1>6 DEF Error, InFlight
<1>7. ASSUME NEW i \in Instances, ListenerStep(i) \/ HandlerError(i) PROVE TurnInv'
  <2>1. req' = req
    BY <1>7 DEF requestVars, ListenerStep, Receive, Skip, Reload, Reloaded, Subscribe, HandlerError
  <2> QED
    BY <1>0, <2>1 DEF TurnInv, InFlight
<1>8. ASSUME NEW i \in Instances, Restart(i) PROVE TurnInv'
  <2>1. \A r \in Requests : req'[r] \in {req[r], "failed"}
    BY <1>8 DEF Restart
  <2> QED
    BY <1>0, <2>1 DEF TurnInv, InFlight
<1> QED
  BY <1>1, <1>3, <1>5, <1>6, <1>7, <1>8 DEF Next, RequestStep

-----------------------------------------------------------------------------
(* An instance that only listens *)

\* The step leaves the listener, the runtime and the inbox of this instance alone,
\* publishes nothing, and takes no publication back.
LEMMA ListenFrame ==
  ASSUME TypeOK, TurnInv, ListenInv, NEW i \in Instances, FaultFree, Listens(i), Published' = Published,
         inbox'[i] = inbox[i], hpc'[i] = hpc[i], hread'[i] = hread[i],
         runtime'[i] = runtime[i], pubver'[i] = pubver[i],
         \A r \in Requests : req[r] \in {"committed", "recorded"} => req'[r] \in {"committed", "recorded"}
  PROVE  /\ hpc'[i] # "off"
         /\ Owed(i)' \/ (hpc'[i] = "idle" /\ InStep(i)')
         /\ Published' = 0 => runtime'[i] = 0 /\ pubver'[i] = 0 /\ hread'[i] = 0
         /\ runtime'[i] = IF hpc'[i] = "reloaded" THEN hread'[i] ELSE pubver'[i]
<1>1. Owed(i) \/ (hpc[i] = "idle" /\ InStep(i))
  BY DEF ListenInv
<1>2. CASE Owed(i)
  BY <1>2 DEF Owed, ListenInv
<1>3. CASE hpc[i] = "idle" /\ InStep(i)
  BY <1>3 DEF InStep, ListenInv
<1> QED
  BY <1>1, <1>2, <1>3

LEMMA ListenPreserved ==
  ASSUME IInv, TurnInv, ListenInv, Next
  PROVE  ListenInv'
<1> SUFFICES ASSUME FaultFree', NEW i \in Instances
             PROVE  /\ hpc'[i] # "off"
                    /\ Listens(i)' =>
                         /\ Owed(i)' \/ (hpc'[i] = "idle" /\ InStep(i)')
                         /\ Published' = 0 => runtime'[i] = 0 /\ pubver'[i] = 0 /\ hread'[i] = 0
                         /\ runtime'[i] = IF hpc'[i] = "reloaded" THEN hread'[i] ELSE pubver'[i]
  BY DEF ListenInv
<1> DEFINE Goal == /\ Owed(i)' \/ (hpc'[i] = "idle" /\ InStep(i)')
                   /\ Published' = 0 => runtime'[i] = 0 /\ pubver'[i] = 0 /\ hread'[i] = 0
                   /\ runtime'[i] = IF hpc'[i] = "reloaded" THEN hread'[i] ELSE pubver'[i]
<1>0. /\ TypeOK /\ FaultFree /\ (Listens(i)' => Listens(i)) /\ hpc[i] # "off"
      /\ ~\E r \in Requests : Error(r)
      /\ ~\E j \in Instances : HandlerError(j) \/ Restart(j)
  BY FaultStep, BegunStep DEF IInv, ListenInv
<1> USE DEF storeVars, instanceVars, listenVars, requestVars, Goto
\* requests before they commit, and those that fail before
<1>1. ASSUME NEW r \in Requests, NEW s \in RequestPc, req' = [req EXCEPT ![r] = s],
             req[r] \notin {"committed", "recorded"}, UNCHANGED <<pubver, listenVars>>,
             Published' = Published, Listens(i) => runtime'[i] = runtime[i]
      PROVE  hpc'[i] # "off" /\ (Listens(i)' => Goal)
  BY <1>0, <1>1, ListenFrame DEF TypeOK
<1>2. ASSUME NEW r \in Requests,
             \/ TakeSnapshot(r) \/ CreateVersion(r) \/ ChooseVersion(r) \/ Reject(r) \/ LockTarget(r)
             \/ LockScope(r) \/ DeadlockVictim(r) \/ Archive(r)
      PROVE  hpc'[i] # "off" /\ (Listens(i)' => Goal)
  <2>1. /\ \E s \in RequestPc : req' = [req EXCEPT ![r] = s]
        /\ req[r] \notin {"committed", "recorded"} /\ UNCHANGED <<runtime, pubver, listenVars>>
    BY <1>2 DEF RequestPc, TakeSnapshot, CreateVersion, ChooseVersion, Reject, LockTarget, LockScope,
       DeadlockVictim, Archive
  <2>2. UNCHANGED storeVars \/ CreateVersion(r)
    BY <1>2 DEF TakeSnapshot, ChooseVersion, Reject, LockTarget, LockScope, DeadlockVictim, Archive
  <2>3. Published' = Published
    BY <2>2, TableKept
  <2> QED
    BY <1>1, <2>1, <2>3
\* a publication is served by an instance that does more than listen
<1>3. ASSUME NEW r \in Requests, req[r] \notin {"start", "snapped", "done", "failed"}
      PROVE  Listens(i) => i # Home[r]
  BY <1>3 DEF TurnInv, Listens, Publishers, Requests
<1>4. ASSUME NEW r \in Requests, Apply(r) PROVE hpc'[i] # "off" /\ (Listens(i)' => Goal)
  <2>1. /\ req' = [req EXCEPT ![r] = "applied"] /\ req[r] = "created"
        /\ UNCHANGED <<pubver, listenVars>> /\ UNCHANGED storeVars
    BY <1>4 DEF Apply
  <2>2. Listens(i) => runtime'[i] = runtime[i]
    BY <1>0, <1>3, <1>4, <2>1 DEF Apply, TypeOK
  <2>3. Published' = Published
    BY <2>1, TableKept
  <2> QED
    BY <1>1, <2>1, <2>2, <2>3 DEF RequestPc
<1>5. ASSUME NEW r \in Requests, Commit(r) PROVE hpc'[i] # "off" /\ (Listens(i)' => Goal)
  <2>1. req'[r] = "committed" /\ UNCHANGED <<instanceVars, listenVars>>
    BY <1>0, <1>5 DEF Commit, TypeOK
  <2>2. Published' # 0
    BY <1>0, <1>5, CommitStep DEF Versions, TypeOK
  <2> QED
    BY <1>0, <2>1, <2>2 DEF ListenInv, Owed
<1>6. ASSUME NEW r \in Requests, RecordVersion(r) PROVE hpc'[i] # "off" /\ (Listens(i)' => Goal)
  <2>1. /\ req' = [req EXCEPT ![r] = "recorded"] /\ req[r] = "committed"
        /\ UNCHANGED storeVars /\ UNCHANGED <<runtime, listenVars>>
    BY <1>6 DEF RecordVersion
  <2>2. Listens(i) => pubver'[i] = pubver[i]
    BY <1>0, <1>3, <1>6, <2>1 DEF RecordVersion, TypeOK
  <2>3. Published' = Published
    BY <2>1, TableKept
  <2> QED
    BY <1>0, <2>1, <2>2, <2>3, ListenFrame DEF TypeOK
\* the announcement is now in the inbox of everybody else who has subscribed
<1>7. ASSUME NEW r \in Requests, Announce(r) PROVE hpc'[i] # "off" /\ (Listens(i)' => Goal)
  <2>1. /\ req[r] = "recorded"
        /\ UNCHANGED storeVars /\ UNCHANGED <<instanceVars, hpc, hread>>
    BY <1>7 DEF Announce
  <2>2. Listens(i) => inbox'[i] = inbox[i] + 1 /\ inbox[i] \in Nat
    BY <1>0, <1>3, <1>7, <2>1 DEF Announce, Subscribed, TypeOK
  <2>3. Listens(i) => inbox'[i] > 0
    BY <2>2
  <2>4. Published' = Published
    BY <2>1, TableKept
  <2> QED
    BY <1>0, <2>1, <2>3, <2>4 DEF ListenInv, Owed
\* the listeners
<1>8. ASSUME NEW j \in Instances, ListenerStep(j) PROVE hpc'[i] # "off" /\ (Listens(i)' => Goal)
  <2>1. UNCHANGED storeVars /\ UNCHANGED requestVars
    BY <1>8 DEF ListenerStep, Receive, Skip, Reload, Reloaded, Subscribe
  <2>2. Published' = Published
    BY <2>1, TableKept
  <2>3. CASE j # i
    <3>1. /\ inbox'[i] = inbox[i] /\ hpc'[i] = hpc[i] /\ hread'[i] = hread[i]
          /\ runtime'[i] = runtime[i] /\ pubver'[i] = pubver[i]
      BY <1>0, <1>8, <2>3 DEF ListenerStep, Receive, Skip, Reload, Reloaded, Subscribe, TypeOK
    <3> QED
      BY <1>0, <2>1, <2>2, <3>1, ListenFrame
  <2>4. CASE Receive(i)
    <3>1. /\ hpc[i] = "idle" /\ hpc'[i] = "read" /\ hread'[i] = Published
          /\ runtime' = runtime /\ pubver' = pubver
      BY <1>0, <2>4 DEF Receive, TypeOK
    <3> QED
      BY <1>0, <2>2, <3>1 DEF ListenInv, Owed
  <2>5. CASE Skip(i)
    <3>1. /\ hpc[i] = "read" /\ hpc'[i] = "idle" /\ (hread[i] = 0 \/ hread[i] = pubver[i])
          /\ UNCHANGED <<inbox, hread, runtime, pubver>>
      BY <1>0, <2>5 DEF Skip, Current, TypeOK
    <3> QED
      BY <1>0, <2>1, <2>2, <3>1 DEF ListenInv, Owed, InStep
  <2>6. CASE Reload(i)
    <3>1. /\ hpc[i] = "read" /\ hpc'[i] = "reloaded" /\ runtime'[i] = hread[i] /\ hread[i] # 0
          /\ UNCHANGED <<inbox, hread, pubver>>
      BY <1>0, <2>6 DEF Reload, Current, TypeOK
    <3> QED
      BY <1>0, <2>1, <2>2, <3>1 DEF ListenInv, Owed, InStep
  <2>7. CASE Reloaded(i)
    <3>1. /\ hpc[i] = "reloaded" /\ hpc'[i] = "idle" /\ pubver'[i] = hread[i]
          /\ UNCHANGED <<inbox, hread, runtime>>
      BY <1>0, <2>7 DEF Reloaded, TypeOK
    <3> QED
      BY <1>0, <2>1, <2>2, <3>1 DEF ListenInv, Owed, InStep
  <2>8. ~Subscribe(i)
    BY <1>0 DEF Subscribe
  <2> QED
    BY <1>8, <2>3, <2>4, <2>5, <2>6, <2>7, <2>8 DEF ListenerStep
<1> QED
  BY <1>0, <1>2, <1>4, <1>5, <1>6, <1>7, <1>8 DEF Next, RequestStep

-----------------------------------------------------------------------------
(* An instance that serves all publications of one administrator *)

\* In a serial scenario the request that takes a step is the only one under way.
LEMMA OnlyOne ==
  ASSUME TurnInv, env.serial, NEW r \in Requests, InFlight(r) \/ MayStart(r)
  PROVE  \A s \in Requests \ {r} : ~InFlight(s)
BY DEF TurnInv, MayStart

LEMMA ServePreserved ==
  ASSUME IInv, TurnInv, ServeInv, Next
  PROVE  ServeInv'
<1> DEFINE Serves(i) ==
      /\ inbox[i] = 0 /\ hpc[i] = "idle"
      /\ (\A r \in Publishers : req[r] \notin Applied) => runtime[i] = Published
      /\ (\A r \in Publishers : req[r] \notin Applied \cup {"committed"}) => pubver[i] = Published
      /\ \A r \in Publishers :
           /\ req[r] \in Applied => runtime[i] = ver[r]
           /\ req[r] \in {"committed", "recorded"} => Published = ver[r]
<1> SUFFICES ASSUME env.serial, FaultFree', NEW i \in Instances, ServesAll(i)' PROVE Serves(i)'
  BY DEF ServeInv, Next
<1>0. /\ TypeOK /\ ServesAll(i) /\ Serves(i) /\ Publishers \subseteq Requests
      /\ ~\E r \in Requests : Error(r)
      /\ ~\E j \in Instances : HandlerError(j) \/ Restart(j)
  BY FaultStep, BegunStep DEF IInv, ServeInv, Publishers, Requests
<1> USE DEF storeVars, instanceVars, listenVars, requestVars, Goto
\* a step of the request that is under way
<1>1. ASSUME NEW r \in Requests, InFlight(r) \/ MayStart(r), UNCHANGED storeVars \/ CreateVersion(r),
             UNCHANGED <<instanceVars, listenVars>>, \A s \in Requests \ {r} : req'[s] = req[s] /\ ver'[s] = ver[s],
             \/ {req[r], req'[r]} \cap (Applied \cup {"committed", "recorded"}) = {}
             \/ {req[r], req'[r]} \subseteq Applied /\ ver' = ver
      PROVE  Serves(i)'
  <2>1. Published' = Published
    BY <1>1, TableKept
  <2>2. \A s \in Requests \ {r} : ~InFlight(s) /\ req[s] \notin Applied \cup {"committed", "recorded"}
    BY <1>1, OnlyOne DEF InFlight, Applied
  <2> QED
    BY <1>0, <1>1, <2>1, <2>2 DEF Applied
<1>2. ASSUME NEW r \in Requests, TakeSnapshot(r) \/ CreateVersion(r) \/ ChooseVersion(r) \/ Reject(r)
      PROVE  Serves(i)'
  <2>1. /\ InFlight(r) \/ MayStart(r)
        /\ UNCHANGED storeVars \/ CreateVersion(r)
        /\ UNCHANGED <<instanceVars, listenVars>>
    BY <1>2 DEF InFlight, TakeSnapshot, CreateVersion, ChooseVersion, Reject
  <2>2. /\ \A s \in Requests \ {r} : req'[s] = req[s] /\ ver'[s] = ver[s]
        /\ {req[r], req'[r]} \cap (Applied \cup {"committed", "recorded"}) = {}
    BY <1>0, <1>2 DEF TakeSnapshot, CreateVersion, ChooseVersion, Reject, TypeOK, Applied
  <2> QED
    BY <1>1, <2>1, <2>2
<1>3. ASSUME NEW r \in Requests, LockTarget(r) \/ LockScope(r) \/ Archive(r) PROVE Serves(i)'
  <2>1. InFlight(r) /\ UNCHANGED storeVars /\ UNCHANGED <<instanceVars, listenVars, ver>>
    BY <1>3 DEF InFlight, LockTarget, LockScope, Archive
  <2>2. /\ \A s \in Requests \ {r} : req'[s] = req[s]
        /\ {req[r], req'[r]} \subseteq Applied
    BY <1>0, <1>3 DEF LockTarget, LockScope, Archive, TypeOK, Applied
  <2> QED
    BY <1>1, <2>1, <2>2
\* nobody else waits for a lock
<1>4. ASSUME NEW r \in Requests, DeadlockVictim(r) PROVE FALSE
  <2>1. InFlight(r) /\ \E s \in Requests \ {r} : InFlight(s)
    BY <1>4 DEF DeadlockVictim, InFlight
  <2> QED
    BY <2>1, OnlyOne
\* a publication is served by this instance
<1>5. ASSUME NEW r \in Requests, req[r] \notin {"start", "snapped", "done", "failed"}
      PROVE  /\ r \in Publishers /\ Home[r] = i
             /\ \A s \in Requests \ {r} : req[s] \notin Applied \cup {"committed", "recorded"}
  <2>1. InFlight(r) /\ r \in Publishers
    BY <1>5 DEF TurnInv, InFlight, Publishers, Requests
  <2> QED
    BY <1>0, <1>5, <2>1, OnlyOne DEF ServesAll, InFlight, Applied
<1>6. ASSUME NEW r \in Requests, Apply(r) PROVE Serves(i)'
  <2>1. /\ req[r] = "created" /\ req'[r] = "applied" /\ \A s \in Requests \ {r} : req'[s] = req[s]
        /\ UNCHANGED <<inbox, hpc, ver>>
    BY <1>0, <1>6 DEF Apply, TypeOK
  <2>2. runtime'[i] = ver[r]
    BY <1>0, <1>5, <1>6, <2>1 DEF Apply, TypeOK
  <2> QED
    BY <1>0, <1>5, <2>1, <2>2 DEF Applied
<1>7. ASSUME NEW r \in Requests, Commit(r) PROVE Serves(i)'
  <2>1. /\ req[r] = "archived" /\ req'[r] = "committed" /\ \A s \in Requests \ {r} : req'[s] = req[s]
        /\ UNCHANGED <<inbox, hpc, ver, runtime>>
    BY <1>0, <1>7 DEF Commit, TypeOK
  <2>2. Published' = ver[r]
    BY <1>7, CommitStep
  <2>3. runtime[i] = ver[r]
    BY <1>0, <1>5, <2>1 DEF Applied
  <2> QED
    BY <1>0, <1>5, <2>1, <2>2, <2>3 DEF Applied
<1>8. ASSUME NEW r \in Requests, RecordVersion(r) PROVE Serves(i)'
  <2>1. /\ req[r] = "committed" /\ req'[r] = "recorded" /\ \A s \in Requests \ {r} : req'[s] = req[s]
        /\ UNCHANGED <<inbox, hpc, ver, runtime>> /\ UNCHANGED storeVars
    BY <1>0, <1>8 DEF RecordVersion, TypeOK
  <2>2. Published' = Published
    BY <2>1, TableKept
  <2>3. pubver'[i] = ver[r]
    BY <1>0, <1>5, <1>8, <2>1 DEF RecordVersion, TypeOK
  <2> QED
    BY <1>0, <1>5, <2>1, <2>2, <2>3 DEF Applied
<1>9. ASSUME NEW r \in Requests, Announce(r) PROVE Serves(i)'
  <2>1. /\ req[r] = "recorded" /\ req'[r] = "done" /\ \A s \in Requests \ {r} : req'[s] = req[s]
        /\ UNCHANGED <<hpc, ver, runtime, pubver>> /\ UNCHANGED storeVars
    BY <1>0, <1>9 DEF Announce, TypeOK
  <2>2. Published' = Published
    BY <2>1, TableKept
  <2>3. inbox'[i] = inbox[i]
    BY <1>0, <1>5, <1>9, <2>1 DEF Announce
  <2> QED
    BY <1>0, <1>5, <2>1, <2>2, <2>3 DEF Applied
\* it has nothing to listen to
<1>10. ASSUME NEW j \in Instances, ListenerStep(j) PROVE Serves(i)'
  <2>1. UNCHANGED storeVars /\ UNCHANGED requestVars
    BY <1>10 DEF ListenerStep, Receive, Skip, Reload, Reloaded, Subscribe
  <2>2. Published' = Published
    BY <2>1, TableKept
  <2>3. j # i
    BY <1>0, <1>10 DEF ListenerStep, Receive, Skip, Reload, Reloaded, Subscribe
  <2>4. inbox'[i] = inbox[i] /\ hpc'[i] = hpc[i] /\ runtime'[i] = runtime[i] /\ pubver'[i] = pubver[i]
    BY <1>0, <1>10, <2>3 DEF ListenerStep, Receive, Skip, Reload, Reloaded, Subscribe, TypeOK
  <2> QED
    BY <1>0, <2>1, <2>2, <2>4
<1> QED
  BY <1>0, <1>2, <1>3, <1>4, <1>6, <1>7, <1>8, <1>9, <1>10 DEF Next, RequestStep

-----------------------------------------------------------------------------
(* What the published configuration contains *)

LEMMA KeepPreserved ==
  ASSUME IInv, TurnInv, ServeInv, KeepInv, Next
  PROVE  KeepInv'
<1> DEFINE Keeps ==
      /\ \A u \in Updates : req[u] = "done" => u \in ConfigOf(Published)
      /\ \A q \in Updates : InFlight(q) =>
           /\ q \in cand[q] /\ \A u \in Updates : req[u] = "done" => u \in cand[q]
           /\ req[q] # "snapped" => values[ver[q]] = cand[q]
<1> SUFFICES ASSUME env.serial, FaultFree', NothingRolledBack', NEW i \in Instances, ServesAll(i)'
             PROVE  Keeps'
  BY DEF KeepInv, Next
<1>0. /\ TypeOK /\ LockInv /\ ServesAll(i) /\ NothingRolledBack /\ FaultFree /\ Keeps
      /\ Updates \subseteq Requests /\ Updates \subseteq Publishers /\ Publishers \subseteq Requests
      /\ ~\E r \in Requests : Error(r)
      /\ ~\E j \in Instances : HandlerError(j) \/ Restart(j)
  BY FaultStep, BegunStep DEF IInv, KeepInv, Publishers, Requests
<1> USE DEF storeVars, instanceVars, listenVars, requestVars, Goto
\* a step of the request that is under way and does not answer it
<1>1. ASSUME NEW r \in Requests, UNCHANGED <<cand, ver>>, UNCHANGED storeVars, InFlight(r),
             \A s \in Requests \ {r} : req'[s] = req[s], req'[r] = "failed" \/ req[r] # "snapped",
             req'[r] \notin {"snapped", "done"}
      PROVE  Keeps'
  <2>1. ConfigOf(Published)' = ConfigOf(Published)
    BY <1>1, TableKept
  <2>2. \A s \in Requests : InFlight(s)' => InFlight(s)
    BY <1>1 DEF InFlight
  <2> QED
    BY <1>0, <1>1, <2>1, <2>2 DEF InFlight
<1>2. ASSUME NEW r \in Requests, TakeSnapshot(r) PROVE Keeps'
  <2>1. /\ req[r] = "start" /\ req'[r] = "snapped" /\ \A s \in Requests \ {r} : req'[s] = req[s]
        /\ \A s \in Requests \ {r} : cand'[s] = cand[s]
        /\ cand'[r] = ConfigOf(runtime[Home[r]]) \cup {r}
        /\ UNCHANGED storeVars /\ UNCHANGED ver /\ MayStart(r)
    BY <1>0, <1>2 DEF TakeSnapshot, Snapshot, TypeOK
  <2>2. ConfigOf(Published)' = ConfigOf(Published)
    BY <2>1, TableKept
  <2>3. \A s \in Requests : req[s] \notin Applied
    BY <2>1, OnlyOne DEF InFlight, Applied
  <2>4. r \in Updates => cand'[r] = ConfigOf(Published) \cup {r}
    <3>1. r \in Updates => Home[r] = i
      BY <1>0, <2>1, BegunStep DEF ServesAll
    <3>2. runtime[i] = Published
      BY <1>0, <2>3 DEF ServeInv
    <3> QED
      BY <2>1, <3>1, <3>2
  <2>5. \A s \in Requests \ {r} : ~InFlight(s)
    BY <2>1, OnlyOne
  <2> QED
    BY <1>0, <2>1, <2>2, <2>4, <2>5 DEF InFlight
<1>3. ASSUME NEW r \in Requests, CreateVersion(r) PROVE Keeps'
  <2>1. /\ req[r] = "snapped" /\ \A s \in Requests \ {r} : req'[s] = req[s] /\ ver'[s] = ver[s]
        /\ r \in Updates => req'[r] = "created"
        /\ ver'[r] = latest + 1 /\ latest \in Nat /\ UNCHANGED cand
    BY <1>0, <1>3, RequestsAssumption DEF CreateVersion, TypeOK
  <2>2. values'[latest + 1] = cand[r]
    BY <1>3, <2>1 DEF CreateVersion
  <2>3. ConfigOf(Published)' = ConfigOf(Published)
    BY <1>3, TableKept
  <2>4. \A s \in Requests \ {r} : ~InFlight(s)
    BY <2>1, OnlyOne DEF InFlight
  <2> QED
    BY <1>0, <2>1, <2>2, <2>3, <2>4 DEF InFlight
<1>4. ASSUME NEW r \in Requests, ChooseVersion(r) PROVE FALSE
  <2>1. r \in Rollbacks /\ req'[r] = "created"
    BY <1>0, <1>4 DEF ChooseVersion, TypeOK
  <2> QED
    BY <2>1 DEF NothingRolledBack
<1>5. ASSUME NEW r \in Requests,
             \/ Apply(r) \/ Reject(r) \/ LockTarget(r) \/ LockScope(r) \/ DeadlockVictim(r)
             \/ Archive(r) \/ RecordVersion(r)
      PROVE  Keeps'
  <2>1. UNCHANGED <<cand, ver>> /\ UNCHANGED storeVars /\ InFlight(r) /\ req[r] # "snapped"
    BY <1>5 DEF InFlight, Apply, Reject, LockTarget, LockScope, DeadlockVictim, Archive, RecordVersion
  <2>2. /\ \A s \in Requests \ {r} : req'[s] = req[s]
        /\ req'[r] \notin {"snapped", "done"}
    BY <1>0, <1>5
       DEF Apply, Reject, LockTarget, LockScope, DeadlockVictim, Archive, RecordVersion, TypeOK
  <2> QED
    BY <1>1, <2>1, <2>2
\* a publication is that of an update
<1>6. ASSUME NEW r \in Requests, req[r] \notin {"start", "snapped", "done", "failed"}
      PROVE  r \in Updates /\ InFlight(r) /\ \A s \in Requests \ {r} : ~InFlight(s)
  <2>1. InFlight(r) /\ r \in Updates
    BY <1>0, <1>6 DEF TurnInv, InFlight, NothingRolledBack, Requests
  <2> QED
    BY <2>1, OnlyOne
<1>7. ASSUME NEW r \in Requests, Commit(r) PROVE Keeps'
  <2>1. /\ req[r] = "archived" /\ req'[r] = "committed" /\ \A s \in Requests \ {r} : req'[s] = req[s]
        /\ UNCHANGED <<cand, ver>>
    BY <1>0, <1>7 DEF Commit, TypeOK
  <2>2. Published' = ver[r] /\ ver[r] # 0 /\ values' = values
    BY <1>0, <1>7, CommitStep DEF Versions, TypeOK
  <2>3. ConfigOf(Published)' = cand[r]
    BY <1>0, <1>6, <2>1, <2>2 DEF ConfigOf
  <2> QED
    BY <1>0, <1>6, <2>1, <2>2, <2>3 DEF InFlight
<1>8. ASSUME NEW r \in Requests, Announce(r) PROVE Keeps'
  <2>1. /\ req[r] = "recorded" /\ req'[r] = "done" /\ \A s \in Requests \ {r} : req'[s] = req[s]
        /\ UNCHANGED <<cand, ver>> /\ UNCHANGED storeVars
    BY <1>0, <1>8 DEF Announce, TypeOK
  <2>2. ConfigOf(Published)' = ConfigOf(Published)
    BY <2>1, TableKept
  <2>3. Published = ver[r]
    BY <1>0, <1>6, <2>1 DEF ServeInv
  <2>4. ver[r] # 0
    BY <1>0, <2>1 DEF LockInv, Versions, TypeOK
  <2>5. ConfigOf(Published) = cand[r] /\ r \in cand[r]
    BY <1>0, <1>6, <2>1, <2>3, <2>4 DEF ConfigOf
  <2> QED
    BY <1>0, <1>6, <2>1, <2>2, <2>5 DEF InFlight
<1>9. ASSUME NEW j \in Instances, ListenerStep(j) PROVE Keeps'
  <2>1. UNCHANGED storeVars /\ UNCHANGED requestVars
    BY <1>9 DEF ListenerStep, Receive, Skip, Reload, Reloaded, Subscribe
  <2>2. ConfigOf(Published)' = ConfigOf(Published)
    BY <2>1, TableKept
  <2> QED
    BY <1>0, <2>1, <2>2 DEF InFlight
<1> QED
  BY <1>0, <1>2, <1>3, <1>4, <1>5, <1>7, <1>8, <1>9 DEF Next, RequestStep

-----------------------------------------------------------------------------
(* The theorems *)

\* In every reachable state of a behaviour without faults, an instance that only
\* listens runs the published version or will be told of it; and where one
\* administrator publishes on one instance, that one runs what it has published,
\* which contains all that has been answered.
THEOREM ConvergeInvariance == Spec => []ConvergeInv
<1>1. ASSUME ConvergeInv, [Next]_vars, IInv' PROVE ConvergeInv'
  <2>1. CASE Next
    BY <1>1, <2>1, TurnPreserved, ListenPreserved, ServePreserved, KeepPreserved DEF ConvergeInv
  <2>2. CASE UNCHANGED vars
    <3> USE <1>1, <2>2 DEF ConvergeInv, vars, storeVars, instanceVars, listenVars, requestVars
    <3>1. /\ UNCHANGED <<env, latest, status, values, runtime, pubver, inbox, hpc, hread, req, cand>>
          /\ UNCHANGED <<ver, held, old, faults>>
      OBVIOUS
    <3> HIDE DEF vars, storeVars, instanceVars, listenVars, requestVars
    <3>2. Published' = Published /\ ConfigOf(Published)' = ConfigOf(Published)
      BY <3>1 DEF Published, PublishedRows, Versions, ConfigOf
    <3>3. FaultFree' = FaultFree /\ \A i \in Instances : ServesAll(i)' = ServesAll(i)
      BY <3>1 DEF FaultFree, ServesAll
    <3>4. TurnInv'
      BY <3>1 DEF TurnInv, InFlight
    <3>5. ListenInv'
      BY <3>1, <3>2, <3>3 DEF ListenInv, Listens, Owed, InStep
    <3>6. ServeInv'
      BY <3>1, <3>2, <3>3 DEF ServeInv
    <3>7. KeepInv'
      BY <3>1, <3>2, <3>3 DEF KeepInv, NothingRolledBack, InFlight
    <3> QED
      BY <3>4, <3>5, <3>6, <3>7
  <2> QED
    BY <1>1, <2>1, <2>2
<1> QED
  BY Invariance, InitConverge, <1>1, PTL DEF Spec

\* However publications overtake each other and roll each other back on any number
\* of instances, an instance that only listens ends with the published version if no
\* event was lost (_handle_config_event, RedisConfigBus).
THEOREM ListenersConvergeHolds == Spec => []ListenersConverge
<1>1. ASSUME ConvergeInv, Quiet, FaultFree, NEW i \in Instances, Listens(i) PROVE InStep(i)
  <2>1. hpc[i] = "idle" /\ inbox[i] = 0 /\ \A r \in Requests : req[r] \notin {"committed", "recorded"}
    BY <1>1 DEF Quiet, InFlight
  <2> QED
    BY <1>1, <2>1 DEF ConvergeInv, ListenInv, Owed
<1>2. ConvergeInv => ListenersConverge
  BY <1>1 DEF ListenersConverge
<1> QED
  BY ConvergeInvariance, <1>2, PTL

\* While one administrator publishes on one instance, all instances run the
\* published version once events are handled, also after roll-backs (publish_config,
\* update_runtime, _handle_config_event).
THEOREM SerialConvergedHolds == Spec => []SerialConverged
<1>1. ASSUME ConvergeInv, Undisturbed, Quiet, NEW i \in Instances PROVE InStep(i)
  <2>1. ListenersConverge
    BY <1>1 DEF ConvergeInv, ListenersConverge, Quiet, ListenInv, Owed, InFlight
  <2>2. CASE ServesAll(i)
    <3>1. \A r \in Publishers : req[r] \notin Applied \cup {"committed"}
      BY <1>1 DEF Quiet, InFlight, Applied, Publishers, Requests
    <3> QED
      BY <1>1, <2>2, <3>1 DEF ConvergeInv, ServeInv, Undisturbed, InStep
  <2>3. CASE ~ServesAll(i)
    <3>1. PICK q \in Publishers : req[q] # "start" /\ Home[q] # i
      BY <2>3 DEF ServesAll
    <3>2. Listens(i)
      BY <1>1, <3>1 DEF Undisturbed, Listens
    <3> QED
      BY <1>1, <2>1, <3>2 DEF Undisturbed, ListenersConverge
  <2> QED
    BY <2>2, <2>3
<1>2. ConvergeInv => SerialConverged
  BY <1>1 DEF SerialConverged, Converged
<1> QED
  BY ConvergeInvariance, <1>2, PTL

\* For one administrator on one instance the published snapshot contains every
\* update that has been answered (runtime_snapshot, create_and_publish_runtime).
THEOREM NoChangeLostHolds == Spec => []NoChangeLost
<1>1. ASSUME ConvergeInv, Undisturbed, NothingRolledBack, NEW u \in Updates, req[u] = "done"
      PROVE  u \in ConfigOf(Published)
  <2>1. ServesAll(Home[u]) /\ Home[u] \in Instances
    BY <1>1, RequestsAssumption DEF Undisturbed, ServesAll, Publishers, Requests
  <2> QED
    BY <1>1, <2>1 DEF ConvergeInv, KeepInv, Undisturbed
<1>2. ConvergeInv => NoChangeLost
  BY <1>1 DEF NoChangeLost
<1> QED
  BY ConvergeInvariance, <1>2, PTL

=============================================================================
