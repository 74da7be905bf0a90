---------------------------- MODULE ConfigPublish ----------------------------
(***************************************************************************)
(* Publishing the platform's runtime configuration: the config_versions    *)
(* table (SqlAlchemyConfigRepository on PostgreSQL), the requests that     *)
(* create, publish and roll back versions (AppContainer), the Redis        *)
(* Pub/Sub bus (RedisConfigBus) and the listener with which every other    *)
(* API instance reloads.                                                   *)
(*                                                                         *)
(* One action is what runs between two awaits of a coroutine, or one       *)
(* statement of the publishing transaction. A configuration is the set of  *)
(* updates it contains; an instance runs the configuration of a version.   *)
(***************************************************************************)
EXTENDS Naturals, FiniteSets

CONSTANTS
  Instances,   \* API processes
  Updates,     \* PATCH /runtime requests
  Drafts,      \* POST /config-versions requests
  Rollbacks,   \* POST /config-versions/{id}/publish requests
  Home,        \* the instance that serves each request
  Restarting,  \* the instances that may restart
  Scenarios    \* the surroundings of a behaviour, see Scenario

Requests == Updates \cup Drafts \cup Rollbacks

\* serial: there is one administrator, who waits for each answer; sent: the requests
\* that may come; errors, restarts: bounds of the exceptions of the database or of
\* Redis and of the restarts of instances
Scenario == [serial : BOOLEAN, sent : SUBSET Requests, errors : Nat, restarts : Nat]

ASSUME RequestsAssumption ==
  /\ Updates \cap Drafts = {} /\ Updates \cap Rollbacks = {} /\ Drafts \cap Rollbacks = {}
  /\ Home \in [Requests -> Instances]
ASSUME ScenariosAssumption == Restarting \subseteq Instances /\ \A e \in Scenarios : e \in Scenario

VARIABLES
  env,      \* the scenario: constant in a behaviour
  latest,   \* the highest version number
  status,   \* config_versions.status of each version
  values,   \* config_versions.config_values of each version
  runtime,  \* the version each instance's settings and workflow come from; 0: its environment
  pubver,   \* container.published_config_version of each instance; 0 is None
  inbox,    \* how many events each instance's subscription has still to deliver
  hpc,      \* where each instance's listener is; "off" before it has subscribed
  hread,    \* the published version the listener has read; 0 is None
  req,      \* where each request is
  cand,     \* the configuration each request wants to store
  ver,      \* the version each request publishes
  held,     \* the rows each request's transaction has locked
  old,      \* the rows its first UPDATE has archived
  faults    \* exceptions and restarts so far

storeVars == <<latest, status, values>>
instanceVars == <<runtime, pubver>>
listenVars == <<inbox, hpc, hread>>
requestVars == <<req, cand, ver, held, old>>
vars == <<env, storeVars, instanceVars, listenVars, requestVars, faults>>

Versions == 1..latest
RequestPc == {"start", "snapped", "created", "applied", "target", "locked", "archived",
              "committed", "recorded", "done", "failed"}
ListenPc == {"off", "idle", "read", "reloaded"}

Init ==
  /\ env \in Scenarios
  /\ latest = 0 /\ status = [v \in {} |-> "draft"] /\ values = [v \in {} |-> {}]
  /\ runtime = [i \in Instances |-> 0] /\ pubver = [i \in Instances |-> 0]
  /\ inbox = [i \in Instances |-> 0]
  /\ hpc = [i \in Instances |-> "idle"] /\ hread = [i \in Instances |-> 0]
  /\ req = [r \in Requests |-> "start"] /\ cand = [r \in Requests |-> {}]
  /\ ver = [r \in Requests |-> 0]
  /\ held = [r \in Requests |-> {}] /\ old = [r \in Requests |-> {}]
  /\ faults = [error |-> 0, restart |-> 0]

\* repository.published(): the first row whose status says so
PublishedRows == {v \in Versions : status[v] = "published"}
Published == IF PublishedRows = {} THEN 0 ELSE CHOOSE v \in PublishedRows : TRUE

ConfigOf(v) == IF v = 0 THEN {} ELSE values[v]

InFlight(r) == req[r] \notin {"start", "done", "failed"}
MayStart(r) == r \in env.sent /\ (env.serial => \A s \in Requests : ~InFlight(s))

Goto(r, s) == req' = [req EXCEPT ![r] = s]

\* fault: the connection goes back to the pool with its transaction open
BadUnlock(r) == UNCHANGED held

Unlock(r) == held' = [held EXCEPT ![r] = {}]

-----------------------------------------------------------------------------
(* Creating versions *)

\* fault: only the fields of the request are stored
BadSnapshot(r) == {r}

\* runtime_snapshot: everything this instance runs, and the change on top of it
Snapshot(r) == ConfigOf(runtime[Home[r]]) \cup {r}

TakeSnapshot(r) ==
  /\ r \in Updates \cup Drafts /\ req[r] = "start" /\ MayStart(r)
  /\ cand' = [cand EXCEPT ![r] = Snapshot(r)]
  /\ Goto(r, "snapped")
  /\ UNCHANGED <<storeVars, instanceVars, listenVars, ver, held, old, faults>>

\* The unique constraint on (scope, version) and the retry make max + 1 a fresh
\* number; a draft request ends here.
CreateVersion(r) ==
  /\ req[r] = "snapped"
  /\ latest' = latest + 1
  /\ status' = [v \in 1..(latest + 1) |-> IF v = latest + 1 THEN "draft" ELSE status[v]]
  /\ values' = [v \in 1..(latest + 1) |-> IF v = latest + 1 THEN cand[r] ELSE values[v]]
  /\ ver' = [ver EXCEPT ![r] = latest + 1]
  /\ Goto(r, IF r \in Drafts THEN "done" ELSE "created")
  /\ UNCHANGED <<instanceVars, listenVars, cand, held, old, faults>>

\* publish_config finds the version in the list
ChooseVersion(r) ==
  /\ r \in Rollbacks /\ req[r] = "start" /\ MayStart(r)
  /\ \E v \in Versions : ver' = [ver EXCEPT ![r] = v]
  /\ Goto(r, "created")
  /\ UNCHANGED <<storeVars, instanceVars, listenVars, cand, held, old, faults>>

-----------------------------------------------------------------------------
(* Publishing: this instance first, then the table, then the others *)

\* update_runtime replaces settings, workflow and clients without an await
Apply(r) ==
  /\ req[r] = "created"
  /\ runtime' = [runtime EXCEPT ![Home[r]] = ver[r]]
  /\ Goto(r, "applied")
  /\ UNCHANGED <<storeVars, pubver, listenVars, cand, ver, held, old, faults>>

\* or raises, having put the old settings back
Reject(r) ==
  /\ req[r] = "created"
  /\ Goto(r, "failed")
  /\ UNCHANGED <<storeVars, instanceVars, listenVars, cand, ver, held, old, faults>>

\* fault: SELECT without FOR UPDATE
BadUnlocked(r, rows) == TRUE

\* rows no other transaction has locked
Unlocked(r, rows) == \A s \in Requests \ {r} : held[s] \cap rows = {}

\* repository.publish: SELECT ... FOR UPDATE of the target row
LockTarget(r) ==
  /\ req[r] = "applied"
  /\ Unlocked(r, {ver[r]})
  /\ held' = [held EXCEPT ![r] = {ver[r]}]
  /\ Goto(r, "target")
  /\ UNCHANGED <<storeVars, instanceVars, listenVars, cand, ver, old, faults>>

\* SELECT ... FOR UPDATE of every row of the scope
LockScope(r) ==
  /\ req[r] = "target"
  /\ Unlocked(r, Versions)
  /\ held' = [held EXCEPT ![r] = Versions]
  /\ Goto(r, "locked")
  /\ UNCHANGED <<storeVars, instanceVars, listenVars, cand, ver, old, faults>>

\* Two transactions that hold their targets wait for each other: PostgreSQL
\* aborts one of them, and the request fails.
DeadlockVictim(r) ==
  /\ req[r] = "target"
  /\ \E s \in Requests \ {r} : req[s] = "target"
  /\ Unlock(r) /\ Goto(r, "failed")
  /\ UNCHANGED <<storeVars, instanceVars, listenVars, cand, ver, old, faults>>

\* UPDATE ... SET status = 'archived' WHERE status = 'published', not visible yet
Archive(r) ==
  /\ req[r] = "locked"
  /\ old' = [old EXCEPT ![r] = PublishedRows]
  /\ Goto(r, "archived")
  /\ UNCHANGED <<storeVars, instanceVars, listenVars, cand, ver, held, faults>>

\* UPDATE of the target, and COMMIT
Commit(r) ==
  /\ req[r] = "archived"
  /\ status' = [v \in Versions |-> IF v = ver[r] THEN "published"
                                   ELSE IF v \in old[r] THEN "archived" ELSE status[v]]
  /\ Unlock(r) /\ Goto(r, "committed")
  /\ UNCHANGED <<latest, values, instanceVars, listenVars, cand, ver, old, faults>>

RecordVersion(r) ==
  /\ req[r] = "committed"
  /\ pubver' = [pubver EXCEPT ![Home[r]] = ver[r]]
  /\ Goto(r, "recorded")
  /\ UNCHANGED <<storeVars, runtime, listenVars, cand, ver, held, old, faults>>

\* fault: a listener that is handling an event misses the next one
BadSubscribed(i) == hpc[i] = "idle"

Subscribed(i) == hpc[i] # "off"

\* Pub/Sub reaches who has subscribed; an instance ignores its own events.
Announce(r) ==
  /\ req[r] = "recorded"
  /\ inbox' = [i \in Instances |-> IF i # Home[r] /\ Subscribed(i) THEN inbox[i] + 1 ELSE inbox[i]]
  /\ Goto(r, "done")
  /\ UNCHANGED <<storeVars, instanceVars, hpc, hread, cand, ver, held, old, faults>>

\* The database or Redis raises: the transaction is rolled back, nothing else is.
Error(r) ==
  /\ req[r] \in {"snapped", "applied", "target", "locked", "archived", "recorded"}
  /\ faults.error < env.errors /\ faults' = [faults EXCEPT !.error = @ + 1]
  /\ Unlock(r) /\ Goto(r, "failed")
  /\ UNCHANGED <<storeVars, instanceVars, listenVars, cand, ver, old>>

-----------------------------------------------------------------------------
(* The listener of an instance: one event at a time *)

\* the handler's read of the published version, in a thread
Receive(i) ==
  /\ hpc[i] = "idle" /\ inbox[i] > 0
  /\ inbox' = [inbox EXCEPT ![i] = @ - 1]
  /\ hread' = [hread EXCEPT ![i] = Published]
  /\ hpc' = [hpc EXCEPT ![i] = "read"]
  /\ UNCHANGED <<storeVars, instanceVars, requestVars, faults>>

\* fault: only higher versions are loaded
BadCurrent(i) == hread[i] <= pubver[i]

Current(i) == hread[i] = 0 \/ hread[i] = pubver[i]

Skip(i) ==
  /\ hpc[i] = "read" /\ Current(i)
  /\ hpc' = [hpc EXCEPT ![i] = "idle"]
  /\ UNCHANGED <<storeVars, instanceVars, inbox, hread, requestVars, faults>>

Reload(i) ==
  /\ hpc[i] = "read" /\ ~Current(i)
  /\ runtime' = [runtime EXCEPT ![i] = hread[i]]
  /\ hpc' = [hpc EXCEPT ![i] = "reloaded"]
  /\ UNCHANGED <<storeVars, pubver, inbox, hread, requestVars, faults>>

\* update_runtime has closed the old clients
Reloaded(i) ==
  /\ hpc[i] = "reloaded"
  /\ pubver' = [pubver EXCEPT ![i] = hread[i]]
  /\ hpc' = [hpc EXCEPT ![i] = "idle"]
  /\ UNCHANGED <<storeVars, runtime, inbox, hread, requestVars, faults>>

\* an exception in the handler is logged and the event is gone
HandlerError(i) ==
  /\ hpc[i] = "idle" /\ inbox[i] > 0
  /\ faults.error < env.errors /\ faults' = [faults EXCEPT !.error = @ + 1]
  /\ inbox' = [inbox EXCEPT ![i] = @ - 1]
  /\ UNCHANGED <<storeVars, instanceVars, hpc, hread, requestVars>>

\* The process dies and build_container restores what is published.
Restart(i) ==
  /\ i \in Restarting
  /\ faults.restart < env.restarts /\ faults' = [faults EXCEPT !.restart = @ + 1]
  /\ runtime' = [runtime EXCEPT ![i] = Published]
  /\ pubver' = [pubver EXCEPT ![i] = Published]
  /\ hpc' = [hpc EXCEPT ![i] = "off"] /\ hread' = [hread EXCEPT ![i] = 0]
  /\ inbox' = [inbox EXCEPT ![i] = 0]
  /\ LET mine == {r \in Requests : Home[r] = i /\ InFlight(r)} IN
       /\ req' = [r \in Requests |-> IF r \in mine THEN "failed" ELSE req[r]]
       /\ held' = [r \in Requests |-> IF r \in mine THEN {} ELSE held[r]]
  /\ UNCHANGED <<storeVars, cand, ver, old>>

\* startup creates the listener's task, which subscribes some time later
Subscribe(i) ==
  /\ hpc[i] = "off"
  /\ hpc' = [hpc EXCEPT ![i] = "idle"]
  /\ UNCHANGED <<storeVars, instanceVars, inbox, hread, requestVars, faults>>

-----------------------------------------------------------------------------

RequestStep(r) ==
  \/ TakeSnapshot(r) \/ CreateVersion(r) \/ ChooseVersion(r)
  \/ Apply(r) \/ Reject(r) \/ LockTarget(r) \/ LockScope(r) \/ DeadlockVictim(r)
  \/ Archive(r) \/ Commit(r) \/ RecordVersion(r) \/ Announce(r)

ListenerStep(i) == Receive(i) \/ Skip(i) \/ Reload(i) \/ Reloaded(i) \/ Subscribe(i)

Next ==
  /\ \/ \E r \in Requests : RequestStep(r) \/ Error(r)
     \/ \E i \in Instances : ListenerStep(i) \/ HandlerError(i) \/ Restart(i)
  /\ UNCHANGED env

Spec == Init /\ [][Next]_vars

\* A request that has begun runs on, the database breaks deadlocks, listeners
\* listen; nobody has to send a request.
Fairness ==
  /\ \A r \in Requests : WF_vars(InFlight(r) /\ RequestStep(r) /\ UNCHANGED env)
  /\ \A i \in Instances : WF_vars(ListenerStep(i) /\ UNCHANGED env)

FairSpec == Spec /\ Fairness

-----------------------------------------------------------------------------

\* The types of all variables.
TypeOK ==
  /\ env \in Scenarios
  /\ latest \in Nat
  /\ status \in [Versions -> {"draft", "published", "archived"}]
  /\ values \in [Versions -> SUBSET (Updates \cup Drafts)]
  /\ runtime \in [Instances -> 0..latest] /\ pubver \in [Instances -> 0..latest]
  /\ inbox \in [Instances -> Nat] /\ hpc \in [Instances -> ListenPc]
  /\ hread \in [Instances -> 0..latest]
  /\ req \in [Requests -> RequestPc] /\ cand \in [Requests -> SUBSET (Updates \cup Drafts)]
  /\ ver \in [Requests -> 0..latest]
  /\ held \in [Requests -> SUBSET Versions] /\ old \in [Requests -> SUBSET Versions]
  /\ faults \in [error : 0..env.errors, restart : 0..env.restarts]

\* However publications interleave, at most one version is published: the row
\* locks keep another commit from slipping between a transaction's archiving
\* and its own commit (SqlAlchemyConfigRepository.publish; memory.py:71).
OnePublished == \A v, w \in PublishedRows : v = w

\* Why: only one transaction at a time is past its second SELECT, and what it
\* has archived is all that is published.
LockInv ==
  /\ \A r \in Requests : req[r] \in {"created", "applied", "target", "locked", "archived",
                                     "committed", "recorded"} => ver[r] \in Versions
  /\ \A r \in Requests : req[r] \in {"target", "locked", "archived"} => ver[r] \in held[r]
  /\ \A r, s \in Requests :
       r # s /\ req[r] \in {"locked", "archived"} => req[s] \notin {"locked", "archived"}
  /\ \A r \in Requests : req[r] = "archived" => PublishedRows \subseteq old[r]

IInv == TypeOK /\ LockInv /\ OnePublished

Quiet ==
  /\ \A r \in Requests : ~InFlight(r)
  /\ \A i \in Instances : hpc[i] = "idle" /\ inbox[i] = 0

InStep(i) == runtime[i] = Published /\ pubver[i] = Published

\* nothing has raised and no instance has restarted so far
FaultFree == faults.error = 0 /\ faults.restart = 0

Publishers == Updates \cup Rollbacks

\* this instance has served no publication so far; it has served all of them
Listens(i) == \A r \in Publishers : Home[r] = i => req[r] = "start"
ServesAll(i) == \A r \in Publishers : req[r] # "start" => Home[r] = i

\* Once all events are handled, and none was lost to an error or a restart, an
\* instance that has served no publication runs the published version, in whatever
\* order publications elsewhere have overtaken each other and rolled each other
\* back (_handle_config_event reads the table instead of trusting the event).
ListenersConverge ==
  Quiet /\ FaultFree => \A i \in Instances : Listens(i) => InStep(i)

\* Once all events are handled, every instance runs the published version.
\* (AppContainer.publish_config, _handle_config_event).
Converged == Quiet /\ Published # 0 => \A i \in Instances : InStep(i)

\* One administrator, who waits for each answer, has published on one instance so
\* far, and nothing has failed.
Undisturbed ==
  /\ env.serial /\ FaultFree
  /\ \A q, r \in Publishers : req[q] # "start" /\ req[r] # "start" => Home[q] = Home[r]

\* So it is as long as one administrator waits for each answer.
SerialConverged == Undisturbed => Converged

NothingRolledBack == \A r \in Rollbacks : req[r] = "start"

\* Publishing complete snapshots takes no earlier update back: for one administrator
\* the published configuration contains every update that has been answered, unless
\* a version was published again (create_and_publish_runtime, runtime_snapshot).
NoChangeLost ==
  Undisturbed /\ NothingRolledBack =>
    \A u \in Updates : req[u] = "done" => u \in ConfigOf(Published)

\* A request that has begun ends, also when transactions deadlock, one of them
\* fails or an instance restarts (SqlAlchemyConfigRepository.publish).
PublishEnds == \A r \in Requests : InFlight(r) ~> ~InFlight(r)

-----------------------------------------------------------------------------
(* Why instances converge and no change is lost *)

\* Creating a draft ends with the version, and the administrator of a serial
\* scenario has one request under way.
TurnInv ==
  /\ \A r \in Drafts : req[r] \in {"start", "snapped", "done", "failed"}
  /\ env.serial => \A q, r \in Requests : InFlight(q) /\ InFlight(r) => q = r

\* A publication that is not announced yet, an event, or what the listener has read
\* will bring this instance the published version.
Owed(i) ==
  \/ \E r \in Requests : req[r] \in {"committed", "recorded"}
  \/ inbox[i] > 0
  \/ hpc[i] \in {"read", "reloaded"} /\ hread[i] = Published

\* An instance that only listens rests on the published version or will be told of it.
ListenInv ==
  FaultFree => \A i \in Instances :
    /\ hpc[i] # "off"
    /\ Listens(i) =>
         /\ Owed(i) \/ (hpc[i] = "idle" /\ InStep(i))
         /\ Published = 0 => runtime[i] = 0 /\ pubver[i] = 0 /\ hread[i] = 0
         /\ runtime[i] = IF hpc[i] = "reloaded" THEN hread[i] ELSE pubver[i]

Applied == {"applied", "target", "locked", "archived"}

\* An instance that serves all publications runs the published version, or the one
\* it is publishing, and has nothing to listen to.
ServeInv ==
  env.serial /\ FaultFree => \A i \in Instances : ServesAll(i) =>
    /\ inbox[i] = 0 /\ hpc[i] = "idle"
    /\ (\A r \in Publishers : req[r] \notin Applied) => runtime[i] = Published
    /\ (\A r \in Publishers : req[r] \notin Applied \cup {"committed"}) => pubver[i] = Published
    /\ \A r \in Publishers :
         /\ req[r] \in Applied => runtime[i] = ver[r]
         /\ req[r] \in {"committed", "recorded"} => Published = ver[r]

\* What is published, and what will be, contains all that has been answered.
KeepInv ==
  env.serial /\ FaultFree /\ NothingRolledBack => \A i \in Instances : ServesAll(i) =>
    /\ \A u \in Updates : req[u] = "done" => u \in ConfigOf(Published)
    /\ \A q \in Updates : InFlight(q) =>
         /\ q \in cand[q] /\ \A u \in Updates : req[u] = "done" => u \in cand[q]
         /\ req[q] # "snapped" => values[ver[q]] = cand[q]

ConvergeInv == IInv /\ TurnInv /\ ListenInv /\ ServeInv /\ KeepInv

=============================================================================
