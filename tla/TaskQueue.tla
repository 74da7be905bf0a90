------------------------------ MODULE TaskQueue ------------------------------
(***************************************************************************)
(* The Redis Streams task queue (app/infrastructure/tasks/redis.py), the   *)
(* worker loop that consumes it (app/worker.py), the task_jobs rows        *)
(* (SqlAlchemyTaskRepository) and the two API handlers that submit an      *)
(* index_document task (api/routes/admin.py, knowledge_bases.py).          *)
(*                                                                         *)
(* One action is one command sent to Redis or one transaction of the       *)
(* database: the code awaits each of them, so every other process may run  *)
(* in between, and a process may die between any two of them.              *)
(***************************************************************************)
EXTENDS Naturals, FiniteSets

CONSTANTS
  Tasks,         \* task_ids: each is submitted once, by one API request
  Workers,       \* worker processes (python -m app.worker)
  MaxAttempts,   \* settings.task_max_attempts; 0 behaves as 1
  Delayed,       \* the workers whose settings.task_retry_delay_seconds is not 0
  CrashBudget,   \* bound: how many times a worker process dies
  StallBudget,   \* bound: how often a message goes idle while a live worker holds it
  NoMessage      \* "no message in hand"

ASSUME MaxAttemptsAssumption == MaxAttempts \in Nat \ {0}
ASSUME BudgetAssumption == CrashBudget \in Nat /\ StallBudget \in Nat
ASSUME DelayedAssumption == Delayed \subseteq Workers

Message == [id : Nat, task : Tasks, attempts : Nat]
Retry == [task : Tasks, attempts : Nat]

ASSUME NoMessageAssumption == NoMessage \notin Message

VARIABLES
  stream,        \* entries of the main stream
  lastId,        \* id of the last XADD to it
  lastDelivered, \* the group's last-delivered-id
  pending,       \* ids in the group's pending entries list
  idle,          \* the pending ids that have been idle for min_idle_time
  delayed,       \* members of the delayed sorted set
  due,           \* the members of delayed whose score has passed
  deadLetters,   \* entries of the dead-letter stream
  jobs,          \* task_jobs rows
  api,           \* where the request that submits each task is
  pc,            \* where each worker is in its loop
  msg,           \* the message each worker has in hand
  batch,         \* the delayed members a worker has still to promote
  outcome,       \* the status a worker will report for the message in hand
  crashes,       \* worker deaths so far
  stalls,        \* stalls so far
  indexed,       \* history: tasks whose index_document ran to its end
  failedAt       \* history: <<task, attempts>> of the runs that raised

queueVars == <<stream, lastId, lastDelivered, pending, idle, delayed, due, deadLetters>>
workerVars == <<pc, msg, batch, outcome>>
historyVars == <<indexed, failedAt>>
budgetVars == <<crashes, stalls>>
vars == <<queueVars, jobs, api, workerVars, budgetVars, historyVars>>

JobStatus == {"none", "queued", "running", "retrying", "succeeded", "dead_letter", "failed"}
ApiState == {"start", "created", "error", "accepted", "rejected", "gone"}
\* "take" is dequeue before XAUTOCLAIM, "read" between XAUTOCLAIM and XREADGROUP
WorkerPc == {"idle", "take", "zrem", "read", "mark", "run", "retry", "xack", "xdel", "report"}
Outcome == {"none", "succeeded", "retrying", "dead_letter"}

Init ==
  /\ stream = {} /\ lastId = 0 /\ lastDelivered = 0
  /\ pending = {} /\ idle = {}
  /\ delayed = {} /\ due = {} /\ deadLetters = {}
  /\ jobs = [t \in Tasks |-> [status |-> "none", attempts |-> 0]]
  /\ api = [t \in Tasks |-> "start"]
  /\ pc = [w \in Workers |-> "idle"]
  /\ msg = [w \in Workers |-> NoMessage]
  /\ batch = [w \in Workers |-> {}]
  /\ outcome = [w \in Workers |-> "none"]
  /\ crashes = 0 /\ stalls = 0
  /\ indexed = {} /\ failedAt = {}

-----------------------------------------------------------------------------
(* The queue's commands *)

DeadLettered(t) == \E d \in deadLetters : d.task = t
Settled(t) == t \in indexed \/ DeadLettered(t)

Undelivered == {m \in stream : m.id > lastDelivered}

First(S) == CHOOSE m \in S : \A n \in S : m.id <= n.id

XADD(t, a) == /\ stream' = stream \cup {[id |-> lastId + 1, task |-> t, attempts |-> a]}
              /\ lastId' = lastId + 1

\* the member a worker at "zrem" has enqueued and is about to remove
Promoted(w) == [task |-> msg[w].task, attempts |-> msg[w].attempts]

\* the worker has this message and has not acknowledged it yet
Holds(w, id) == /\ pc[w] \in {"mark", "run", "retry", "xack"}
                /\ msg[w].id = id

-----------------------------------------------------------------------------
(* The API: create the row, enqueue the task *)

CreateRow(t) ==
  /\ api[t] = "start"
  /\ api' = [api EXCEPT ![t] = "created"]
  /\ jobs' = [jobs EXCEPT ![t] = [status |-> "queued", attempts |-> 0]]
  /\ UNCHANGED <<queueVars, workerVars, budgetVars, historyVars>>

Enqueue(t) ==
  /\ api[t] = "created"
  /\ api' = [api EXCEPT ![t] = "accepted"]
  /\ XADD(t, 0)
  /\ UNCHANGED <<lastDelivered, pending, idle, delayed, due, deadLetters,
                 jobs, workerVars, budgetVars, historyVars>>

\* enqueue raises: Redis never ran the XADD, or ran it and the answer was lost
EnqueueError(t) ==
  /\ api[t] = "created"
  /\ api' = [api EXCEPT ![t] = "error"]
  /\ XADD(t, 0) \/ UNCHANGED <<stream, lastId>>
  /\ UNCHANGED <<lastDelivered, pending, idle, delayed, due, deadLetters,
                 jobs, workerVars, budgetVars, historyVars>>

MarkFailed(t) ==
  /\ api[t] = "error"
  /\ api' = [api EXCEPT ![t] = "rejected"]
  /\ jobs' = [jobs EXCEPT ![t].status = "failed"]
  /\ UNCHANGED <<queueVars, workerVars, budgetVars, historyVars>>

\* the API process dies, or the request is cancelled, between two of its awaits
ApiCrash(t) ==
  /\ api[t] \in {"created", "error"}
  /\ api' = [api EXCEPT ![t] = "gone"]
  /\ UNCHANGED <<queueVars, jobs, workerVars, budgetVars, historyVars>>

-----------------------------------------------------------------------------
(* dequeue: promote what is due, claim what is idle, read what is new *)

PollDelayed(w) ==
  /\ pc[w] = "idle"
  /\ pc' = [pc EXCEPT ![w] = "take"]
  /\ batch' = [batch EXCEPT ![w] = due]
  /\ UNCHANGED <<queueVars, jobs, api, msg, outcome, budgetVars, historyVars>>

PromoteAdd(w) ==
  /\ pc[w] = "take"
  /\ \E d \in batch[w] :
       /\ XADD(d.task, d.attempts)
       /\ msg' = [msg EXCEPT ![w] = [id |-> lastId + 1, task |-> d.task, attempts |-> d.attempts]]
  /\ pc' = [pc EXCEPT ![w] = "zrem"]
  /\ UNCHANGED <<lastDelivered, pending, idle, delayed, due, deadLetters,
                 jobs, api, batch, outcome, budgetVars, historyVars>>

PromoteRemove(w) ==
  /\ pc[w] = "zrem"
  /\ delayed' = delayed \ {Promoted(w)}
  /\ due' = due \ {Promoted(w)}
  /\ batch' = [batch EXCEPT ![w] = @ \ {Promoted(w)}]
  /\ pc' = [pc EXCEPT ![w] = "take"]
  /\ msg' = [msg EXCEPT ![w] = NoMessage]
  /\ UNCHANGED <<stream, lastId, lastDelivered, pending, idle, deadLetters,
                 jobs, api, outcome, budgetVars, historyVars>>

\* fault: every consumer reads only its own entries
BadClaimable == {}

\* fault: min_idle_time is 0
BadClaimableAtOnce == {m \in stream : m.id \in pending}

\* what XAUTOCLAIM from 0-0 with COUNT 1 may hand over
Claimable == {m \in stream : m.id \in idle}

\* XAUTOCLAIM resets the idle time of the entry it hands over
Claim(w) ==
  /\ pc[w] = "take" /\ batch[w] = {}
  /\ Claimable # {}
  /\ LET m == First(Claimable) IN
       /\ msg' = [msg EXCEPT ![w] = m]
       /\ idle' = idle \ {m.id}
  /\ pc' = [pc EXCEPT ![w] = "mark"]
  /\ UNCHANGED <<stream, lastId, lastDelivered, pending, delayed, due, deadLetters,
                 jobs, api, batch, outcome, budgetVars, historyVars>>

NothingToClaim(w) ==
  /\ pc[w] = "take" /\ batch[w] = {}
  /\ Claimable = {}
  /\ pc' = [pc EXCEPT ![w] = "read"]
  /\ UNCHANGED <<queueVars, jobs, api, msg, batch, outcome, budgetVars, historyVars>>

\* fault: XREADGROUP with NOACK
BadDeliver(id) == lastDelivered' = id /\ UNCHANGED pending

Deliver(id) == lastDelivered' = id /\ pending' = pending \cup {id}

ReadNew(w) ==
  /\ pc[w] = "read"
  /\ Undelivered # {}
  /\ LET m == First(Undelivered) IN
       /\ msg' = [msg EXCEPT ![w] = m]
       /\ Deliver(m.id)
  /\ pc' = [pc EXCEPT ![w] = "mark"]
  /\ UNCHANGED <<stream, lastId, idle, delayed, due, deadLetters,
                 jobs, api, batch, outcome, budgetVars, historyVars>>

ReadTimeout(w) ==
  /\ pc[w] = "read"
  /\ Undelivered = {}
  /\ pc' = [pc EXCEPT ![w] = "idle"]
  /\ UNCHANGED <<queueVars, jobs, api, msg, batch, outcome, budgetVars, historyVars>>

-----------------------------------------------------------------------------
(* The worker: run the task, settle or retry it, report *)

\* fault: only the attempts are updated
BadRunningRow(m) == [status |-> "queued", attempts |-> m.attempts + 1]

RunningRow(m) == [status |-> "running", attempts |-> m.attempts + 1]

MarkRunning(w) ==
  /\ pc[w] = "mark"
  /\ jobs' = [jobs EXCEPT ![msg[w].task] = RunningRow(msg[w])]
  /\ pc' = [pc EXCEPT ![w] = "run"]
  /\ UNCHANGED <<queueVars, api, msg, batch, outcome, budgetVars, historyVars>>

RunSucceeds(w) ==
  /\ pc[w] = "run"
  /\ indexed' = indexed \cup {msg[w].task}
  /\ outcome' = [outcome EXCEPT ![w] = "succeeded"]
  /\ pc' = [pc EXCEPT ![w] = "xack"]
  /\ UNCHANGED <<queueVars, jobs, api, msg, batch, budgetVars, failedAt>>

\* the document is gone, or parsing, embedding or the vector store raised
RunFails(w) ==
  /\ pc[w] = "run"
  /\ failedAt' = failedAt \cup {<<msg[w].task, msg[w].attempts>>}
  /\ pc' = [pc EXCEPT ![w] = "retry"]
  /\ UNCHANGED <<queueVars, jobs, api, msg, batch, outcome, budgetVars, indexed>>

\* faults: a retry is not counted, or is counted twice
BadNextAttempt(m) == m.attempts
BadNextAttemptTwice(m) == m.attempts + 2

NextAttempt(m) == m.attempts + 1

RetryDead(w) ==
  /\ pc[w] = "retry"
  /\ NextAttempt(msg[w]) >= MaxAttempts
  /\ deadLetters' = deadLetters \cup {[task |-> msg[w].task, attempts |-> NextAttempt(msg[w])]}
  /\ outcome' = [outcome EXCEPT ![w] = "dead_letter"]
  /\ pc' = [pc EXCEPT ![w] = "xack"]
  /\ UNCHANGED <<stream, lastId, lastDelivered, pending, idle, delayed, due,
                 jobs, api, msg, batch, budgetVars, historyVars>>

\* ZADD of a member that is already there only moves its score into the future
RetryLater(w) ==
  /\ pc[w] = "retry"
  /\ NextAttempt(msg[w]) < MaxAttempts
  /\ w \in Delayed
  /\ LET d == [task |-> msg[w].task, attempts |-> NextAttempt(msg[w])] IN
       /\ delayed' = delayed \cup {d}
       /\ due' = due \ {d}
  /\ outcome' = [outcome EXCEPT ![w] = "retrying"]
  /\ pc' = [pc EXCEPT ![w] = "xack"]
  /\ UNCHANGED <<stream, lastId, lastDelivered, pending, idle, deadLetters,
                 jobs, api, msg, batch, budgetVars, historyVars>>

RetryNow(w) ==
  /\ pc[w] = "retry"
  /\ NextAttempt(msg[w]) < MaxAttempts
  /\ w \notin Delayed
  /\ XADD(msg[w].task, NextAttempt(msg[w]))
  /\ outcome' = [outcome EXCEPT ![w] = "retrying"]
  /\ pc' = [pc EXCEPT ![w] = "xack"]
  /\ UNCHANGED <<lastDelivered, pending, idle, delayed, due, deadLetters,
                 jobs, api, msg, batch, budgetVars, historyVars>>

Xack(w) ==
  /\ pc[w] = "xack"
  /\ pending' = pending \ {msg[w].id}
  /\ idle' = idle \ {msg[w].id}
  /\ pc' = [pc EXCEPT ![w] = "xdel"]
  /\ UNCHANGED <<stream, lastId, lastDelivered, delayed, due, deadLetters,
                 jobs, api, msg, batch, outcome, budgetVars, historyVars>>

Xdel(w) ==
  /\ pc[w] = "xdel"
  /\ stream' = {m \in stream : m.id # msg[w].id}
  /\ pc' = [pc EXCEPT ![w] = "report"]
  /\ UNCHANGED <<lastId, lastDelivered, pending, idle, delayed, due, deadLetters,
                 jobs, api, msg, batch, outcome, budgetVars, historyVars>>

Report(w) ==
  /\ pc[w] = "report"
  /\ jobs' = [jobs EXCEPT ![msg[w].task].status = outcome[w]]
  /\ pc' = [pc EXCEPT ![w] = "idle"]
  /\ msg' = [msg EXCEPT ![w] = NoMessage]
  /\ outcome' = [outcome EXCEPT ![w] = "none"]
  /\ UNCHANGED <<queueVars, api, batch, budgetVars, historyVars>>

\* The process is killed, or an error of Redis or of the database leaves run();
\* docker restarts it. Only what it had in memory is gone.
Crash(w) ==
  /\ crashes < CrashBudget
  /\ crashes' = crashes + 1
  /\ pc' = [pc EXCEPT ![w] = "idle"]
  /\ msg' = [msg EXCEPT ![w] = NoMessage]
  /\ batch' = [batch EXCEPT ![w] = {}]
  /\ outcome' = [outcome EXCEPT ![w] = "none"]
  /\ UNCHANGED <<queueVars, jobs, api, stalls, historyVars>>

-----------------------------------------------------------------------------
(* Time *)

\* 60 s have passed since the entry was delivered: for an entry no worker holds
\* that is certain to happen, for one a slow worker still holds it may.
BecomeIdle(id) ==
  /\ id \in pending \ idle
  /\ idle' = idle \cup {id}
  /\ IF \E w \in Workers : Holds(w, id)
       THEN stalls < StallBudget /\ stalls' = stalls + 1
       ELSE UNCHANGED stalls
  /\ UNCHANGED <<stream, lastId, lastDelivered, pending, delayed, due, deadLetters,
                 jobs, api, workerVars, crashes, historyVars>>

BecomeDue ==
  /\ \E d \in delayed \ due : due' = due \cup {d}
  /\ UNCHANGED <<stream, lastId, lastDelivered, pending, idle, delayed, deadLetters,
                 jobs, api, workerVars, budgetVars, historyVars>>

-----------------------------------------------------------------------------

ApiStep(t) == CreateRow(t) \/ Enqueue(t) \/ EnqueueError(t) \/ MarkFailed(t) \/ ApiCrash(t)

WorkerStep(w) ==
  \/ PollDelayed(w) \/ PromoteAdd(w) \/ PromoteRemove(w)
  \/ Claim(w) \/ NothingToClaim(w) \/ ReadNew(w) \/ ReadTimeout(w)
  \/ MarkRunning(w) \/ RunSucceeds(w) \/ RunFails(w)
  \/ RetryDead(w) \/ RetryLater(w) \/ RetryNow(w)
  \/ Xack(w) \/ Xdel(w) \/ Report(w)

Clock == BecomeDue \/ \E id \in pending : BecomeIdle(id)

Next ==
  \/ \E t \in Tasks : ApiStep(t)
  \/ \E w \in Workers : WorkerStep(w) \/ Crash(w)
  \/ Clock

Spec == Init /\ [][Next]_vars

\* Every worker keeps executing (index_document ends: its calls have timeouts)
\* and time passes for delayed members and for entries nobody works on.
Fairness ==
  /\ \A w \in Workers : WF_vars(WorkerStep(w))
  /\ WF_vars(BecomeDue)
  /\ WF_vars(\E id \in pending : BecomeIdle(id))

FairSpec == Spec /\ Fairness

-----------------------------------------------------------------------------
(* Type correctness *)

\* The types of all variables (every module checks its own).
TypeOK ==
  /\ stream \subseteq Message
  /\ lastId \in Nat /\ lastDelivered \in Nat
  /\ pending \subseteq Nat /\ idle \subseteq Nat
  /\ delayed \subseteq Retry /\ due \subseteq Retry /\ deadLetters \subseteq Retry
  /\ jobs \in [Tasks -> [status : JobStatus, attempts : Nat]]
  /\ api \in [Tasks -> ApiState]
  /\ pc \in [Workers -> WorkerPc]
  /\ msg \in [Workers -> Message \cup {NoMessage}]
  /\ batch \in [Workers -> SUBSET Retry]
  /\ outcome \in [Workers -> Outcome]
  /\ crashes \in 0..CrashBudget /\ stalls \in 0..StallBudget
  /\ indexed \subseteq Tasks
  /\ failedAt \subseteq Tasks \X Nat

-----------------------------------------------------------------------------
(* What the queue and the workers promise *)

\* an entry some worker still will be, or may again be, given
Live(m) == m.id \in pending \/ m.id > lastDelivered

Carried(t) == (\E m \in stream : m.task = t /\ Live(m)) \/ (\E d \in delayed : d.task = t)

\* An accepted task is never lost: until it has been indexed or dead-lettered,
\* the stream or the delayed set still holds something that will bring it to a
\* worker, wherever the workers stand, crash or overtake each other
\* (redis.py: enqueue, dequeue, ack, retry, _promote_delayed).
NoLostTask == \A t \in Tasks : api[t] = "accepted" => Settled(t) \/ Carried(t)

\* A task is dead-lettered only after a run at each of its MaxAttempts attempt
\* numbers has really failed, however often it was redelivered (redis.py: retry).
DeadOnlyAfterMaxFailures ==
  \A d \in deadLetters :
    /\ d.attempts = MaxAttempts
    /\ \A a \in 0..(MaxAttempts - 1) : <<d.task, a>> \in failedAt

\* The row never announces what has not happened: "succeeded" and "dead_letter"
\* come after the fact, "retrying" after a failed run, and while the row is still
\* "queued" no run has ended (worker.py: run; TaskRepository.update).
JobRowTruthful ==
  \A t \in Tasks :
    /\ jobs[t].status = "succeeded" => t \in indexed
    /\ jobs[t].status = "dead_letter" => DeadLettered(t)
    /\ jobs[t].status = "retrying" => \E a \in 0..(MaxAttempts - 2) : <<t, a>> \in failedAt
    /\ jobs[t].status = "queued" => t \notin indexed /\ \A f \in failedAt : f[1] # t

\* The task is settled, or something that is not about to be removed carries it
\* with at least a attempts behind it.
Retiring(m) == \E w \in Workers : pc[w] \in {"xack", "xdel"} /\ msg[w] = m
Removing(d) == \E w \in Workers : pc[w] = "zrem" /\ Promoted(w) = d

Safe(t, a) ==
  \/ Settled(t)
  \/ \E m \in stream : m.task = t /\ m.attempts >= a /\ Live(m) /\ ~Retiring(m)
  \/ \E d \in delayed : d.task = t /\ d.attempts >= a /\ ~Removing(d)

\* The inductive invariant. Ids: XADD's ids are fresh, so an id names one entry.
IdInv ==
  /\ lastDelivered <= lastId
  /\ \A m \in stream : m.id <= lastId
  /\ \A m, n \in stream : m.id = n.id => m = n
  /\ idle \subseteq pending
  /\ \A i \in pending : i <= lastDelivered

\* What a worker has in hand is a message, delivered and, once it is being
\* deleted, acknowledged.
InHand == {"mark", "run", "retry", "xack", "xdel", "report"}
HandInv ==
  \A w \in Workers :
    /\ pc[w] \in InHand \cup {"zrem"} => msg[w] \in Message
    /\ pc[w] \in InHand =>
         /\ msg[w].id <= lastDelivered
         /\ \A m \in stream : m.id = msg[w].id => m = msg[w]
    /\ pc[w] = "xdel" => msg[w].id \notin pending

\* Accepted tasks are safe; what a worker is removing from the delayed set, or
\* retiring from the stream, is carried by something else.
SafeInv ==
  /\ \A t \in Tasks : api[t] = "accepted" => Safe(t, 0)
  /\ \A w \in Workers : pc[w] = "zrem" => Safe(msg[w].task, msg[w].attempts)
  /\ \A w \in Workers : pc[w] \in {"xack", "xdel"} => Safe(msg[w].task, msg[w].attempts + 1)

\* Whatever carries attempt number a follows failed runs at all lower numbers.
Chain(t, a) == a < MaxAttempts /\ \A b \in 0..(a - 1) : <<t, b>> \in failedAt
ChainInv ==
  /\ \A m \in stream : Chain(m.task, m.attempts)
  /\ \A d \in delayed : Chain(d.task, d.attempts)
  /\ due \subseteq delayed
  /\ \A w \in Workers :
       /\ \A d \in batch[w] : Chain(d.task, d.attempts)
       /\ pc[w] \in InHand => Chain(msg[w].task, msg[w].attempts)
       /\ pc[w] = "retry" => <<msg[w].task, msg[w].attempts>> \in failedAt

IInv == TypeOK /\ IdInv /\ HandInv /\ SafeInv /\ ChainInv /\ DeadOnlyAfterMaxFailures

\* Why JobRowTruthful holds: nothing has been done about a task that has no row yet, a
\* run has left "queued", and what a worker is going to report has happened.
Untouched(t) ==
  /\ t \notin indexed /\ \A f \in failedAt : f[1] # t
  /\ \A m \in stream : m.task # t
  /\ \A d \in delayed : d.task # t
  /\ \A w \in Workers : /\ \A d \in batch[w] : d.task # t
                        /\ pc[w] \in InHand \cup {"zrem"} => msg[w].task # t

Reportable(w) ==
  \/ outcome[w] = "succeeded" /\ msg[w].task \in indexed
  \/ outcome[w] = "dead_letter" /\ DeadLettered(msg[w].task)
  \/ outcome[w] = "retrying" /\ \E a \in 0..(MaxAttempts - 2) : <<msg[w].task, a>> \in failedAt

RowInv ==
  /\ \A t \in Tasks : api[t] = "start" => Untouched(t)
  /\ \A w \in Workers : pc[w] = "run" => jobs[msg[w].task].status # "queued"
  /\ \A w \in Workers : pc[w] \in {"xack", "xdel", "report"} => Reportable(w)
  /\ JobRowTruthful

\* A worker acknowledges an entry only when its task is already settled, or is
\* carried further by a copy with one more attempt: XACK never drops a task that
\* another worker's duplicate has not taken over (redis.py: ack, retry).
AckedOnlyWhenSafe ==
  [][\A m \in stream : m.id \in pending \ pending' => Safe(m.task, m.attempts + 1)']_vars

\* Unless a worker stalls for longer than min_idle_time, an entry is never worked
\* on by two workers at once, although they claim, read and promote concurrently
\* and die (redis.py: dequeue; worker.py: run).
ExclusiveEntries ==
  stalls = 0 => \A v, w \in Workers : \A m \in stream : Holds(v, m.id) /\ Holds(w, m.id) => v = w

\* Why: an entry in a hand has not been idle.
HoldInv ==
  stalls = 0 => \A v, w \in Workers :
    pc[v] \in {"mark", "run", "retry", "xack"} /\ Holds(w, msg[v].id) => v = w /\ msg[v].id \notin idle

\* An accepted task is eventually indexed or dead-lettered, although workers
\* crash and stall: what a dead worker had in hand is claimed by another
\* (redis.py: dequeue).
EventuallySettled == \A t \in Tasks : api[t] = "accepted" ~> Settled(t)

\* The queue implements at-least-once delivery with MaxAttempts attempts.
Accepted == {t \in Tasks : api[t] = "accepted"}
FailedAttempts(t) == {a \in 0..(MaxAttempts - 1) : <<t, a>> \in failedAt}
Failures == [t \in Tasks |-> Cardinality(FailedAttempts(t))]
GivenUp == {t \in Tasks : DeadLettered(t)}

Delivery == INSTANCE TaskDelivery WITH
  owed <- Accepted, failures <- Failures, succeeded <- indexed, given_up <- GivenUp

DeliverySpec == Delivery!FairSpec

=============================================================================
