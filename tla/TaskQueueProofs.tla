--------------------------- MODULE TaskQueueProofs ---------------------------
(***************************************************************************)
(* Theorems about TaskQueue for any number of tasks and workers, any       *)
(* MaxAttempts, immediate or delayed retries, and any number of crashes    *)
(* and stalls.                                                             *)
(***************************************************************************)
EXTENDS TaskQueue, WellFoundedInduction, FiniteSetTheorems, TLAPS

\* Every nonempty set of natural numbers has a least element.
LEMMA LeastOf ==
  ASSUME NEW T, T \subseteq Nat, T # {}
  PROVE  \E i \in T : \A j \in T : i <= j
  <1> DEFINE less == OpToRel(<, Nat)
  <1>1. IsWellFoundedOn(less, Nat)
    BY NatLessThanWellFounded
  <1>2. \A x, y \in Nat : x < y => <<x, y>> \in less
    BY DEF OpToRel
  <1> HIDE DEF less
  <1>3. PICK x \in T : \A y \in T : <<y, x>> \notin less
    BY <1>1, WFMin
  <1>4. \A y \in T : x <= y
    <2>1. TAKE y \in T
    <2>2. x \in Nat /\ y \in Nat /\ ~(y < x)
      BY <1>2, <1>3
    <2>3. QED
      BY <2>2
  <1>5. QED
    BY <1>4

\* First picks an entry of smallest id (what XAUTOCLAIM and XREADGROUP hand over).
LEMMA FirstIsFirst ==
  ASSUME NEW S, S \subseteq Message, S # {}
  PROVE  First(S) \in S /\ \A n \in S : First(S).id <= n.id
  <1> DEFINE ids == {n.id : n \in S}
  <1>1. ids \subseteq Nat
    BY DEF Message
  <1>2. PICK i \in ids : \A j \in ids : i <= j
    <2>1. ids # {}
      OBVIOUS
    <2> HIDE DEF ids
    <2>2. QED
      BY <1>1, <2>1, LeastOf
  <1>3. PICK m \in S : m.id = i
    OBVIOUS
  <1>4. \A n \in S : m.id <= n.id
    BY <1>2, <1>3
  <1>5. QED
    BY <1>3, <1>4 DEF First

-----------------------------------------------------------------------------
(* Type correctness *)

\* The initial state is well typed.
LEMMA InitType == Init => TypeOK
  BY BudgetAssumption DEF Init, TypeOK, JobStatus, ApiState, WorkerPc, Outcome

\* A step of an API request keeps the types.
LEMMA ApiType == ASSUME TypeOK, NEW t \in Tasks, ApiStep(t) PROVE TypeOK'
  <1> USE DEF TypeOK, JobStatus, ApiState, queueVars, workerVars, budgetVars, historyVars
  <1>1. CASE CreateRow(t)
    BY <1>1 DEF CreateRow
  <1>2. CASE Enqueue(t)
    BY <1>2 DEF Enqueue, XADD, Message
  <1>3. CASE EnqueueError(t)
    BY <1>3 DEF EnqueueError, XADD, Message
  <1>4. CASE MarkFailed(t)
    BY <1>4 DEF MarkFailed
  <1>5. CASE ApiCrash(t)
    BY <1>5 DEF ApiCrash
  <1>6. QED
    BY <1>1, <1>2, <1>3, <1>4, <1>5 DEF ApiStep

\* A worker's step keeps the types: needs that what it has in hand is a message.
LEMMA WorkerType == ASSUME TypeOK, HandInv, NEW w \in Workers, WorkerStep(w) PROVE TypeOK'
  <1> USE DEF TypeOK, WorkerPc, queueVars, workerVars, budgetVars, historyVars
  <1>1. CASE PollDelayed(w)
    BY <1>1 DEF PollDelayed
  <1>2. CASE PromoteAdd(w)
    <2>1. PICK d \in batch[w] :
            /\ XADD(d.task, d.attempts)
            /\ msg' = [msg EXCEPT ![w] = [id |-> lastId + 1, task |-> d.task,
                                          attempts |-> d.attempts]]
      BY <1>2 DEF PromoteAdd
    <2>2. [id |-> lastId + 1, task |-> d.task, attempts |-> d.attempts] \in Message
      BY DEF Message, Retry
    <2>3. stream' \subseteq Message /\ lastId' \in Nat
      BY <2>1, <2>2 DEF XADD
    <2>4. msg' \in [Workers -> Message \cup {NoMessage}]
      BY <2>1, <2>2
    <2>5. QED
      BY <1>2, <2>3, <2>4 DEF PromoteAdd
  <1>3. CASE PromoteRemove(w)
    BY <1>3 DEF PromoteRemove
  <1>4. CASE Claim(w)
    <2>1. First(Claimable) \in Message
      BY <1>4, FirstIsFirst DEF Claim, Claimable
    <2>2. QED
      BY <1>4, <2>1 DEF Claim
  <1>5. CASE NothingToClaim(w)
    BY <1>5 DEF NothingToClaim
  <1>6. CASE ReadNew(w)
    <2>1. First(Undelivered) \in Message
      BY <1>6, FirstIsFirst DEF ReadNew, Deliver, Undelivered
    <2>2. First(Undelivered).id \in Nat
      BY <2>1 DEF Message
    <2>3. QED
      BY <1>6, <2>1, <2>2 DEF ReadNew, Deliver
  <1>7. CASE ReadTimeout(w)
    BY <1>7 DEF ReadTimeout
  <1>8. CASE MarkRunning(w)
    <2>1. msg[w] \in Message
      BY <1>8 DEF MarkRunning, RunningRow, HandInv, InHand
    <2>2. QED
      BY <1>8, <2>1 DEF MarkRunning, RunningRow, JobStatus, Message
  <1>9. CASE RunSucceeds(w)
    <2>1. msg[w] \in Message
      BY <1>9 DEF RunSucceeds, HandInv, InHand
    <2>2. QED
      BY <1>9, <2>1 DEF RunSucceeds, Outcome, Message
  <1>10. CASE RunFails(w)
    <2>1. msg[w] \in Message
      BY <1>10 DEF RunFails, HandInv, InHand
    <2>2. <<msg[w].task, msg[w].attempts>> \in Tasks \X Nat
      BY <2>1 DEF Message
    <2>3. QED
      BY <1>10, <2>2 DEF RunFails
  <1>11. ASSUME pc[w] = "retry"
         PROVE  /\ [task |-> msg[w].task, attempts |-> NextAttempt(msg[w])] \in Retry
                /\ [id |-> lastId + 1, task |-> msg[w].task,
                    attempts |-> NextAttempt(msg[w])] \in Message
    <2>1. msg[w] \in Message
      BY <1>11 DEF HandInv, InHand
    <2>2. QED
      BY <2>1 DEF Message, Retry, NextAttempt
  <1>12. CASE RetryDead(w)
    BY <1>11, <1>12 DEF RetryDead, Outcome
  <1>13. CASE RetryLater(w)
    BY <1>11, <1>13 DEF RetryLater, Outcome
  <1>14. CASE RetryNow(w)
    BY <1>11, <1>14 DEF RetryNow, XADD, Outcome
  <1>15. CASE Xack(w)
    BY <1>15 DEF Xack
  <1>16. CASE Xdel(w)
    BY <1>16 DEF Xdel
  <1>17. CASE Report(w)
    BY <1>17 DEF Report, JobStatus, Outcome
  <1>18. QED
    BY <1>1, <1>2, <1>3, <1>4, <1>5, <1>6, <1>7, <1>8, <1>9, <1>10, <1>12,
       <1>13, <1>14, <1>15, <1>16, <1>17 DEF WorkerStep

\* Crashes, the passing of time and stuttering keep the types.
LEMMA OtherType ==
  ASSUME TypeOK, (\E w \in Workers : Crash(w)) \/ Clock \/ UNCHANGED vars
  PROVE  TypeOK'
  <1> USE DEF TypeOK, queueVars, workerVars, budgetVars, historyVars
  <1>1. ASSUME NEW w \in Workers, Crash(w) PROVE TypeOK'
    BY <1>1, BudgetAssumption DEF Crash, WorkerPc, Outcome
  <1>2. CASE BecomeDue
    BY <1>2 DEF BecomeDue
  <1>3. ASSUME NEW id \in pending, BecomeIdle(id) PROVE TypeOK'
    BY <1>3, BudgetAssumption DEF BecomeIdle
  <1>4. CASE UNCHANGED vars
    BY <1>4 DEF vars
  <1>5. QED
    BY <1>1, <1>2, <1>3, <1>4 DEF Clock

-----------------------------------------------------------------------------
(* Ids and what workers have in hand *)

\* Nothing of the queue that ids are about changes.
LEMMA IdHandFrame ==
  ASSUME IdInv, HandInv,
         UNCHANGED <<stream, lastId, lastDelivered, pending, idle, pc, msg>>
  PROVE  IdInv' /\ HandInv'
  BY DEF IdInv, HandInv

\* An XADD gets a fresh id: it cannot be one that a worker has in hand.
LEMMA IdHandXADD ==
  ASSUME TypeOK, IdInv, HandInv, NEW t, NEW a, XADD(t, a),
         UNCHANGED <<lastDelivered, pending, idle>>
  PROVE  /\ IdInv'
         /\ \A w \in Workers : pc[w] \in InHand =>
              \A m \in stream' : m.id = msg[w].id => m = msg[w]
  <1> DEFINE new == [id |-> lastId + 1, task |-> t, attempts |-> a]
  <1>1. stream' = stream \cup {new} /\ lastId' = lastId + 1
    BY DEF XADD
  <1>2. new.id = lastId + 1
    OBVIOUS
  <1>3. \A m \in stream : m.id \in Nat /\ m.id <= lastId
    BY DEF TypeOK, Message, IdInv
  <1>4. lastId \in Nat /\ lastDelivered \in Nat /\ lastDelivered <= lastId
    BY DEF TypeOK, IdInv
  <1>5. \A w \in Workers : pc[w] \in InHand => msg[w].id \in Nat /\ msg[w].id <= lastDelivered
    BY DEF HandInv, Message
  <1> HIDE DEF new
  <1>6. IdInv'
    BY <1>1, <1>2, <1>3, <1>4 DEF IdInv
  <1>7. ASSUME NEW w \in Workers, pc[w] \in InHand, NEW m \in stream', m.id = msg[w].id
        PROVE  m = msg[w]
    <2>1. m # new
      BY <1>2, <1>4, <1>5, <1>7
    <2>2. QED
      BY <1>1, <1>7, <2>1 DEF HandInv
  <1>8. QED
    BY <1>6, <1>7

\* A step of an API request.
LEMMA ApiIdHand ==
  ASSUME TypeOK, IdInv, HandInv, NEW t \in Tasks, ApiStep(t)
  PROVE  IdInv' /\ HandInv'
  <1>1. CASE Enqueue(t)
    <2>1. XADD(t, 0) /\ UNCHANGED <<lastDelivered, pending, idle, pc, msg>>
      BY <1>1 DEF Enqueue, workerVars
    <2>2. QED
      BY <2>1, IdHandXADD DEF HandInv
  <1>2. CASE EnqueueError(t)
    <2>1. CASE XADD(t, 0)
      <3>1. UNCHANGED <<lastDelivered, pending, idle, pc, msg>>
        BY <1>2 DEF EnqueueError, workerVars
      <3>2. QED
        BY <2>1, <3>1, IdHandXADD DEF HandInv
    <2>2. CASE UNCHANGED <<stream, lastId>>
      BY <1>2, <2>2, IdHandFrame DEF EnqueueError, workerVars
    <2>3. QED
      BY <1>2, <2>1, <2>2 DEF EnqueueError
  <1>3. CASE CreateRow(t) \/ MarkFailed(t) \/ ApiCrash(t)
    BY <1>3, IdHandFrame DEF CreateRow, MarkFailed, ApiCrash, queueVars, workerVars
  <1>4. QED
    BY <1>1, <1>2, <1>3 DEF ApiStep

\* A step of a worker: only PromoteAdd and RetryNow add entries, only Claim and
\* ReadNew take one, only Xack and Xdel retire one.
LEMMA WorkerIdHand ==
  ASSUME TypeOK, IdInv, HandInv, NEW w \in Workers, WorkerStep(w)
  PROVE  IdInv' /\ HandInv'
  <1> USE DEF InHand
  <1>1. CASE PollDelayed(w) \/ NothingToClaim(w) \/ ReadTimeout(w) \/ Report(w) \/ PromoteRemove(w)
    <2>1. /\ UNCHANGED <<stream, lastId, lastDelivered, pending, idle>>
          /\ \E p \in {"take", "read", "idle"} : pc' = [pc EXCEPT ![w] = p]
          /\ \/ UNCHANGED msg
             \/ msg' = [msg EXCEPT ![w] = NoMessage]
      BY <1>1 DEF PollDelayed, NothingToClaim, ReadTimeout, Report, PromoteRemove, queueVars
    <2>2. IdInv'
      BY <2>1 DEF IdInv
    <2>3. HandInv'
      BY <2>1 DEF HandInv, TypeOK
    <2>4. QED
      BY <2>2, <2>3
  <1>2. CASE PromoteAdd(w)
    <2>1. PICK d \in batch[w] :
            /\ XADD(d.task, d.attempts)
            /\ msg' = [msg EXCEPT ![w] = [id |-> lastId + 1, task |-> d.task,
                                          attempts |-> d.attempts]]
      BY <1>2 DEF PromoteAdd
    <2>2. UNCHANGED <<lastDelivered, pending, idle>> /\ pc' = [pc EXCEPT ![w] = "zrem"]
      BY <1>2 DEF PromoteAdd
    <2>3. [id |-> lastId + 1, task |-> d.task, attempts |-> d.attempts] \in Message
      BY DEF Message, Retry, TypeOK
    <2>4. /\ IdInv'
          /\ \A v \in Workers : pc[v] \in InHand =>
               \A m \in stream' : m.id = msg[v].id => m = msg[v]
      BY <2>1, <2>2, IdHandXADD
    <2>5. HandInv'
      BY <2>1, <2>2, <2>3, <2>4 DEF HandInv, TypeOK
    <2>6. QED
      BY <2>4, <2>5
  <1>3. CASE Claim(w)
    <2> DEFINE m == First(Claimable)
    <2>1. m \in stream /\ m.id \in idle
      <3>1. Claimable \subseteq Message /\ Claimable # {}
        BY <1>3 DEF Claim, Claimable, TypeOK
      <3>2. m \in Claimable
        BY <3>1, FirstIsFirst
      <3>3. QED
        BY <3>2 DEF Claimable
    <2>2. /\ UNCHANGED <<stream, lastId, lastDelivered, pending>>
          /\ msg' = [msg EXCEPT ![w] = m] /\ idle' = idle \ {m.id}
          /\ pc' = [pc EXCEPT ![w] = "mark"]
      BY <1>3 DEF Claim
    <2> HIDE DEF m
    <2>3. IdInv'
      BY <2>1, <2>2 DEF IdInv
    <2>4. HandInv'
      BY <2>1, <2>2 DEF IdInv, HandInv, TypeOK
    <2>5. QED
      BY <2>3, <2>4
  <1>4. CASE ReadNew(w)
    <2> DEFINE m == First(Undelivered)
    <2>1. m \in stream /\ m.id > lastDelivered
      <3>1. Undelivered \subseteq Message /\ Undelivered # {}
        BY <1>4 DEF ReadNew, Undelivered, TypeOK
      <3>2. m \in Undelivered
        BY <3>1, FirstIsFirst
      <3>3. QED
        BY <3>2 DEF Undelivered
    <2>2. /\ UNCHANGED <<stream, lastId, idle>>
          /\ msg' = [msg EXCEPT ![w] = m] /\ pending' = pending \cup {m.id}
          /\ lastDelivered' = m.id
          /\ pc' = [pc EXCEPT ![w] = "mark"]
      BY <1>4 DEF ReadNew, Deliver
    <2>3. m \in Message /\ m.id \in Nat /\ lastDelivered \in Nat /\ m.id <= lastId
      BY <2>1 DEF TypeOK, Message, IdInv
    <2>4. \A v \in Workers : pc[v] \in InHand => msg[v].id \in Nat /\ msg[v].id <= lastDelivered
      BY DEF HandInv, Message
    <2>5. \A i \in pending : i \in Nat /\ i <= lastDelivered
      BY DEF TypeOK, IdInv
    <2> HIDE DEF m
    <2>6. IdInv'
      BY <2>1, <2>2, <2>3, <2>5 DEF IdInv
    <2>7. HandInv'
      <3>1. ASSUME NEW v \in Workers, v # w
            PROVE  /\ pc'[v] = pc[v] /\ msg'[v] = msg[v]
                   /\ pc[v] \in InHand => msg[v].id <= lastDelivered' /\ msg[v].id # m.id
        BY <2>1, <2>2, <2>3, <2>4, <3>1 DEF TypeOK
      <3>2. pc'[w] = "mark" /\ msg'[w] = m
        BY <2>2 DEF TypeOK
      <3>3. m.id <= lastDelivered'
        BY <2>2, <2>3
      <3>4. \A n \in stream' : n.id = m.id => n = m
        BY <2>1, <2>2 DEF IdInv
      <3>5. ASSUME NEW v \in Workers, v # w
            PROVE  /\ pc'[v] \in InHand \cup {"zrem"} => msg'[v] \in Message
                   /\ pc'[v] \in InHand =>
                        /\ msg'[v].id <= lastDelivered'
                        /\ \A n \in stream' : n.id = msg'[v].id => n = msg'[v]
                   /\ pc'[v] = "xdel" => msg'[v].id \notin pending'
        BY <2>2, <3>1, <3>5 DEF HandInv
      <3>6. QED
        BY <2>3, <3>2, <3>3, <3>4, <3>5 DEF HandInv
    <2>8. QED
      BY <2>6, <2>7
  <1>5. CASE MarkRunning(w) \/ RunSucceeds(w) \/ RunFails(w) \/ RetryDead(w) \/ RetryLater(w)
    <2>1. /\ UNCHANGED <<stream, lastId, lastDelivered, pending, idle, msg>>
          /\ pc[w] \in InHand
          /\ \E p \in {"run", "retry", "xack"} : pc' = [pc EXCEPT ![w] = p]
      BY <1>5 DEF MarkRunning, RunningRow, RunSucceeds, RunFails, RetryDead, RetryLater, queueVars
    <2>2. IdInv'
      BY <2>1 DEF IdInv
    <2>3. HandInv'
      BY <2>1 DEF HandInv, TypeOK
    <2>4. QED
      BY <2>2, <2>3
  <1>6. CASE RetryNow(w)
    <2>1. /\ XADD(msg[w].task, NextAttempt(msg[w]))
          /\ UNCHANGED <<lastDelivered, pending, idle, msg>>
          /\ pc[w] \in InHand /\ pc' = [pc EXCEPT ![w] = "xack"]
      BY <1>6 DEF RetryNow
    <2>2. /\ IdInv'
          /\ \A v \in Workers : pc[v] \in InHand =>
               \A m \in stream' : m.id = msg[v].id => m = msg[v]
      BY <2>1, IdHandXADD
    <2>3. HandInv'
      BY <2>1, <2>2 DEF HandInv, TypeOK
    <2>4. QED
      BY <2>2, <2>3
  <1>7. CASE Xack(w)
    <2>1. /\ UNCHANGED <<stream, lastId, lastDelivered, msg>>
          /\ pending' = pending \ {msg[w].id} /\ idle' = idle \ {msg[w].id}
          /\ pc[w] \in InHand /\ pc' = [pc EXCEPT ![w] = "xdel"]
      BY <1>7 DEF Xack
    <2>2. IdInv'
      BY <2>1 DEF IdInv
    <2>3. HandInv'
      BY <2>1 DEF HandInv, TypeOK
    <2>4. QED
      BY <2>2, <2>3
  <1>8. CASE Xdel(w)
    <2>1. /\ UNCHANGED <<lastId, lastDelivered, pending, idle, msg>>
          /\ stream' \subseteq stream
          /\ pc[w] \in InHand /\ pc' = [pc EXCEPT ![w] = "report"]
      BY <1>8 DEF Xdel
    <2>2. IdInv'
      BY <2>1 DEF IdInv
    <2>3. HandInv'
      BY <2>1 DEF HandInv, TypeOK
    <2>4. QED
      BY <2>2, <2>3
  <1>9. QED
    BY <1>1, <1>2, <1>3, <1>4, <1>5, <1>6, <1>7, <1>8 DEF WorkerStep

\* Crashes, time and stuttering.
LEMMA OtherIdHand ==
  ASSUME TypeOK, IdInv, HandInv, (\E w \in Workers : Crash(w)) \/ Clock \/ UNCHANGED vars
  PROVE  IdInv' /\ HandInv'
  <1>1. ASSUME NEW w \in Workers, Crash(w) PROVE IdInv' /\ HandInv'
    <2>1. /\ UNCHANGED <<stream, lastId, lastDelivered, pending, idle>>
          /\ pc' = [pc EXCEPT ![w] = "idle"] /\ msg' = [msg EXCEPT ![w] = NoMessage]
      BY <1>1 DEF Crash, queueVars
    <2>2. QED
      BY <2>1 DEF IdInv, HandInv, InHand, TypeOK
  <1>2. CASE BecomeDue \/ UNCHANGED vars
    BY <1>2, IdHandFrame DEF BecomeDue, vars, queueVars, workerVars
  <1>3. ASSUME NEW id \in pending, BecomeIdle(id) PROVE IdInv' /\ HandInv'
    BY <1>3 DEF BecomeIdle, workerVars, IdInv, HandInv
  <1>4. QED
    BY <1>1, <1>2, <1>3 DEF Clock

-----------------------------------------------------------------------------
(* No task is lost *)

\* A task stays safe when settled tasks stay settled and every carrier on which
\* somebody may rely stays one.
LEMMA SafeKept ==
  ASSUME NEW t, NEW a,
         Safe(t, a),
         Settled(t) => Settled(t)',
         \A m \in stream : m.task = t /\ m.attempts >= a /\ Live(m) /\ ~Retiring(m)
                             => m \in stream' /\ Live(m)' /\ ~Retiring(m)',
         \A d \in delayed : d.task = t /\ d.attempts >= a /\ ~Removing(d)
                             => d \in delayed' /\ ~Removing(d)'
  PROVE  Safe(t, a)'
  BY DEF Safe

\* What is safe with more attempts behind it is safe with fewer.
LEMMA SafeDown ==
  ASSUME TypeOK, NEW t, NEW a \in Nat, NEW b \in Nat, b <= a, Safe(t, a)
  PROVE  Safe(t, b)
  <1>1. \A m \in stream : m.attempts \in Nat
    BY DEF TypeOK, Message
  <1>2. \A d \in delayed : d.attempts \in Nat
    BY DEF TypeOK, Retry
  <1>3. QED
    BY <1>1, <1>2 DEF Safe

\* A settled task stays settled.
LEMMA SettledStays ==
  ASSUME NEW t, indexed \subseteq indexed', deadLetters \subseteq deadLetters', Settled(t)
  PROVE  Settled(t)'
  BY DEF Settled, DeadLettered

\* An entry just added by XADD carries its task: it is undelivered, and no
\* worker has it in hand.
LEMMA FreshCarries ==
  ASSUME TypeOK, IdInv, IdInv', HandInv', NEW t, NEW a, NEW b, a >= b,
         XADD(t, a), lastDelivered' = lastDelivered
  PROVE  Safe(t, b)'
  <1>1. PICK new : new = [id |-> lastId + 1, task |-> t, attempts |-> a]
    OBVIOUS
  <1>2. new \in stream' /\ new.id = lastId + 1 /\ new.task = t /\ new.attempts = a
    BY <1>1 DEF XADD
  <1>3. lastId \in Nat /\ lastDelivered' \in Nat /\ lastDelivered' <= lastId
    BY DEF TypeOK, IdInv
  <1>4. Live(new)'
    BY <1>2, <1>3 DEF Live
  <1>5. ~Retiring(new)'
    <2>1. SUFFICES ASSUME NEW w \in Workers, pc'[w] \in {"xack", "xdel"}, msg'[w] = new
                   PROVE  FALSE
      BY DEF Retiring
    <2>2. new.id <= lastDelivered'
      BY <2>1 DEF HandInv, InHand
    <2>3. QED
      BY <1>2, <1>3, <2>2
  <1>6. QED
    BY <1>2, <1>4, <1>5 DEF Safe

\* A step of an API request.
LEMMA ApiSafe ==
  ASSUME TypeOK, IdInv, HandInv, SafeInv, IdInv', HandInv', NEW t \in Tasks, ApiStep(t)
  PROVE  SafeInv'
  <1>1. /\ UNCHANGED <<lastDelivered, pending, delayed, deadLetters, indexed, pc, msg>>
        /\ stream \subseteq stream'
    BY DEF ApiStep, CreateRow, Enqueue, EnqueueError, MarkFailed, ApiCrash, XADD,
           queueVars, workerVars, historyVars
  <1>2. \A u, a : Safe(u, a) => Safe(u, a)'
    BY <1>1, SafeKept DEF Settled, DeadLettered, Live, Retiring, Removing, Promoted
  <1>3. \A u \in Tasks : api'[u] = "accepted" => api[u] = "accepted" \/ Safe(u, 0)'
    <2>1. CASE Enqueue(t)
      <3>1. XADD(t, 0) /\ api' = [api EXCEPT ![t] = "accepted"]
        BY <2>1 DEF Enqueue
      <3>2. Safe(t, 0)'
        BY <3>1, <1>1, FreshCarries
      <3>3. QED
        BY <3>1, <3>2 DEF TypeOK
    <2>2. CASE CreateRow(t) \/ EnqueueError(t) \/ MarkFailed(t) \/ ApiCrash(t)
      BY <2>2 DEF TypeOK, CreateRow, EnqueueError, MarkFailed, ApiCrash
    <2>3. QED
      BY <2>1, <2>2 DEF ApiStep
  <1>4. QED
    BY <1>1, <1>2, <1>3 DEF SafeInv

\* A step of a worker.
LEMMA WorkerSafe ==
  ASSUME TypeOK, IdInv, HandInv, SafeInv, TypeOK', IdInv', HandInv',
         NEW w \in Workers, WorkerStep(w)
  PROVE  SafeInv'
  <1>1. CASE PollDelayed(w) \/ NothingToClaim(w) \/ ReadTimeout(w) \/ MarkRunning(w)
             \/ RunFails(w) \/ Report(w)
    <2>1. /\ UNCHANGED <<stream, lastDelivered, pending, delayed, deadLetters, indexed, api>>
          /\ pc[w] \notin {"zrem", "xack", "xdel"}
          /\ \E p \in {"take", "read", "idle", "run", "retry"} : pc' = [pc EXCEPT ![w] = p]
          /\ \A v \in Workers : v # w => msg'[v] = msg[v]
      BY <1>1 DEF PollDelayed, NothingToClaim, ReadTimeout, MarkRunning, RunningRow, RunFails, Report,
                  queueVars, historyVars, TypeOK
    <2>2. \A v \in Workers : pc'[v] \in {"zrem", "xack", "xdel"} =>
                               v # w /\ pc'[v] = pc[v] /\ msg'[v] = msg[v]
      BY <2>1 DEF TypeOK
    <2>3. \A u, a : Safe(u, a) => Safe(u, a)'
      BY <2>1, <2>2, SafeKept DEF Settled, DeadLettered, Live, Retiring, Removing, Promoted
    <2>4. QED
      BY <2>1, <2>2, <2>3 DEF SafeInv
  <1>2. CASE PromoteAdd(w)
    <2>1. PICK d \in batch[w] :
            /\ XADD(d.task, d.attempts)
            /\ msg' = [msg EXCEPT ![w] = [id |-> lastId + 1, task |-> d.task,
                                          attempts |-> d.attempts]]
      BY <1>2 DEF PromoteAdd
    <2>2. /\ UNCHANGED <<lastDelivered, pending, delayed, deadLetters, indexed, api>>
          /\ pc' = [pc EXCEPT ![w] = "zrem"] /\ pc[w] = "take"
          /\ stream \subseteq stream'
      BY <1>2, <2>1 DEF PromoteAdd, historyVars, XADD
    <2>3. d \in Retry /\ d.attempts \in Nat
      BY DEF TypeOK, Retry
    <2>4. \A b \in Nat : b <= d.attempts => Safe(d.task, b)'
      BY <2>1, <2>2, <2>3, FreshCarries
    <2>5. msg'[w].task = d.task /\ msg'[w].attempts = d.attempts /\ Promoted(w)' = d
      BY <2>1, <2>3 DEF Promoted, Retry, TypeOK
    <2>6. \A v \in Workers : v # w => pc'[v] = pc[v] /\ msg'[v] = msg[v]
      BY <2>1, <2>2 DEF TypeOK
    <2>7. \A e \in delayed : Removing(e)' => Removing(e) \/ e = d
      BY <2>5, <2>6 DEF Removing, Promoted
    <2>8. \A m \in stream : Retiring(m)' => Retiring(m)
      BY <2>2, <2>6 DEF Retiring, TypeOK
    <2>9. ASSUME NEW u, NEW a \in Nat, Safe(u, a)
          PROVE  Safe(u, a)'
      <3>1. CASE u = d.task /\ a <= d.attempts
        BY <2>4, <3>1
      <3>2. CASE ~(u = d.task /\ a <= d.attempts)
        <4>1. \A e \in delayed : e.task = u /\ e.attempts >= a => e # d
          BY <2>3, <3>2
        <4>2. \A m \in stream : Live(m) => m \in stream' /\ Live(m)'
          BY <2>2 DEF Live
        <4>3. Settled(u) => Settled(u)'
          BY <2>2 DEF Settled, DeadLettered
        <4>4. QED
          BY <2>2, <2>7, <2>8, <2>9, <4>1, <4>2, <4>3, SafeKept
      <3>3. QED
        BY <3>1, <3>2
    <2>10. \A v \in Workers : pc[v] \in {"zrem", "xack", "xdel"} =>
                                msg[v].attempts \in Nat /\ msg[v].attempts + 1 \in Nat
      BY DEF HandInv, InHand, Message
    <2>11. QED
      BY <2>2, <2>3, <2>4, <2>5, <2>6, <2>9, <2>10 DEF SafeInv, TypeOK
  <1>3. CASE PromoteRemove(w)
    <2>1. /\ UNCHANGED <<stream, lastDelivered, pending, deadLetters, indexed, api>>
          /\ delayed' = delayed \ {Promoted(w)}
          /\ pc[w] = "zrem" /\ pc' = [pc EXCEPT ![w] = "take"]
          /\ msg' = [msg EXCEPT ![w] = NoMessage]
      BY <1>3 DEF PromoteRemove, historyVars
    <2>2. \A v \in Workers : pc'[v] \in {"zrem", "xack", "xdel"} =>
                               v # w /\ pc'[v] = pc[v] /\ msg'[v] = msg[v]
      BY <2>1 DEF TypeOK
    <2>3. Removing(Promoted(w))
      BY <2>1 DEF Removing
    <2>4. \A u, a : Safe(u, a) => Safe(u, a)'
      BY <2>1, <2>2, <2>3, SafeKept DEF Settled, DeadLettered, Live, Retiring, Removing, Promoted
    <2>5. QED
      BY <2>1, <2>2, <2>4 DEF SafeInv
  <1>4. CASE Claim(w)
    <2>1. /\ UNCHANGED <<stream, lastDelivered, pending, delayed, deadLetters, indexed, api>>
          /\ pc[w] = "take" /\ pc' = [pc EXCEPT ![w] = "mark"]
          /\ \A v \in Workers : v # w => msg'[v] = msg[v]
      BY <1>4 DEF Claim, historyVars, TypeOK
    <2>2. \A v \in Workers : pc'[v] \in {"zrem", "xack", "xdel"} =>
                               v # w /\ pc'[v] = pc[v] /\ msg'[v] = msg[v]
      BY <2>1 DEF TypeOK
    <2>3. \A u, a : Safe(u, a) => Safe(u, a)'
      BY <2>1, <2>2, SafeKept DEF Settled, DeadLettered, Live, Retiring, Removing, Promoted
    <2>4. QED
      BY <2>1, <2>2, <2>3 DEF SafeInv
  <1>5. CASE ReadNew(w)
    <2> DEFINE m == First(Undelivered)
    <2>1. m \in stream /\ m.id > lastDelivered /\ \A n \in Undelivered : m.id <= n.id
      <3>1. Undelivered \subseteq Message /\ Undelivered # {}
        BY <1>5 DEF ReadNew, Deliver, Undelivered, TypeOK
      <3>2. m \in Undelivered /\ \A n \in Undelivered : m.id <= n.id
        BY <3>1, FirstIsFirst
      <3>3. QED
        BY <3>2 DEF Undelivered
    <2>2. /\ UNCHANGED <<stream, delayed, deadLetters, indexed, api>>
          /\ lastDelivered' = m.id /\ pending' = pending \cup {m.id}
          /\ pc[w] = "read" /\ pc' = [pc EXCEPT ![w] = "mark"]
          /\ \A v \in Workers : v # w => msg'[v] = msg[v]
      BY <1>5 DEF ReadNew, Deliver, historyVars, TypeOK
    <2>3. m.id \in Nat /\ \A n \in stream : n.id \in Nat
      BY <2>1 DEF TypeOK, Message
    <2> HIDE DEF m
    <2>4. \A n \in stream : Live(n) => Live(n)'
      BY <2>1, <2>2, <2>3 DEF Live, Undelivered
    <2>5. \A v \in Workers : pc'[v] \in {"zrem", "xack", "xdel"} =>
                               v # w /\ pc'[v] = pc[v] /\ msg'[v] = msg[v]
      BY <2>2 DEF TypeOK
    <2>6. \A u, a : Safe(u, a) => Safe(u, a)'
      BY <2>2, <2>4, <2>5, SafeKept DEF Settled, DeadLettered, Retiring, Removing, Promoted
    <2>7. QED
      BY <2>2, <2>5, <2>6 DEF SafeInv
  <1>6. CASE RunSucceeds(w) \/ RetryDead(w)
    <2>1. /\ UNCHANGED <<stream, lastDelivered, pending, delayed, api, msg>>
          /\ indexed \subseteq indexed' /\ deadLetters \subseteq deadLetters'
          /\ pc[w] \in {"run", "retry"} /\ pc' = [pc EXCEPT ![w] = "xack"]
      BY <1>6 DEF RunSucceeds, RetryDead, queueVars, historyVars
    <2>2. Settled(msg[w].task)'
      <3>1. CASE RunSucceeds(w)
        BY <2>1, <3>1 DEF RunSucceeds, Settled
      <3>2. CASE RetryDead(w)
        <4>1. [task |-> msg[w].task, attempts |-> NextAttempt(msg[w])] \in deadLetters'
          BY <3>2 DEF RetryDead
        <4>2. QED
          BY <2>1, <4>1 DEF Settled, DeadLettered
      <3>3. QED
        BY <1>6, <3>1, <3>2
    <2>3. \A v \in Workers : v # w => pc'[v] = pc[v]
      BY <2>1 DEF TypeOK
    <2>4. pc'[w] = "xack"
      BY <2>1 DEF TypeOK
    <2>5. ASSUME NEW u, NEW a, Safe(u, a)
          PROVE  Safe(u, a)'
      <3>1. CASE u = msg[w].task
        BY <2>1, <2>2, <3>1 DEF Safe
      <3>2. CASE u # msg[w].task
        <4>1. \A m \in stream : m.task = u /\ ~Retiring(m) => ~Retiring(m)'
          BY <2>1, <2>3, <3>2 DEF Retiring
        <4>2. \A d \in delayed : ~Removing(d) => ~Removing(d)'
          BY <2>1, <2>3, <2>4 DEF Removing, Promoted
        <4>3. Settled(u) => Settled(u)'
          BY <2>1, SettledStays
        <4>4. \A m \in stream : Live(m) => Live(m)'
          BY <2>1 DEF Live
        <4>5. QED
          BY <2>1, <2>5, <4>1, <4>2, <4>3, <4>4, SafeKept
      <3>3. QED
        BY <3>1, <3>2
    <2>6. Safe(msg[w].task, msg[w].attempts + 1)'
      BY <2>1, <2>2 DEF Safe
    <2>7. QED
      BY <2>1, <2>3, <2>4, <2>5, <2>6 DEF SafeInv
  <1>7. CASE RetryLater(w) \/ RetryNow(w)
    <2>1. /\ UNCHANGED <<lastDelivered, pending, deadLetters, indexed, api, msg>>
          /\ stream \subseteq stream' /\ delayed \subseteq delayed'
          /\ pc[w] = "retry" /\ pc' = [pc EXCEPT ![w] = "xack"]
      BY <1>7 DEF RetryLater, RetryNow, XADD, historyVars
    <2>a. PICK t, k : t = msg[w].task /\ k = msg[w].attempts
      OBVIOUS
    <2>2. msg[w] \in Message /\ k \in Nat /\ NextAttempt(msg[w]) = k + 1 /\ k + 1 \in Nat
      BY <2>1, <2>a DEF HandInv, InHand, Message, NextAttempt
    <2>3. \A v \in Workers : v # w => pc'[v] = pc[v]
      BY <2>1 DEF TypeOK
    <2>4. pc'[w] = "xack"
      BY <2>1 DEF TypeOK
    <2>5. \A d : Removing(d)' <=> Removing(d)
      BY <2>1, <2>3, <2>4 DEF Removing, Promoted
    <2>6. \A m : Retiring(m)' => Retiring(m) \/ m = msg[w]
      BY <2>1, <2>3 DEF Retiring
    <2>7. \A m \in stream : Live(m) => m \in stream' /\ Live(m)'
      BY <2>1 DEF Live
    <2>8. \A u : Settled(u) => Settled(u)'
      BY <2>1 DEF Settled, DeadLettered
    <2>9. ASSUME NEW u, NEW a, Safe(u, a), u # t \/ (a \in Nat /\ a > k)
          PROVE  Safe(u, a)'
      <3>1. \A m \in stream : m.task = u /\ m.attempts >= a => m # msg[w]
        BY <2>2, <2>a, <2>9
      <3>2. QED
        BY <2>1, <2>5, <2>6, <2>7, <2>8, <2>9, <3>1, SafeKept
    <2>10. Safe(t, k + 1)'
      <3>1. CASE RetryNow(w)
        <4>1. XADD(t, k + 1) /\ lastDelivered' = lastDelivered
          BY <2>2, <2>a, <3>1 DEF RetryNow
        <4>2. QED
          BY <2>2, <4>1, FreshCarries
      <3>2. CASE RetryLater(w)
        <4>0. PICK d : d = [task |-> t, attempts |-> k + 1]
          OBVIOUS
        <4>1. d \in delayed'
          BY <2>2, <2>a, <3>2, <4>0 DEF RetryLater
        <4>2. d.task = t /\ d.attempts = k + 1
          BY <4>0
        <4>3. CASE ~Removing(d)
          <5>1. ~Removing(d)'
            BY <2>5, <4>3
          <5>2. QED
            BY <2>2, <4>1, <4>2, <5>1 DEF Safe
        <4>4. CASE Removing(d)
          <5>1. PICK v \in Workers : pc[v] = "zrem" /\ Promoted(v) = d
            BY <4>4 DEF Removing
          <5>2. msg[v].task = t /\ msg[v].attempts = k + 1
            BY <4>2, <5>1 DEF Promoted
          <5>3. Safe(t, k + 1)
            BY <5>1, <5>2 DEF SafeInv
          <5>4. QED
            BY <2>2, <2>9, <5>3
        <4>5. QED
          BY <4>3, <4>4
      <3>3. QED
        BY <1>7, <3>1, <3>2
    <2>11. ASSUME NEW u, NEW a \in Nat, Safe(u, a)
           PROVE  Safe(u, a)'
      <3>1. CASE u = t /\ a <= k
        <4>1. k + 1 \in Nat /\ a <= k + 1
          BY <2>2, <3>1
        <4>2. \A m \in stream' : m.attempts \in Nat
          BY DEF TypeOK, Message
        <4>3. \A d \in delayed' : d.attempts \in Nat
          BY DEF TypeOK, Retry
        <4>4. QED
          BY <2>10, <3>1, <4>1, <4>2, <4>3 DEF Safe
      <3>2. CASE u # t \/ a > k
        BY <2>9, <2>11, <3>2
      <3>3. QED
        BY <2>2, <3>1, <3>2
    <2>12. \A v \in Workers : pc[v] \in {"zrem", "xack", "xdel"} =>
                                msg[v].attempts \in Nat /\ msg[v].attempts + 1 \in Nat
      BY DEF HandInv, InHand, Message
    <2>13. QED
      BY <2>1, <2>a, <2>3, <2>4, <2>10, <2>11, <2>12 DEF SafeInv
  <1>8. CASE Xack(w) \/ Xdel(w)
    <2>1. /\ UNCHANGED <<lastDelivered, delayed, deadLetters, indexed, api, msg>>
          /\ pc[w] \in {"xack", "xdel"}
          /\ \E p \in {"xdel", "report"} : pc' = [pc EXCEPT ![w] = p]
      BY <1>8 DEF Xack, Xdel, historyVars
    <2>2. \A m \in stream : m.id # msg[w].id => m \in stream' /\ (Live(m) => Live(m)')
      BY <1>8 DEF Xack, Xdel, Live
    <2>3. \A m \in stream : m.id = msg[w].id => Retiring(m)
      BY <2>1 DEF HandInv, InHand, Retiring
    <2>4. \A v \in Workers : pc'[v] \in {"zrem", "xack", "xdel"} =>
                               pc[v] = pc'[v] \/ (v = w /\ pc[v] = "xack")
      BY <2>1, <1>8 DEF TypeOK, Xack, Xdel
    <2>5. \A m : Retiring(m)' => Retiring(m)
      BY <2>1, <2>4 DEF Retiring
    <2>6. \A d : Removing(d)' => Removing(d)
      BY <2>1, <2>4 DEF Removing, Promoted
    <2>7. \A u : Settled(u) => Settled(u)'
      BY <2>1 DEF Settled, DeadLettered
    <2>8. \A u, a : Safe(u, a) => Safe(u, a)'
      BY <2>1, <2>2, <2>3, <2>5, <2>6, <2>7, SafeKept
    <2>9. QED
      BY <2>1, <2>4, <2>8 DEF SafeInv
  <1>9. QED
    BY <1>1, <1>2, <1>3, <1>4, <1>5, <1>6, <1>7, <1>8 DEF WorkerStep

\* Crashes, time and stuttering: a dead worker retires and removes nothing.
LEMMA OtherSafe ==
  ASSUME TypeOK, SafeInv, (\E w \in Workers : Crash(w)) \/ Clock \/ UNCHANGED vars
  PROVE  SafeInv'
  <1>1. ASSUME NEW w \in Workers, Crash(w) PROVE SafeInv'
    <2>1. /\ UNCHANGED <<stream, lastDelivered, pending, delayed, deadLetters, indexed, api>>
          /\ pc' = [pc EXCEPT ![w] = "idle"] /\ msg' = [msg EXCEPT ![w] = NoMessage]
      BY <1>1 DEF Crash, queueVars, historyVars
    <2>2. \A v \in Workers : pc'[v] \in {"zrem", "xack", "xdel"} =>
                               v # w /\ pc'[v] = pc[v] /\ msg'[v] = msg[v]
      BY <2>1 DEF TypeOK
    <2>3. \A u, a : Safe(u, a) => Safe(u, a)'
      BY <2>1, <2>2, SafeKept DEF Settled, DeadLettered, Live, Retiring, Removing, Promoted
    <2>4. QED
      BY <2>1, <2>2, <2>3 DEF SafeInv
  <1>2. CASE Clock \/ UNCHANGED vars
    <2>1. UNCHANGED <<stream, lastDelivered, pending, delayed, deadLetters, indexed, api, pc, msg>>
      BY <1>2 DEF Clock, BecomeDue, BecomeIdle, vars, queueVars, workerVars, historyVars
    <2>2. QED
      BY <2>1 DEF SafeInv, Safe, Settled, DeadLettered, Live, Retiring, Removing, Promoted
  <1>3. QED
    BY <1>1, <1>2

-----------------------------------------------------------------------------
(* Attempt numbers count failed runs *)

\* More failed runs never break a chain.
LEMMA ChainKept ==
  ASSUME NEW t, NEW a, Chain(t, a), failedAt \subseteq failedAt'
  PROVE  Chain(t, a)'
  BY DEF Chain

\* A failed run at the end of a chain extends it, or completes all attempts.
LEMMA ChainNext ==
  ASSUME NEW t, NEW a \in Nat, Chain(t, a), <<t, a>> \in failedAt
  PROVE  /\ a + 1 < MaxAttempts => Chain(t, a + 1)
         /\ a + 1 >= MaxAttempts =>
              /\ a + 1 = MaxAttempts
              /\ \A b \in 0..(MaxAttempts - 1) : <<t, b>> \in failedAt
  <1>1. MaxAttempts \in Nat /\ a < MaxAttempts /\ \A b \in 0..(a - 1) : <<t, b>> \in failedAt
    BY MaxAttemptsAssumption DEF Chain
  <1>2. \A b \in 0..a : b = a \/ b \in 0..(a - 1)
    OBVIOUS
  <1>3. (a + 1) - 1 = a
    OBVIOUS
  <1>4. a + 1 >= MaxAttempts => a + 1 = MaxAttempts /\ MaxAttempts - 1 = a
    BY <1>1
  <1>5. QED
    BY <1>1, <1>2, <1>3, <1>4 DEF Chain

\* Steps that only add failed runs, and take nothing new in hand.
LEMMA ChainFrame ==
  ASSUME TypeOK, ChainInv, DeadOnlyAfterMaxFailures,
         stream' \subseteq stream, delayed' \subseteq delayed, due' \subseteq delayed',
         deadLetters' = deadLetters, failedAt \subseteq failedAt',
         \A w \in Workers :
           /\ batch'[w] \subseteq batch[w] \cup delayed
           /\ pc'[w] \in InHand =>
                \/ msg'[w] \in stream
                \/ pc[w] \in InHand /\ msg'[w] = msg[w]
           /\ pc'[w] = "retry" => <<msg'[w].task, msg'[w].attempts>> \in failedAt'
  PROVE  ChainInv' /\ DeadOnlyAfterMaxFailures'
  <1>1. \A t, a : Chain(t, a) => Chain(t, a)'
    BY ChainKept
  <1>2. \A w \in Workers : \A d \in batch'[w] : Chain(d.task, d.attempts)
    BY DEF ChainInv
  <1>3. \A w \in Workers : pc'[w] \in InHand => Chain(msg'[w].task, msg'[w].attempts)
    BY DEF ChainInv
  <1>4. ChainInv'
    BY <1>1, <1>2, <1>3 DEF ChainInv
  <1>5. DeadOnlyAfterMaxFailures'
    BY DEF DeadOnlyAfterMaxFailures
  <1>6. QED
    BY <1>4, <1>5

\* An XADD of a task and attempt number that have their chain.
LEMMA ChainXADD ==
  ASSUME ChainInv, NEW t, NEW a, XADD(t, a), Chain(t, a), failedAt' = failedAt
  PROVE  \A m \in stream' : Chain(m.task, m.attempts)'
  BY DEF XADD, ChainInv, Chain

\* A step of an API request enqueues attempt 0.
LEMMA ApiChain ==
  ASSUME TypeOK, ChainInv, DeadOnlyAfterMaxFailures, NEW t \in Tasks, ApiStep(t)
  PROVE  ChainInv' /\ DeadOnlyAfterMaxFailures'
  <1>1. UNCHANGED <<delayed, due, deadLetters, batch, pc, msg, failedAt>>
    BY DEF ApiStep, CreateRow, Enqueue, EnqueueError, MarkFailed, ApiCrash,
           queueVars, workerVars, historyVars
  <1>2. Chain(t, 0)
    BY MaxAttemptsAssumption DEF Chain
  <1>3. (\A m \in stream' : Chain(m.task, m.attempts)')
    <2>1. CASE XADD(t, 0)
      BY <1>1, <1>2, <2>1, ChainXADD
    <2>2. CASE UNCHANGED stream
      BY <1>1, <2>2 DEF ChainInv, Chain
    <2>3. QED
      BY <2>1, <2>2 DEF ApiStep, CreateRow, Enqueue, EnqueueError, MarkFailed, ApiCrash, queueVars
  <1>4. QED
    BY <1>1, <1>3 DEF ChainInv, Chain, DeadOnlyAfterMaxFailures

\* A step of a worker.
LEMMA WorkerChain ==
  ASSUME TypeOK, HandInv, ChainInv, DeadOnlyAfterMaxFailures,
         NEW w \in Workers, WorkerStep(w)
  PROVE  ChainInv' /\ DeadOnlyAfterMaxFailures'
  <1>1. CASE PollDelayed(w) \/ PromoteRemove(w) \/ NothingToClaim(w) \/ ReadTimeout(w)
             \/ Report(w) \/ MarkRunning(w) \/ RunSucceeds(w) \/ Xack(w) \/ Xdel(w)
    <2>1. /\ stream' \subseteq stream /\ delayed' \subseteq delayed /\ due' \subseteq delayed'
          /\ UNCHANGED <<deadLetters, failedAt>>
      BY <1>1 DEF PollDelayed, PromoteRemove, NothingToClaim, ReadTimeout, Report, MarkRunning, RunningRow,
                  RunSucceeds, Xack, Xdel, queueVars, historyVars, ChainInv
    <2>2. ASSUME NEW v \in Workers
          PROVE  /\ batch'[v] \subseteq batch[v] \cup delayed
                 /\ pc'[v] \in InHand => pc[v] \in InHand /\ msg'[v] = msg[v]
                 /\ pc'[v] = "retry" => pc[v] = "retry" /\ msg'[v] = msg[v]
      BY <1>1 DEF PollDelayed, PromoteRemove, NothingToClaim, ReadTimeout, Report, MarkRunning, RunningRow,
                  RunSucceeds, Xack, Xdel, TypeOK, InHand, ChainInv
    <2>3. QED
      BY <2>1, <2>2, ChainFrame DEF ChainInv
  <1>2. CASE Claim(w) \/ ReadNew(w)
    <2>1. PICK m \in stream : msg' = [msg EXCEPT ![w] = m]
      <3>1. CASE Claim(w)
        BY <3>1, FirstIsFirst DEF Claim, Claimable, TypeOK
      <3>2. CASE ReadNew(w)
        BY <3>2, FirstIsFirst DEF ReadNew, Deliver, Undelivered, TypeOK
      <3>3. QED
        BY <1>2, <3>1, <3>2
    <2>2. /\ UNCHANGED <<stream, delayed, due, deadLetters, failedAt, batch>>
          /\ pc' = [pc EXCEPT ![w] = "mark"]
      BY <1>2 DEF Claim, ReadNew, Deliver, historyVars
    <2>3. ASSUME NEW v \in Workers
          PROVE  /\ pc'[v] \in InHand => msg'[v] \in stream \/ (pc[v] \in InHand /\ msg'[v] = msg[v])
                 /\ pc'[v] = "retry" => pc[v] = "retry" /\ msg'[v] = msg[v]
      BY <2>1, <2>2 DEF TypeOK
    <2>4. due' \subseteq delayed'
      BY <2>2 DEF ChainInv
    <2>5. QED
      BY <2>2, <2>3, <2>4, ChainFrame DEF ChainInv
  <1>3. CASE PromoteAdd(w)
    <2>1. PICK d \in batch[w] : XADD(d.task, d.attempts)
      BY <1>3 DEF PromoteAdd
    <2>2. /\ UNCHANGED <<delayed, due, deadLetters, failedAt, batch>>
          /\ pc' = [pc EXCEPT ![w] = "zrem"]
          /\ \A v \in Workers : v # w => msg'[v] = msg[v]
      BY <1>3 DEF PromoteAdd, historyVars, TypeOK
    <2>3. \A m \in stream' : Chain(m.task, m.attempts)'
      BY <2>1, <2>2, ChainXADD DEF ChainInv
    <2>4. \A v \in Workers : pc'[v] \in InHand => v # w /\ pc'[v] = pc[v]
      BY <2>2 DEF TypeOK, InHand
    <2>5. QED
      BY <2>2, <2>3, <2>4 DEF ChainInv, Chain, DeadOnlyAfterMaxFailures, InHand
  <1>4. CASE RunFails(w)
    <2>1. /\ UNCHANGED <<stream, delayed, due, deadLetters, batch, msg>>
          /\ failedAt' = failedAt \cup {<<msg[w].task, msg[w].attempts>>}
          /\ pc[w] = "run" /\ pc' = [pc EXCEPT ![w] = "retry"]
      BY <1>4 DEF RunFails, queueVars
    <2>2. ASSUME NEW v \in Workers
          PROVE  /\ pc'[v] \in InHand => pc[v] \in InHand /\ msg'[v] = msg[v]
                 /\ pc'[v] = "retry" => <<msg'[v].task, msg'[v].attempts>> \in failedAt'
      BY <2>1 DEF TypeOK, InHand, ChainInv
    <2>3. due' \subseteq delayed'
      BY <2>1 DEF ChainInv
    <2>4. QED
      BY <2>1, <2>2, <2>3, ChainFrame
  <1>5. CASE RetryDead(w) \/ RetryLater(w) \/ RetryNow(w)
    <2>1. PICK t, k : t = msg[w].task /\ k = msg[w].attempts
      OBVIOUS
    <2>2. /\ UNCHANGED <<failedAt, batch, msg>>
          /\ pc[w] = "retry" /\ pc' = [pc EXCEPT ![w] = "xack"]
      BY <1>5 DEF RetryDead, RetryLater, RetryNow, historyVars
    <2>3. k \in Nat /\ Chain(t, k) /\ <<t, k>> \in failedAt /\ NextAttempt(msg[w]) = k + 1
      BY <2>1, <2>2 DEF HandInv, ChainInv, InHand, Message, NextAttempt
    <2>4. \A v \in Workers :
            /\ pc'[v] \in InHand => pc[v] \in InHand
            /\ pc'[v] = "retry" => pc[v] = "retry"
      BY <2>2 DEF TypeOK, InHand
    <2>5. /\ \A m \in stream' : Chain(m.task, m.attempts)
          /\ \A d \in delayed' : Chain(d.task, d.attempts)
          /\ due' \subseteq delayed'
          /\ DeadOnlyAfterMaxFailures'
      <3>1. CASE RetryDead(w)
        <4>1. UNCHANGED <<stream, delayed, due>> /\ k + 1 >= MaxAttempts
          BY <2>3, <3>1 DEF RetryDead
        <4>2. deadLetters' = deadLetters \cup {[task |-> t, attempts |-> k + 1]}
          BY <2>1, <2>3, <3>1 DEF RetryDead
        <4>3. k + 1 = MaxAttempts /\ \A b \in 0..(MaxAttempts - 1) : <<t, b>> \in failedAt
          BY <2>3, <4>1, ChainNext
        <4>4. DeadOnlyAfterMaxFailures'
          BY <2>2, <4>2, <4>3 DEF DeadOnlyAfterMaxFailures
        <4>5. QED
          BY <4>1, <4>4 DEF ChainInv
      <3>2. CASE RetryLater(w) \/ RetryNow(w)
        <4>1. k + 1 < MaxAttempts /\ deadLetters' = deadLetters
          BY <2>3, <3>2 DEF RetryLater, RetryNow
        <4>2. Chain(t, k + 1)
          BY <2>3, <4>1, ChainNext
        <4>3. /\ \A m \in stream' : m \in stream \/ (m.task = t /\ m.attempts = k + 1)
              /\ \A d \in delayed' : d \in delayed \/ (d.task = t /\ d.attempts = k + 1)
          BY <2>1, <2>3, <3>2 DEF RetryLater, RetryNow, XADD
        <4>4. due' \subseteq delayed'
          BY <3>2 DEF RetryLater, RetryNow, ChainInv
        <4>5. DeadOnlyAfterMaxFailures'
          BY <2>2, <4>1 DEF DeadOnlyAfterMaxFailures
        <4>6. QED
          BY <4>2, <4>3, <4>4, <4>5 DEF ChainInv
      <3>3. QED
        BY <1>5, <3>1, <3>2
    <2>6. QED
      BY <2>2, <2>4, <2>5 DEF ChainInv, Chain
  <1>6. QED
    BY <1>1, <1>2, <1>3, <1>4, <1>5 DEF WorkerStep

\* Crashes, time and stuttering.
LEMMA OtherChain ==
  ASSUME TypeOK, ChainInv, DeadOnlyAfterMaxFailures,
         (\E w \in Workers : Crash(w)) \/ Clock \/ UNCHANGED vars
  PROVE  ChainInv' /\ DeadOnlyAfterMaxFailures'
  <1>1. /\ UNCHANGED <<stream, delayed, deadLetters, failedAt>>
        /\ due' \subseteq delayed'
    BY DEF Crash, Clock, BecomeDue, BecomeIdle, vars, queueVars, historyVars, ChainInv
  <1>2. ASSUME NEW v \in Workers
        PROVE  /\ batch'[v] \subseteq batch[v]
               /\ pc'[v] \in InHand => pc[v] \in InHand /\ msg'[v] = msg[v]
               /\ pc'[v] = "retry" => pc[v] = "retry" /\ msg'[v] = msg[v]
    BY DEF Crash, Clock, BecomeDue, BecomeIdle, vars, workerVars, TypeOK, InHand
  <1>3. QED
    BY <1>1, <1>2, ChainFrame DEF ChainInv

-----------------------------------------------------------------------------
(* The inductive invariant *)

\* The inductive invariant holds initially.
LEMMA InitInv == Init => IInv
  BY InitType DEF Init, IInv, IdInv, HandInv, InHand, SafeInv, ChainInv, DeadOnlyAfterMaxFailures

\* Every step preserves the inductive invariant.
LEMMA NextInv == IInv /\ [Next]_vars => IInv'
  <1>1. SUFFICES ASSUME IInv, [Next]_vars PROVE IInv'
    OBVIOUS
  <1>2. TypeOK /\ IdInv /\ HandInv /\ SafeInv /\ ChainInv /\ DeadOnlyAfterMaxFailures
    BY <1>1 DEF IInv
  <1>3. ASSUME NEW t \in Tasks, ApiStep(t) PROVE IInv'
    <2>1. TypeOK'
      BY <1>2, <1>3, ApiType
    <2>2. IdInv' /\ HandInv'
      BY <1>2, <1>3, ApiIdHand
    <2>3. SafeInv'
      BY <1>2, <1>3, <2>2, ApiSafe
    <2>4. ChainInv' /\ DeadOnlyAfterMaxFailures'
      BY <1>2, <1>3, ApiChain
    <2>5. QED
      BY <2>1, <2>2, <2>3, <2>4 DEF IInv
  <1>4. ASSUME NEW w \in Workers, WorkerStep(w) PROVE IInv'
    <2>1. TypeOK'
      BY <1>2, <1>4, WorkerType
    <2>2. IdInv' /\ HandInv'
      BY <1>2, <1>4, WorkerIdHand
    <2>3. SafeInv'
      BY <1>2, <1>4, <2>1, <2>2, WorkerSafe
    <2>4. ChainInv' /\ DeadOnlyAfterMaxFailures'
      BY <1>2, <1>4, WorkerChain
    <2>5. QED
      BY <2>1, <2>2, <2>3, <2>4 DEF IInv
  <1>5. CASE (\E w \in Workers : Crash(w)) \/ Clock \/ UNCHANGED vars
    BY <1>2, <1>5, OtherType, OtherIdHand, OtherSafe, OtherChain DEF IInv
  <1>6. QED
    BY <1>1, <1>3, <1>4, <1>5 DEF Next

-----------------------------------------------------------------------------
(* The rows tell the truth *)

\* What has happened is not undone.
LEMMA HistoryGrows ==
  ASSUME [Next]_vars
  PROVE  indexed \subseteq indexed' /\ failedAt \subseteq failedAt' /\ deadLetters \subseteq deadLetters'
  <1> USE DEF queueVars, historyVars
  <1>1. ASSUME NEW t \in Tasks, ApiStep(t) PROVE UNCHANGED <<indexed, failedAt, deadLetters>>
    BY <1>1 DEF ApiStep, CreateRow, Enqueue, EnqueueError, MarkFailed, ApiCrash
  <1>2. ASSUME NEW w \in Workers, WorkerStep(w)
        PROVE  indexed \subseteq indexed' /\ failedAt \subseteq failedAt'
               /\ deadLetters \subseteq deadLetters'
    BY <1>2 DEF WorkerStep, PollDelayed, PromoteAdd, PromoteRemove, Claim, NothingToClaim,
                ReadNew, ReadTimeout, MarkRunning, RunSucceeds, RunFails, RetryDead,
                RetryLater, RetryNow, Xack, Xdel, Report
  <1>3. CASE (\E w \in Workers : Crash(w)) \/ Clock \/ UNCHANGED vars
    BY <1>3 DEF Crash, Clock, BecomeDue, BecomeIdle, vars
  <1>4. QED
    BY <1>1, <1>2, <1>3 DEF Next

\* Something is done about a task only once its row is there.
LEMMA WorkerUntouched ==
  ASSUME IInv, NEW t \in Tasks, Untouched(t), NEW w \in Workers, WorkerStep(w)
  PROVE  Untouched(t)'
  <1> USE DEF IInv, TypeOK, HandInv, InHand, Untouched, queueVars, historyVars
  <1>1. CASE PollDelayed(w) \/ NothingToClaim(w) \/ ReadTimeout(w) \/ MarkRunning(w) \/ Report(w)
             \/ Xack(w) \/ Xdel(w)
    BY <1>1 DEF PollDelayed, NothingToClaim, ReadTimeout, MarkRunning, Report, Xack, Xdel, ChainInv
  <1>2. CASE PromoteAdd(w)
    BY <1>2 DEF PromoteAdd, XADD
  <1>3. CASE PromoteRemove(w)
    BY <1>3 DEF PromoteRemove
  <1>4. CASE Claim(w)
    <2>1. PICK m \in stream : msg' = [msg EXCEPT ![w] = m]
      BY <1>4, FirstIsFirst DEF Claim, Claimable
    <2>2. QED
      BY <1>4, <2>1 DEF Claim
  <1>5. CASE ReadNew(w)
    <2>1. PICK m \in stream : msg' = [msg EXCEPT ![w] = m]
      BY <1>5, FirstIsFirst DEF ReadNew, Undelivered
    <2>2. QED
      BY <1>5, <2>1 DEF ReadNew
  <1>6. CASE RunSucceeds(w) \/ RunFails(w)
    BY <1>6 DEF RunSucceeds, RunFails
  <1>7. CASE RetryDead(w) \/ RetryLater(w)
    BY <1>7 DEF RetryDead, RetryLater
  <1>8. CASE RetryNow(w)
    BY <1>8 DEF RetryNow, XADD
  <1>9. QED
    BY <1>1, <1>2, <1>3, <1>4, <1>5, <1>6, <1>7, <1>8 DEF WorkerStep

LEMMA OtherUntouched ==
  ASSUME IInv, NEW t \in Tasks, Untouched(t), api[t] = "start",
         (\E u \in Tasks : ApiStep(u)) \/ (\E w \in Workers : Crash(w)) \/ Clock \/ UNCHANGED vars
  PROVE  Untouched(t)'
  <1> USE DEF IInv, TypeOK, HandInv, InHand, Untouched, queueVars, historyVars, workerVars
  <1>1. ASSUME NEW u \in Tasks, Enqueue(u) \/ EnqueueError(u) PROVE Untouched(t)'
    <2>1. u # t /\ UNCHANGED <<indexed, failedAt, delayed, batch, pc, msg>>
      BY <1>1 DEF Enqueue, EnqueueError
    <2>2. \A m \in stream' : m.task # t
      BY <1>1, <2>1 DEF Enqueue, EnqueueError, XADD
    <2>3. QED
      BY <2>1, <2>2
  <1>2. ASSUME NEW u \in Tasks, CreateRow(u) \/ MarkFailed(u) \/ ApiCrash(u) PROVE Untouched(t)'
    BY <1>2 DEF CreateRow, MarkFailed, ApiCrash
  <1>3. ASSUME NEW w \in Workers, Crash(w) PROVE Untouched(t)'
    BY <1>3 DEF Crash
  <1>4. CASE Clock \/ UNCHANGED vars
    BY <1>4 DEF Clock, BecomeDue, BecomeIdle, vars
  <1>5. QED
    BY <1>1, <1>2, <1>3, <1>4 DEF ApiStep

\* What a worker has to report stays true until it does.
LEMMA ReportableStays ==
  ASSUME NEW w, Reportable(w), outcome'[w] = outcome[w], msg'[w] = msg[w],
         indexed \subseteq indexed', failedAt \subseteq failedAt', deadLetters \subseteq deadLetters'
  PROVE  Reportable(w)'
  BY DEF Reportable, DeadLettered

\* A step that writes no row and ends no run.
LEMMA RowFrame ==
  ASSUME RowInv, [Next]_vars,
         \A t \in Tasks : api'[t] = "start" => Untouched(t)',
         jobs' = jobs, indexed' = indexed, failedAt' = failedAt,
         \A w \in Workers :
           /\ pc'[w] = "run" => pc[w] = "run" /\ msg'[w] = msg[w]
           /\ pc'[w] \in {"xack", "xdel", "report"} =>
                \/ /\ pc[w] \in {"xack", "xdel", "report"}
                   /\ msg'[w] = msg[w] /\ outcome'[w] = outcome[w]
                \/ Reportable(w)'
  PROVE  RowInv'
  <1>1. \A w \in Workers : pc'[w] \in {"xack", "xdel", "report"} => Reportable(w)'
    BY HistoryGrows, ReportableStays DEF RowInv
  <1>2. JobRowTruthful'
    BY HistoryGrows DEF RowInv, JobRowTruthful, DeadLettered
  <1>3. QED
    BY <1>1, <1>2 DEF RowInv

LEMMA ApiRow ==
  ASSUME IInv, RowInv, NEW t \in Tasks, ApiStep(t)
  PROVE  RowInv'
  <1>1. [Next]_vars /\ UNCHANGED <<indexed, failedAt, deadLetters, pc, msg, batch, outcome>>
    BY DEF Next, ApiStep, CreateRow, Enqueue, EnqueueError, MarkFailed, ApiCrash, queueVars,
           workerVars, historyVars
  <1>2. \A u \in Tasks : api'[u] = "start" => Untouched(u)'
    <2>1. ASSUME NEW u \in Tasks, api'[u] = "start" PROVE api[u] = "start"
      BY <2>1 DEF ApiStep, CreateRow, Enqueue, EnqueueError, MarkFailed, ApiCrash, IInv, TypeOK
    <2>2. QED
      BY <2>1, OtherUntouched DEF RowInv
  <1>3. CASE CreateRow(t)
    <2>1. Untouched(t) /\ jobs' = [jobs EXCEPT ![t] = [status |-> "queued", attempts |-> 0]]
      BY <1>3 DEF CreateRow, RowInv
    <2>2. \A w \in Workers : pc[w] \in InHand => msg[w].task # t /\ msg[w].task \in Tasks
      BY <2>1 DEF Untouched, IInv, HandInv, Message
    <2>3. \A w \in Workers : pc'[w] = "run" => jobs'[msg'[w].task].status # "queued"
      BY <1>1, <2>1, <2>2 DEF RowInv, InHand, IInv, TypeOK
    <2>4. JobRowTruthful'
      BY <1>1, <2>1 DEF RowInv, JobRowTruthful, DeadLettered, Untouched, IInv, TypeOK
    <2>5. \A w \in Workers : pc'[w] \in {"xack", "xdel", "report"} => Reportable(w)'
      BY <1>1 DEF RowInv, Reportable, DeadLettered
    <2>6. QED
      BY <1>2, <2>3, <2>4, <2>5 DEF RowInv
  <1>4. CASE MarkFailed(t)
    <2>1. jobs' = [jobs EXCEPT ![t].status = "failed"]
      BY <1>4 DEF MarkFailed
    <2>2. \A u \in Tasks : jobs'[u].status = jobs[u].status \/ jobs'[u].status = "failed"
      BY <2>1 DEF IInv, TypeOK
    <2>3. \A w \in Workers : pc'[w] = "run" => jobs'[msg'[w].task].status # "queued"
      <3>1. \A w \in Workers : pc[w] = "run" => msg[w].task \in Tasks
        BY DEF IInv, HandInv, InHand, Message
      <3>2. QED
        BY <1>1, <2>2, <3>1 DEF RowInv
    <2>4. JobRowTruthful'
      BY <1>1, <2>2 DEF RowInv, JobRowTruthful, DeadLettered
    <2>5. \A w \in Workers : pc'[w] \in {"xack", "xdel", "report"} => Reportable(w)'
      BY <1>1 DEF RowInv, Reportable, DeadLettered
    <2>6. QED
      BY <1>2, <2>3, <2>4, <2>5 DEF RowInv
  <1>5. CASE Enqueue(t) \/ EnqueueError(t) \/ ApiCrash(t)
    <2>1. jobs' = jobs
      BY <1>5 DEF Enqueue, EnqueueError, ApiCrash
    <2>2. QED
      BY <1>1, <1>2, <2>1, RowFrame
  <1>6. QED
    BY <1>3, <1>4, <1>5 DEF ApiStep

LEMMA WorkerRow ==
  ASSUME IInv, RowInv, NEW w \in Workers, WorkerStep(w)
  PROVE  RowInv'
  <1>1. [Next]_vars /\ api' = api
    BY DEF Next, WorkerStep, PollDelayed, PromoteAdd, PromoteRemove, Claim, NothingToClaim,
                ReadNew, ReadTimeout, MarkRunning, RunSucceeds, RunFails, RetryDead,
                RetryLater, RetryNow, Xack, Xdel, Report
  <1>2. \A t \in Tasks : api'[t] = "start" => Untouched(t)'
    BY <1>1, WorkerUntouched DEF RowInv
  <1>3. /\ pc \in [Workers -> WorkerPc] /\ msg \in [Workers -> Message \cup {NoMessage}]
        /\ outcome \in [Workers -> Outcome] /\ jobs \in [Tasks -> [status : JobStatus, attempts : Nat]]
        /\ pc[w] \in InHand => msg[w] \in Message /\ msg[w].task \in Tasks
    BY DEF IInv, TypeOK, HandInv, Message
  <1>4. CASE PollDelayed(w) \/ PromoteAdd(w) \/ PromoteRemove(w) \/ Claim(w) \/ NothingToClaim(w)
             \/ ReadNew(w) \/ ReadTimeout(w) \/ Xack(w) \/ Xdel(w)
    <2>1. UNCHANGED <<jobs, indexed, failedAt, outcome>>
      BY <1>4 DEF PollDelayed, PromoteAdd, PromoteRemove, Claim, NothingToClaim, ReadNew, ReadTimeout,
                  Xack, Xdel, historyVars
    <2>2. \A v \in Workers :
            /\ pc'[v] = "run" => pc[v] = "run" /\ msg'[v] = msg[v]
            /\ pc'[v] \in {"xack", "xdel", "report"} => pc[v] \in {"xack", "xdel", "report"} /\ msg'[v] = msg[v]
      BY <1>3, <1>4 DEF PollDelayed, PromoteAdd, PromoteRemove, Claim, NothingToClaim, ReadNew, ReadTimeout,
                  Xack, Xdel
    <2>3. QED
      BY <1>1, <1>2, <2>1, <2>2, RowFrame
  <1>5. CASE RetryDead(w) \/ RetryLater(w) \/ RetryNow(w)
    <2>1. UNCHANGED <<jobs, indexed, failedAt, msg>>
      BY <1>5 DEF RetryDead, RetryLater, RetryNow, historyVars
    <2>2. \A v \in Workers : v # w => pc'[v] = pc[v] /\ outcome'[v] = outcome[v]
      BY <1>3, <1>5 DEF RetryDead, RetryLater, RetryNow
    <2>3. pc[w] = "retry" /\ pc'[w] = "xack"
      BY <1>3, <1>5 DEF RetryDead, RetryLater, RetryNow
    <2>4. Reportable(w)'
      <3>1. CASE RetryDead(w)
        <4>1. /\ outcome'[w] = "dead_letter" /\ msg'[w] = msg[w]
              /\ deadLetters' = deadLetters \cup {[task |-> msg[w].task, attempts |-> NextAttempt(msg[w])]}
          BY <1>3, <3>1 DEF RetryDead
        <4>2. PICK d : d = [task |-> msg[w].task, attempts |-> NextAttempt(msg[w])]
          OBVIOUS
        <4>3. d \in deadLetters' /\ d.task = msg'[w].task
          BY <4>1, <4>2
        <4>4. DeadLettered(msg[w].task)'
          BY <4>1, <4>3 DEF DeadLettered
        <4>5. QED
          BY <4>1, <4>4 DEF Reportable, DeadLettered
      <3>2. CASE RetryLater(w) \/ RetryNow(w)
        <4>1. outcome'[w] = "retrying" /\ msg'[w] = msg[w] /\ msg[w].attempts + 1 < MaxAttempts
          BY <1>3, <3>2 DEF RetryLater, RetryNow, NextAttempt
        <4>2. <<msg[w].task, msg[w].attempts>> \in failedAt /\ msg[w].attempts \in Nat
          BY <1>3, <2>3 DEF IInv, ChainInv, InHand, Message
        <4>3. msg[w].attempts \in 0..(MaxAttempts - 2)
          BY <4>1, <4>2, MaxAttemptsAssumption
        <4>4. \E a \in 0..(MaxAttempts - 2) : <<msg'[w].task, a>> \in failedAt'
          <5>1. <<msg'[w].task, msg[w].attempts>> \in failedAt'
            BY <2>1, <4>1, <4>2
          <5>2. QED
            BY <4>3, <5>1
        <4>5. QED
          BY <4>1, <4>4 DEF Reportable
      <3>3. QED
        BY <1>5, <3>1, <3>2
    <2>5. QED
      BY <1>1, <1>2, <2>1, <2>2, <2>3, <2>4, RowFrame
  <1>6. CASE MarkRunning(w)
    <2>1. /\ pc[w] = "mark" /\ pc' = [pc EXCEPT ![w] = "run"]
          /\ jobs' = [jobs EXCEPT ![msg[w].task] = [status |-> "running", attempts |-> msg[w].attempts + 1]]
          /\ UNCHANGED <<indexed, failedAt, deadLetters, outcome, msg>>
      BY <1>6 DEF MarkRunning, RunningRow, historyVars, queueVars
    <2>2. \A t \in Tasks : jobs'[t].status = jobs[t].status \/ jobs'[t].status = "running"
      BY <1>3, <2>1
    <2>3. \A v \in Workers : pc'[v] = "run" => jobs'[msg'[v].task].status # "queued"
      <3>1. ASSUME NEW v \in Workers, v # w, pc'[v] = "run"
            PROVE  jobs[msg[v].task].status # "queued" /\ msg[v].task \in Tasks
        BY <1>3, <2>1, <3>1 DEF RowInv, IInv, HandInv, InHand, Message
      <3>2. jobs'[msg'[w].task].status # "queued"
        BY <1>3, <2>1 DEF InHand
      <3>3. QED
        BY <2>1, <2>2, <3>1, <3>2
    <2>4. JobRowTruthful'
      BY <2>1, <2>2 DEF RowInv, JobRowTruthful, DeadLettered
    <2>5. \A v \in Workers : pc'[v] \in {"xack", "xdel", "report"} => Reportable(v)'
      BY <1>3, <2>1 DEF RowInv, Reportable, DeadLettered
    <2>6. QED
      BY <1>2, <2>3, <2>4, <2>5 DEF RowInv
  <1>7. CASE RunSucceeds(w) \/ RunFails(w)
    <2>1. /\ pc[w] = "run" /\ UNCHANGED <<jobs, msg, deadLetters>>
          /\ \A v \in Workers : v # w => pc'[v] = pc[v] /\ outcome'[v] = outcome[v]
          /\ jobs[msg[w].task].status # "queued"
      BY <1>3, <1>7 DEF RunSucceeds, RunFails, queueVars, RowInv
    <2>2. /\ indexed' = indexed \/ indexed' = indexed \cup {msg[w].task}
          /\ failedAt' = failedAt \/ failedAt' = failedAt \cup {<<msg[w].task, msg[w].attempts>>}
      BY <1>7 DEF RunSucceeds, RunFails
    <2>3. pc'[w] = "retry" \/ (pc'[w] = "xack" /\ Reportable(w)')
      BY <1>3, <1>7 DEF RunSucceeds, RunFails, Reportable
    <2>4. JobRowTruthful'
      <3>1. \A t \in Tasks : jobs[t].status = "queued" => t # msg[w].task
        BY <2>1
      <3>2. QED
        BY <2>1, <2>2, <3>1 DEF RowInv, JobRowTruthful, DeadLettered
    <2>5. \A v \in Workers : pc'[v] \in {"xack", "xdel", "report"} => Reportable(v)'
      BY <1>1, <2>1, <2>3, HistoryGrows, ReportableStays DEF RowInv
    <2>6. \A v \in Workers : pc'[v] = "run" => jobs'[msg'[v].task].status # "queued"
      BY <2>1, <2>3 DEF RowInv
    <2>7. QED
      BY <1>2, <2>4, <2>5, <2>6 DEF RowInv
  <1>8. CASE Report(w)
    <2>1. /\ pc[w] = "report" /\ jobs' = [jobs EXCEPT ![msg[w].task].status = outcome[w]]
          /\ UNCHANGED <<indexed, failedAt, deadLetters>>
          /\ pc'[w] = "idle"
          /\ \A v \in Workers : v # w => pc'[v] = pc[v] /\ outcome'[v] = outcome[v] /\ msg'[v] = msg[v]
          /\ Reportable(w)
      BY <1>3, <1>8 DEF Report, queueVars, historyVars, RowInv
    <2>2. /\ jobs'[msg[w].task].status = outcome[w]
          /\ \A t \in Tasks : t # msg[w].task => jobs'[t] = jobs[t]
      BY <1>3, <2>1 DEF InHand
    <2>3. JobRowTruthful'
      BY <2>1, <2>2 DEF RowInv, JobRowTruthful, DeadLettered, Reportable
    <2>4. \A v \in Workers : pc'[v] \in {"xack", "xdel", "report"} => Reportable(v)'
      BY <2>1 DEF RowInv, Reportable, DeadLettered
    <2>5. \A v \in Workers : pc'[v] = "run" => jobs'[msg'[v].task].status # "queued"
      <3>1. ASSUME NEW v \in Workers, pc'[v] = "run"
            PROVE  /\ v # w /\ msg'[v] = msg[v] /\ msg[v].task \in Tasks
                   /\ jobs[msg[v].task].status # "queued"
        BY <2>1, <3>1 DEF RowInv, IInv, HandInv, InHand, Message
      <3>2. outcome[w] # "queued"
        BY <2>1 DEF Reportable
      <3>3. QED
        BY <2>2, <3>1, <3>2
    <2>6. QED
      BY <1>2, <2>3, <2>4, <2>5 DEF RowInv
  <1>9. QED
    BY <1>4, <1>5, <1>6, <1>7, <1>8 DEF WorkerStep

LEMMA RowNext == IInv /\ RowInv /\ [Next]_vars => RowInv'
  <1>1. SUFFICES ASSUME IInv, RowInv, [Next]_vars PROVE RowInv'
    OBVIOUS
  <1>2. CASE (\E w \in Workers : Crash(w)) \/ Clock \/ UNCHANGED vars
    <2>1. UNCHANGED <<api, jobs, indexed, failedAt>>
      BY <1>2 DEF Crash, Clock, BecomeDue, BecomeIdle, vars, historyVars
    <2>2. \A t \in Tasks : api'[t] = "start" => Untouched(t)'
      BY <1>1, <1>2, <2>1, OtherUntouched DEF RowInv
    <2>3. \A v \in Workers :
            \/ pc'[v] = "idle"
            \/ pc'[v] = pc[v] /\ msg'[v] = msg[v] /\ outcome'[v] = outcome[v]
      BY <1>1, <1>2 DEF Crash, Clock, BecomeDue, BecomeIdle, vars, workerVars, IInv, TypeOK
    <2>4. QED
      BY <1>1, <2>1, <2>2, <2>3, RowFrame
  <1>3. QED
    BY <1>1, <1>2, ApiRow, WorkerRow DEF Next

-----------------------------------------------------------------------------
(* An entry is in one hand *)

\* Nobody takes an entry and none becomes idle.
LEMMA HoldFrame ==
  ASSUME HoldInv, stalls' = stalls, idle' \subseteq idle,
         \A v \in Workers : pc'[v] \in {"mark", "run", "retry", "xack"} =>
           pc[v] \in {"mark", "run", "retry", "xack"} /\ msg'[v] = msg[v]
  PROVE  HoldInv'
  BY DEF HoldInv, Holds

\* An entry is taken that nobody has, and that is idle no more.
LEMMA HoldTaken ==
  ASSUME TypeOK, HoldInv, stalls' = stalls, idle' \subseteq idle, NEW w \in Workers, NEW m,
         stalls = 0 => \A v \in Workers : ~Holds(v, m.id),
         m.id \notin idle',
         pc' = [pc EXCEPT ![w] = "mark"], msg' = [msg EXCEPT ![w] = m]
  PROVE  HoldInv'
  <1>1. \A v \in Workers : v # w => pc'[v] = pc[v] /\ msg'[v] = msg[v]
    BY DEF TypeOK
  <1>2. msg'[w] = m
    BY DEF TypeOK
  <1>3. QED
    BY <1>1, <1>2 DEF HoldInv, Holds

LEMMA HoldNext == IInv /\ HoldInv /\ [Next]_vars => HoldInv'
  <1>1. SUFFICES ASSUME IInv, HoldInv, [Next]_vars PROVE HoldInv'
    OBVIOUS
  <1> USE <1>1
  <1>2. TypeOK /\ IdInv /\ HandInv
    BY DEF IInv
  <1>3. ASSUME NEW t \in Tasks, ApiStep(t) PROVE HoldInv'
    BY <1>3, HoldFrame DEF ApiStep, CreateRow, Enqueue, EnqueueError, MarkFailed, ApiCrash, queueVars,
                           workerVars, budgetVars
  <1>4. ASSUME NEW w \in Workers, Claim(w) PROVE HoldInv'
    <2>1. PICK m \in Claimable : /\ msg' = [msg EXCEPT ![w] = m] /\ idle' = idle \ {m.id}
                                /\ pc' = [pc EXCEPT ![w] = "mark"] /\ stalls' = stalls
      BY <1>2, <1>4, FirstIsFirst DEF Claim, Claimable, TypeOK, budgetVars
    <2>2. stalls = 0 => \A v \in Workers : ~Holds(v, m.id)
      BY <2>1 DEF HoldInv, Holds, Claimable
    <2>3. QED
      BY <1>2, <2>1, <2>2, HoldTaken
  <1>5. ASSUME NEW w \in Workers, ReadNew(w) PROVE HoldInv'
    <2>1. PICK m \in Undelivered : /\ msg' = [msg EXCEPT ![w] = m] /\ idle' = idle
                                  /\ pc' = [pc EXCEPT ![w] = "mark"] /\ stalls' = stalls
      BY <1>2, <1>5, FirstIsFirst DEF ReadNew, Undelivered, TypeOK, budgetVars
    <2>2. m.id \in Nat /\ m.id > lastDelivered /\ lastDelivered \in Nat
      BY <1>2, <2>1 DEF Undelivered, TypeOK, Message
    <2>3. m.id \notin idle
      BY <1>2, <2>2 DEF IdInv, TypeOK
    <2>4. \A v \in Workers : ~Holds(v, m.id)
      BY <1>2, <2>2 DEF HandInv, InHand, Holds, Message
    <2>5. QED
      BY <1>2, <2>1, <2>3, <2>4, HoldTaken
  <1>6. ASSUME NEW w \in Workers, WorkerStep(w), ~Claim(w), ~ReadNew(w) PROVE HoldInv'
    <2>1. stalls' = stalls /\ idle' \subseteq idle
      BY <1>6 DEF WorkerStep, PollDelayed, PromoteAdd, PromoteRemove, NothingToClaim,
                  ReadTimeout, MarkRunning, RunSucceeds, RunFails, RetryDead,
                  RetryLater, RetryNow, Xack, Xdel, Report, queueVars, budgetVars
    <2>2. \A v \in Workers : pc'[v] \in {"mark", "run", "retry", "xack"} =>
            pc[v] \in {"mark", "run", "retry", "xack"} /\ msg'[v] = msg[v]
      BY <1>2, <1>6 DEF WorkerStep, PollDelayed, PromoteAdd, PromoteRemove, NothingToClaim,
                  ReadTimeout, MarkRunning, RunSucceeds, RunFails, RetryDead,
                  RetryLater, RetryNow, Xack, Xdel, Report, TypeOK
    <2>3. QED
      BY <2>1, <2>2, HoldFrame
  <1>7. ASSUME NEW w \in Workers, Crash(w) PROVE HoldInv'
    BY <1>2, <1>7, HoldFrame DEF Crash, TypeOK, queueVars
  <1>8. ASSUME NEW id \in pending, BecomeIdle(id) PROVE HoldInv'
    <2>1. /\ idle' = idle \cup {id} /\ UNCHANGED <<pc, msg>>
          /\ stalls \in Nat
          /\ (\E w \in Workers : Holds(w, id)) => stalls' = stalls + 1
          /\ ~(\E w \in Workers : Holds(w, id)) => stalls' = stalls
      BY <1>2, <1>8, BudgetAssumption DEF BecomeIdle, workerVars, TypeOK
    <2>2. QED
      BY <2>1 DEF HoldInv, Holds
  <1>9. CASE BecomeDue \/ UNCHANGED vars
    BY <1>9, HoldFrame DEF BecomeDue, vars, queueVars, workerVars, budgetVars
  <1>10. QED
    BY <1>3, <1>4, <1>5, <1>6, <1>7, <1>8, <1>9 DEF Next, Clock

-----------------------------------------------------------------------------
(* Every step is one of at-least-once delivery, or none *)

\* The failed attempts of a task are finitely many, and all only if none is missing.
LEMMA FailedFinite ==
  ASSUME NEW t
  PROVE  /\ IsFiniteSet(FailedAttempts(t))
         /\ Cardinality(FailedAttempts(t)) \in Nat
         /\ FailedAttempts(t) = 0..(MaxAttempts - 1) => Cardinality(FailedAttempts(t)) = MaxAttempts
         /\ FailedAttempts(t) # 0..(MaxAttempts - 1) => Cardinality(FailedAttempts(t)) < MaxAttempts
  <1>1. IsFiniteSet(0..(MaxAttempts - 1)) /\ Cardinality(0..(MaxAttempts - 1)) = MaxAttempts
    BY MaxAttemptsAssumption, FS_Interval
  <1>2. FailedAttempts(t) \subseteq 0..(MaxAttempts - 1)
    BY DEF FailedAttempts
  <1>3. /\ IsFiniteSet(FailedAttempts(t))
        /\ Cardinality(FailedAttempts(t)) <= MaxAttempts
        /\ Cardinality(FailedAttempts(t)) = MaxAttempts => FailedAttempts(t) = 0..(MaxAttempts - 1)
    BY <1>1, <1>2, FS_Subset
  <1>4. Cardinality(FailedAttempts(t)) \in Nat
    BY <1>3, FS_CardinalityType
  <1>5. QED
    BY <1>1, <1>3, <1>4, MaxAttemptsAssumption

\* The queue begins as the abstract one does.
LEMMA DeliveryInit == Init => Delivery!Init
  <1>1. SUFFICES ASSUME Init PROVE Delivery!Init
    OBVIOUS
  <1>2. \A t \in Tasks : FailedAttempts(t) = {}
    BY <1>1 DEF Init, FailedAttempts
  <1>3. Failures = [t \in Tasks |-> 0]
    BY <1>2, FS_EmptySet DEF Failures
  <1>4. Accepted = {} /\ indexed = {} /\ GivenUp = {}
    BY <1>1 DEF Init, Accepted, GivenUp, DeadLettered
  <1>5. QED
    BY <1>3, <1>4 DEF Delivery!Init

\* A step that leaves the API's answers, the runs and the dead letters alone changes
\* nothing of what is promised.
LEMMA DeliveryStutter ==
  ASSUME UNCHANGED <<indexed, failedAt, deadLetters>>, Accepted' = Accepted
  PROVE  UNCHANGED Delivery!vars
  <1>1. Failures' = Failures
    BY DEF Failures, FailedAttempts
  <1>2. GivenUp' = GivenUp
    BY DEF GivenUp, DeadLettered
  <1>3. QED
    BY <1>1, <1>2 DEF Delivery!vars

\* A request submits its task at most once.
LEMMA ApiDelivers ==
  ASSUME IInv, NEW t \in Tasks, ApiStep(t)
  PROVE  Delivery!Next \/ UNCHANGED Delivery!vars
  <1>1. UNCHANGED <<indexed, failedAt, deadLetters>>
    BY DEF ApiStep, CreateRow, Enqueue, EnqueueError, MarkFailed, ApiCrash, queueVars, historyVars
  <1>2. Failures' = Failures /\ GivenUp' = GivenUp /\ indexed' = indexed
    BY <1>1 DEF Failures, FailedAttempts, GivenUp, DeadLettered
  <1>3. CASE Enqueue(t)
    <2>1. Accepted' = Accepted \cup {t}
      BY <1>3 DEF Enqueue, Accepted, IInv, TypeOK
    <2>2. QED
      BY <1>2, <2>1 DEF Delivery!Next, Delivery!Accept
  <1>4. CASE CreateRow(t) \/ EnqueueError(t) \/ MarkFailed(t) \/ ApiCrash(t)
    <2>1. Accepted' = Accepted
      BY <1>4 DEF CreateRow, EnqueueError, MarkFailed, ApiCrash, Accepted, IInv, TypeOK
    <2>2. QED
      BY <1>1, <2>1, DeliveryStutter
  <1>5. QED
    BY <1>3, <1>4 DEF ApiStep

\* A run that raises is one failure more, or repeats one of its attempt.
LEMMA FailureDelivers ==
  ASSUME IInv, NEW w \in Workers, RunFails(w)
  PROVE  Delivery!Next \/ UNCHANGED Delivery!vars
  <1>0. PICK t, a : t = msg[w].task /\ a = msg[w].attempts
    OBVIOUS
  <1>1. pc[w] = "run" /\ failedAt' = failedAt \cup {<<t, a>>}
        /\ UNCHANGED <<indexed, deadLetters, api>>
    BY <1>0 DEF RunFails, queueVars
  <1>2. t \in Tasks /\ a \in 0..(MaxAttempts - 1)
    <2>1. msg[w] \in Message /\ Chain(t, a)
      BY <1>0, <1>1 DEF IInv, HandInv, ChainInv, InHand
    <2>2. t \in Tasks /\ a \in Nat /\ a < MaxAttempts
      BY <1>0, <2>1 DEF Message, Chain
    <2>3. QED
      BY <2>2, MaxAttemptsAssumption
  <1>3. Accepted' = Accepted /\ indexed' = indexed /\ GivenUp' = GivenUp
    BY <1>1 DEF Accepted, GivenUp, DeadLettered
  <1>4. FailedAttempts(t)' = FailedAttempts(t) \cup {a}
    BY <1>1, <1>2 DEF FailedAttempts
  <1>5. \A u \in Tasks : u # t => FailedAttempts(u)' = FailedAttempts(u)
    BY <1>1 DEF FailedAttempts
  <1>6. CASE a \in FailedAttempts(t)
    <2>1. \A u \in Tasks : FailedAttempts(u)' = FailedAttempts(u)
      BY <1>4, <1>5, <1>6
    <2>2. Failures' = Failures
      BY <2>1 DEF Failures
    <2>3. QED
      BY <1>3, <2>2 DEF Delivery!vars
  <1>7. CASE a \notin FailedAttempts(t)
    <2>1. Cardinality(FailedAttempts(t))' = Cardinality(FailedAttempts(t)) + 1
      BY <1>4, <1>7, FailedFinite, FS_AddElement
    <2>2. Failures' = [Failures EXCEPT ![t] = @ + 1]
      BY <1>2, <1>5, <2>1 DEF Failures
    <2>3. Failures[t] < MaxAttempts
      BY <1>2, <1>7, FailedFinite DEF Failures
    <2>4. QED
      BY <1>2, <1>3, <2>2, <2>3 DEF Delivery!Next, Delivery!Fail
  <1>8. QED
    BY <1>6, <1>7

\* Only a task whose last attempt has failed, and so all of them, is given up.
LEMMA GiveUpDelivers ==
  ASSUME IInv, NEW w \in Workers, RetryDead(w)
  PROVE  Delivery!Next
  <1> DEFINE t == msg[w].task
  <1>1. pc[w] = "retry" /\ UNCHANGED <<indexed, failedAt, api>>
        /\ deadLetters' = deadLetters \cup {[task |-> t, attempts |-> NextAttempt(msg[w])]}
        /\ NextAttempt(msg[w]) >= MaxAttempts
    BY DEF RetryDead, historyVars
  <1>2. /\ t \in Tasks /\ msg[w].attempts \in Nat /\ msg[w].attempts < MaxAttempts
        /\ <<t, msg[w].attempts>> \in failedAt
        /\ \A b \in 0..(msg[w].attempts - 1) : <<t, b>> \in failedAt
    BY <1>1 DEF IInv, HandInv, ChainInv, Chain, InHand, Message
  <1>3. msg[w].attempts = MaxAttempts - 1
    BY <1>1, <1>2, MaxAttemptsAssumption DEF NextAttempt
  <1>4. FailedAttempts(t) = 0..(MaxAttempts - 1)
    <2>1. \A b \in 0..(MaxAttempts - 1) : b = MaxAttempts - 1 \/ b \in 0..(MaxAttempts - 1 - 1)
      BY MaxAttemptsAssumption
    <2>2. QED
      BY <1>2, <1>3, <2>1 DEF FailedAttempts
  <1>5. Failures[t] = MaxAttempts
    BY <1>2, <1>4, FailedFinite DEF Failures
  <1>6. Accepted' = Accepted /\ Failures' = Failures /\ indexed' = indexed
    BY <1>1 DEF Accepted, Failures, FailedAttempts
  <1>7. GivenUp' = GivenUp \cup {t}
    <2>1. PICK d : d = [task |-> t, attempts |-> NextAttempt(msg[w])]
      OBVIOUS
    <2>2. deadLetters' = deadLetters \cup {d} /\ d.task = t
      BY <1>1, <2>1
    <2>3. QED
      BY <1>2, <2>2 DEF GivenUp, DeadLettered
  <1>8. QED
    BY <1>2, <1>5, <1>6, <1>7 DEF Delivery!Next, Delivery!GiveUp

LEMMA WorkerDelivers ==
  ASSUME IInv, NEW w \in Workers, WorkerStep(w)
  PROVE  Delivery!Next \/ UNCHANGED Delivery!vars
  <1>1. Accepted' = Accepted
    <2>1. api' = api
      BY DEF WorkerStep, PollDelayed, PromoteAdd, PromoteRemove, Claim, NothingToClaim, ReadNew,
             ReadTimeout, MarkRunning, RunSucceeds, RunFails, RetryDead, RetryLater, RetryNow,
             Xack, Xdel, Report
    <2>2. QED
      BY <2>1 DEF Accepted
  <1>2. CASE RunSucceeds(w)
    <2>1. /\ pc[w] = "run" /\ UNCHANGED <<failedAt, deadLetters>>
          /\ indexed' = indexed \cup {msg[w].task}
      BY <1>2 DEF RunSucceeds, queueVars
    <2>2. msg[w].task \in Tasks
      BY <2>1 DEF IInv, HandInv, InHand, Message
    <2>3. Failures' = Failures /\ GivenUp' = GivenUp
      BY <2>1 DEF Failures, FailedAttempts, GivenUp, DeadLettered
    <2>4. QED
      BY <1>1, <2>1, <2>2, <2>3 DEF Delivery!Next, Delivery!Succeed
  <1>3. CASE RunFails(w)
    BY <1>3, FailureDelivers
  <1>4. CASE RetryDead(w)
    BY <1>4, GiveUpDelivers
  <1>5. CASE ~(RunSucceeds(w) \/ RunFails(w) \/ RetryDead(w))
    <2>1. UNCHANGED <<indexed, failedAt, deadLetters>>
      BY <1>5 DEF WorkerStep, PollDelayed, PromoteAdd, PromoteRemove, Claim, NothingToClaim,
                  ReadNew, ReadTimeout, MarkRunning, RetryLater, RetryNow, Xack, Xdel, Report,
                  queueVars, historyVars
    <2>2. QED
      BY <1>1, <2>1, DeliveryStutter
  <1>6. QED
    BY <1>2, <1>3, <1>4, <1>5

LEMMA DeliveryNext == IInv /\ [Next]_vars => [Delivery!Next]_(Delivery!vars)
  <1>1. SUFFICES ASSUME IInv, [Next]_vars PROVE Delivery!Next \/ UNCHANGED Delivery!vars
    OBVIOUS
  <1>2. CASE \E t \in Tasks : ApiStep(t)
    BY <1>1, <1>2, ApiDelivers
  <1>3. CASE \E w \in Workers : WorkerStep(w)
    BY <1>1, <1>3, WorkerDelivers
  <1>4. CASE (\E w \in Workers : Crash(w)) \/ Clock \/ UNCHANGED vars
    <2>1. UNCHANGED <<indexed, failedAt, deadLetters, api>>
      BY <1>4 DEF Crash, Clock, BecomeDue, BecomeIdle, vars, queueVars, historyVars
    <2>2. Accepted' = Accepted
      BY <2>1 DEF Accepted
    <2>3. QED
      BY <2>1, <2>2, DeliveryStutter
  <1>5. QED
    BY <1>1, <1>2, <1>3, <1>4 DEF Next

-----------------------------------------------------------------------------
(* The theorems *)

\* The inductive invariant holds in every reachable state of the queue.
THEOREM Invariance == Spec => []IInv
  <1>1. QED
    BY InitInv, NextInv, PTL DEF Spec

\* Every reachable state is well typed; in particular no worker ever treats
\* "nothing in hand" as a message (worker.py: run).
THEOREM TypeCorrect == Spec => []TypeOK
  <1>1. IInv => TypeOK
    BY DEF IInv
  <1>2. QED
    BY <1>1, Invariance, PTL

\* An accepted task is never lost, for any number of workers, crashes and
\* redeliveries (redis.py: dequeue, ack, retry, _promote_delayed).
THEOREM NoLostTaskHolds == Spec => []NoLostTask
  <1>1. IInv => NoLostTask
    BY DEF IInv, SafeInv, Safe, NoLostTask, Carried
  <1>2. QED
    BY <1>1, Invariance, PTL

\* A dead-lettered task has really failed at each of its MaxAttempts attempts
\* (redis.py: retry).
THEOREM DeadOnlyAfterMaxFailuresHolds == Spec => []DeadOnlyAfterMaxFailures
  <1>1. IInv => DeadOnlyAfterMaxFailures
    BY DEF IInv
  <1>2. QED
    BY <1>1, Invariance, PTL

\* No XACK, of the entry's last reader or of an overtaken one, leaves a task that
\* is neither settled nor carried by a later attempt (redis.py: ack, retry).
THEOREM AckedOnlyWhenSafeHolds == Spec => AckedOnlyWhenSafe
  <1>1. ASSUME IInv, IInv', [Next]_vars
        PROVE  [\A m \in stream : m.id \in pending \ pending'
                                    => Safe(m.task, m.attempts + 1)']_vars
    <2>1. SUFFICES ASSUME Next, NEW m \in stream, m.id \in pending, m.id \notin pending'
                   PROVE  Safe(m.task, m.attempts + 1)'
      BY <1>1
    <2>2. PICK w \in Workers : Xack(w)
      BY <2>1 DEF Next, ApiStep, CreateRow, Enqueue, EnqueueError, MarkFailed, ApiCrash,
                  WorkerStep, PollDelayed, PromoteAdd, PromoteRemove, Claim, NothingToClaim,
                  ReadNew, Deliver, ReadTimeout, MarkRunning, RunningRow, RunSucceeds, RunFails, RetryDead,
                  RetryLater, RetryNow, Xdel, Report, Crash, Clock, BecomeDue, BecomeIdle,
                  queueVars
    <2>3. m = msg[w] /\ pc'[w] = "xdel" /\ msg'[w] = msg[w]
      BY <1>1, <2>1, <2>2 DEF Xack, IInv, HandInv, InHand, TypeOK
    <2>4. QED
      BY <1>1, <2>3 DEF IInv, SafeInv
  <1>2. QED
    BY <1>1, Invariance, PTL DEF Spec, AckedOnlyWhenSafe

\* The row of a task never announces what has not happened, however reports of
\* duplicates overtake each other (worker.py: run).
THEOREM JobRowTruthfulHolds == Spec => []JobRowTruthful
  <1>1. Init => RowInv
    BY DEF Init, RowInv, Untouched, InHand, JobRowTruthful
  <1>2. RowInv => JobRowTruthful
    BY DEF RowInv
  <1>3. QED
    BY <1>1, <1>2, RowNext, Invariance, PTL DEF Spec

\* Without a stall no entry is in two hands, for any number of workers and deaths
\* (redis.py: dequeue).
THEOREM ExclusiveEntriesHolds == Spec => []ExclusiveEntries
  <1>1. Init => HoldInv
    BY DEF Init, HoldInv
  <1>2. HoldInv => ExclusiveEntries
    BY DEF HoldInv, ExclusiveEntries, Holds
  <1>3. QED
    BY <1>1, <1>2, HoldNext, Invariance, PTL DEF Spec

\* Whatever the queue does, it does as at-least-once delivery may: a task that is given
\* up has failed MaxAttempts times, and nothing accepted, run or given up is taken back
\* (redis.py: enqueue, retry; worker.py: run). Its fairness is left to TLC.
THEOREM QueueImplementsDelivery == Spec => Delivery!Spec
  <1>1. QED
    BY DeliveryInit, DeliveryNext, Invariance, PTL DEF Spec, Delivery!Spec

=============================================================================
