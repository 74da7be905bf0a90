----------------------------- MODULE TaskDelivery -----------------------------
(***************************************************************************)
(* What the Redis task queue and its workers promise the API, with the     *)
(* streams, the pending list and the processes left out: a task the API    *)
(* has accepted is tried again until a try succeeds or MaxAttempts tries   *)
(* have failed, and only then is it given up to the dead-letter stream.    *)
(* Delivery is at least once: a task may be tried, may succeed and may     *)
(* even be given up after it has already succeeded.                        *)
(***************************************************************************)
EXTENDS Naturals

CONSTANTS Tasks,        \* the task_ids the API creates
          MaxAttempts   \* settings.task_max_attempts

VARIABLES owed,         \* tasks the API has accepted
          failures,     \* how many attempts of each task have failed
          succeeded,    \* tasks some attempt of which ran to its end
          given_up      \* tasks in the dead-letter stream

vars == <<owed, failures, succeeded, given_up>>

Init == /\ owed = {}
        /\ failures = [t \in Tasks |-> 0]
        /\ succeeded = {}
        /\ given_up = {}

Settled(t) == t \in succeeded \cup given_up

Accept(t) == /\ owed' = owed \cup {t}
             /\ UNCHANGED <<failures, succeeded, given_up>>

\* An attempt may also be one of a task whose submission reported an error.
Succeed(t) == /\ succeeded' = succeeded \cup {t}
              /\ UNCHANGED <<owed, failures, given_up>>

Fail(t) == /\ failures[t] < MaxAttempts
           /\ failures' = [failures EXCEPT ![t] = @ + 1]
           /\ UNCHANGED <<owed, succeeded, given_up>>

GiveUp(t) == /\ failures[t] = MaxAttempts
             /\ given_up' = given_up \cup {t}
             /\ UNCHANGED <<owed, failures, succeeded>>

Next == \E t \in Tasks : Accept(t) \/ Succeed(t) \/ Fail(t) \/ GiveUp(t)

\* Work on an accepted task that is not settled yet goes on.
Work(t) == /\ t \in owed
           /\ ~Settled(t)
           /\ Succeed(t) \/ Fail(t) \/ GiveUp(t)

Fairness == \A t \in Tasks : WF_vars(Work(t))

Spec == Init /\ [][Next]_vars
FairSpec == Spec /\ Fairness
=============================================================================
