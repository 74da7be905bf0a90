--------------------------- MODULE MCConfigPublish ---------------------------
(* Instances of ConfigPublish for TLC. *)
EXTENDS ConfigPublish

CONSTANTS A, B, C,      \* instances
          u1, u2,       \* updates
          d1, p1        \* a draft and a roll-back

\* The instance A serves updates and drafts, B the roll-backs, C only listens.
RollbacksAtB == [r \in Requests |-> IF r \in Rollbacks THEN B ELSE A]

\* Three requests race, a call raises and an instance restarts.
Race == [serial |-> FALSE, sent |-> {u1, d1, p1}, errors |-> 1, restarts |-> 1]

\* One administrator, no roll-back, no fault.
OneAdmin == [serial |-> TRUE, sent |-> Updates \cup Drafts, errors |-> 0, restarts |-> 0]

\* The same with a roll-back.
RollsBack == [serial |-> TRUE, sent |-> {u1, d1, p1}, errors |-> 0, restarts |-> 0]

MCScenarios == {Race, OneAdmin, RollsBack}

\* Two updates at the same instance.
TwoUpdates == {[serial |-> FALSE, sent |-> Updates, errors |-> 0, restarts |-> 0]}
=============================================================================
