----------------------------- MODULE MCTaskQueue -----------------------------
(* Instances of TaskQueue for TLC. *)
EXTENDS TaskQueue, TLC

\* Safety runs may identify permuted tasks and workers.
Symmetry == Permutations(Tasks) \cup Permutations(Workers)
=============================================================================
