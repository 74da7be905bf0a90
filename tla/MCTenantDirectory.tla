-------------------------- MODULE MCTenantDirectory --------------------------
(* Instances of TenantDirectory for TLC. *)
EXTENDS TenantDirectory

CONSTANTS A, B, s, d, c, f, u1, u2, c1, c2

\* s and d come from the plug-in, and so does f, which belongs to another tenant; c
\* is created. u1 makes d the default; u2 makes c the default and renames.
Asked == [u \in Updates |-> IF u = u1 THEN d ELSE c]

\* everybody asks for c, or the second create for f
AllC == [r \in Creates \cup Toggles |-> c]
SecondAsksF == [r \in Creates \cup Toggles |-> IF r = c2 THEN f ELSE c]

AllAtA == [r \in Requests |-> A]
SecondAtB == [r \in Requests |-> IF r = c2 THEN B ELSE A]
=============================================================================
