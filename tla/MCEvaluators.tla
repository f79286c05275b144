----------------------------- MODULE MCEvaluators -----------------------------
(* Instance of Evaluators for TLC. *)
EXTENDS Evaluators

CONSTANTS s1, t1, t2, g1, a1, a2, r1, r2

AchievableOfAll == [a \in Assignments |-> 0]

Symmetry == Permutations(Staff) \cup Permutations(Assignments) \cup Permutations(Requests)
=============================================================================
