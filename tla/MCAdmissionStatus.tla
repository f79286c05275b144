-------------------------- MODULE MCAdmissionStatus --------------------------
(* Instance of AdmissionStatus, and so of Assessments, for TLC. *)
EXTENDS AdmissionStatus

CONSTANTS s1, t1, g1, a1, a2, k1, r1, r2

\* a2 awards bonus points only.
Types == [a \in Assignments |-> "HOMEWORK"]
PointsOfAll == [a \in Assignments |-> IF a = a1 THEN 40 ELSE 0]
AchievableOfAll == [a \in Assignments |-> IF a = a1 THEN 40 ELSE 22]

\* In doubles 22 / 40 * 100 is 55.00000000000001, and 23 / 40 * 100 is 57.49999999999999.
Upwards == {<<22, 40, 1>>, <<22, 40, 10>>, <<44, 40, 1>>, <<44, 40, 10>>}
Downwards == {<<23, 40, 1>>, <<23, 40, 10>>}

Criterion(type, required, rounding, decimals, allowed) ==
    [type |-> type, assignmentType |-> "HOMEWORK", required |-> required,
     rounding |-> [type |-> rounding, scale |-> 10 ^ decimals], allowed |-> allowed]

\* The first is at its limit with 23 points, the second with 22.
Criteria ==
    {Criterion("overall", 58, "DECIMALS", 0, 0), Criterion("individual", 56, "UP", 0, 0),
     Criterion("individual", 58, "UP", 0, 0), Criterion("overall", 55, "DOWN", 0, 0),
     Criterion("individual", 100, "NONE", 0, 1)}

Symmetry == Permutations(Requests)
=============================================================================
