----------------------- MODULE MCAssignmentRegistration -----------------------
(* Instance of AssignmentRegistration for TLC. *)
EXTENDS AssignmentRegistration, TLC

CONSTANTS u1, u2, u3, g1, g2, a1, r1, r2

\* Nothing distinguishes users, groups or slots, and no property is temporal.
Symmetry == Permutations(Users) \cup Permutations(GroupIds) \cup Permutations(Requests)
=============================================================================
