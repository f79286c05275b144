------------------------ MODULE MCCourseAdministration ------------------------
(* Instance of CourseAdministration for TLC. *)
EXTENDS CourseAdministration, TLC

CONSTANTS u1, u2, r1, r2

\* Nothing distinguishes the slots, and no property is a liveness property.
Symmetry == Permutations(Requests)
=============================================================================
