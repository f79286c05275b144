--------------------------- MODULE MCCourseGroups ---------------------------
(* Instances of CourseGroups for TLC. *)
EXTENDS CourseGroups, TLC

CONSTANTS u1, u2, u3, g1, g2, g3, r1, r2

\* Groups and request slots are interchangeable; the users are not, as some of
\* them belong to the staff.  Not used in the run with a liveness property.
GroupAndSlotSymmetry == Permutations(GroupIds) \cup Permutations(Requests)
=============================================================================
