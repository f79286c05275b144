---------------------------- MODULE MCEventDelivery ----------------------------
(* Instance of EventDelivery for TLC. *)
EXTENDS EventDelivery, TLC

CONSTANTS u1, u2, r1, r2, n1

\* Nothing distinguishes users or slots, and no property is a liveness property.
Symmetry == Permutations(Users) \cup Permutations(Requests)
=============================================================================
