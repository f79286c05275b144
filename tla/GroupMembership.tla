-------------------------- MODULE GroupMembership --------------------------
(***************************************************************************)
(* What the groups of a course promise, whatever the interleaving of the   *)
(* requests: each user is in at most one group, nobody is moved from one   *)
(* group to another behind his back, and a step touches either one user or *)
(* one group.                                                              *)
(***************************************************************************)
CONSTANTS Users, GroupIds, NoGroup

VARIABLE groupOf   \* the group of each user, NoGroup if there is none

Init == groupOf = [u \in Users |-> NoGroup]

Join(u, g) ==
    /\ groupOf[u] = NoGroup
    /\ groupOf' = [groupOf EXCEPT ![u] = g]

Leave(u) == groupOf' = [groupOf EXCEPT ![u] = NoGroup]

Dissolve(g) ==
    groupOf' = [u \in Users |-> IF groupOf[u] = g THEN NoGroup ELSE groupOf[u]]

Next ==
    \/ \E u \in Users, g \in GroupIds : Join(u, g)
    \/ \E u \in Users : Leave(u)
    \/ \E g \in GroupIds : Dissolve(g)

Spec == Init /\ [][Next]_groupOf
=============================================================================
