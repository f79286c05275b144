----------------------------- MODULE GroupMerge -----------------------------
(***************************************************************************)
(* GroupMergeStrategy.merge: the groups of a course that are too small are *)
(* merged with each other or added to open groups when an assignment       *)
(* starts.  registerGroupsForAssignment has removed the empty groups; the  *)
(* groups are numbered as sortGroupsBySizeAsc leaves them.                 *)
(*                                                                         *)
(* The algorithm runs without a pause; one action is one round of a loop.  *)
(***************************************************************************)
EXTENDS Integers, FiniteSets

CONSTANTS
    N,           \* how many groups there are
    MaxSize,     \* bound: members of a group
    MaxSetting   \* bound: sizeMin, sizeMax of the course

ASSUME ConstantsAssumption == N \in Nat /\ MaxSize \in Nat /\ MaxSetting \in Nat

Groups == 1 .. N

VARIABLES
    before,      \* the members that the groups had
    members,     \* the members of the groups
    isOpen,      \* the groups that are not closed and have no password
    sizeMin, sizeMax,
    pc,
    i,           \* number of the last group that was looked at
    first,       \* the group that others are merged into
    size,        \* currentGroupSize
    newOpenGroups, remaining   \* merged groups: joinable, or still too small

vars == <<before, members, isOpen, sizeMin, sizeMax, pc, i, first, size,
          newOpenGroups, remaining>>

input == <<before, isOpen, sizeMin, sizeMax>>

-----------------------------------------------------------------------------
Member == Groups \X (1 .. MaxSize)

TypeOK ==
    /\ before \in [Groups -> SUBSET Member]
    /\ members \in [Groups -> SUBSET Member]
    /\ isOpen \subseteq Groups
    /\ sizeMin \in Nat /\ sizeMax \in Nat
    /\ pc \in {"outer", "inner", "split", "place", "done"}
    /\ i \in Nat \ {0}
    /\ first \in Groups \cup {0}
    /\ size \in Nat
    /\ newOpenGroups \subseteq Groups
    /\ remaining \subseteq Groups

Size(g) == Cardinality(members[g])

IsTooSmall(g) == Size(g) < sizeMin
IsJoinable(g) == g \in isOpen /\ Size(g) < sizeMax

\* splitGroups runs before anything has moved and leaves its loop at the first
\* group that is neither too small nor joinable.
WasTooSmall(g) == Cardinality(before[g]) < sizeMin
WasJoinable(g) == g \in isOpen /\ Cardinality(before[g]) < sizeMax

InvalidGroups == {g \in Groups : WasTooSmall(g)}
OpenGroups ==
    {g \in Groups : ~WasTooSmall(g) /\ \A h \in 1 .. g : WasTooSmall(h) \/ WasJoinable(h)}

\* Mutant: the loop runs through all groups, the valid ones too.
MoreGroups == i + 1 \in Groups

\* i < invalidGroups.length: the groups are sorted, the invalid ones come first.
MoreInvalidGroups == i + 1 \in InvalidGroups

\* Mutant: the second group is not emptied.
MergeWithoutEmptying(f, g) == members' = [members EXCEPT ![f] = @ \cup members[g]]

MergeIntoFirstGroup(f, g) ==
    members' = [members EXCEPT ![f] = @ \cup members[g], ![g] = {}]

Init ==
    /\ \E sizes \in [Groups -> 1 .. MaxSize] :
          /\ \A g, h \in Groups : g < h => sizes[g] <= sizes[h]
          /\ before = [g \in Groups |-> {g} \X (1 .. sizes[g])]
    /\ members = before
    /\ isOpen \in SUBSET Groups
    /\ sizeMin \in 0 .. MaxSetting /\ sizeMax \in 0 .. MaxSetting
    /\ pc = "outer" /\ i = 1 /\ first = 0 /\ size = 0
    /\ newOpenGroups = {} /\ remaining = {}

-----------------------------------------------------------------------------
(* tryMergeInvalidGroups *)

OuterLoop ==
    /\ pc = "outer"
    /\ IF MoreInvalidGroups
       THEN pc' = "inner" /\ first' = i /\ size' = Size(i)
       ELSE pc' = "split" /\ UNCHANGED <<first, size>>
    /\ UNCHANGED <<input, members, i, newOpenGroups, remaining>>

\* Mutant: the group that did not fit stays the next one.
StopMergingInPlace ==
    /\ MoreInvalidGroups => size + Size(i + 1) > sizeMax
    /\ pc' = "outer"
    /\ UNCHANGED <<members, i, size>>

StopMerging ==
    /\ MoreInvalidGroups => size + Size(i + 1) > sizeMax
    /\ pc' = "outer" /\ i' = i + 1
    /\ UNCHANGED <<members, size>>

\* Merging goes on while the next group fits, also when the group is valid.
InnerLoop ==
    LET merged == size + Size(i + 1) IN
    /\ pc = "inner"
    /\ \/ /\ MoreInvalidGroups /\ merged < sizeMax
          /\ MergeIntoFirstGroup(first, i + 1)
          /\ size' = merged /\ i' = i + 1
          /\ UNCHANGED pc
       \/ /\ MoreInvalidGroups /\ merged = sizeMax
          /\ MergeIntoFirstGroup(first, i + 1)
          /\ pc' = "outer" /\ i' = i + 1
          /\ UNCHANGED size
       \/ StopMerging
    /\ UNCHANGED <<input, first, newOpenGroups, remaining>>

-----------------------------------------------------------------------------
(* merge: the groups that are still too small look for a joinable group *)

\* Mutant: a merged group that is still too small is taken for an open one.
SplitMergedAnyJoinable ==
    LET merged == {g \in InvalidGroups : Size(g) > 0} IN
    /\ pc = "split"
    /\ newOpenGroups' = {g \in merged : IsJoinable(g)}
    /\ remaining' = {g \in merged : IsTooSmall(g)}
    /\ pc' = "place"
    /\ UNCHANGED <<input, members, i, first, size>>

SplitMerged ==
    LET merged == {g \in InvalidGroups : Size(g) > 0} IN
    /\ pc = "split"
    /\ newOpenGroups' = {g \in merged : ~IsTooSmall(g) /\ IsJoinable(g)}
    /\ remaining' = {g \in merged : IsTooSmall(g)}
    /\ pc' = "place"
    /\ UNCHANGED <<input, members, i, first, size>>

\* Mutant: off by one.
HasCapacityForOneMore(g, h) == Size(h) > 0 /\ Size(g) + Size(h) <= sizeMax + 1

HasCapacity(g, h) == Size(h) > 0 /\ Size(g) + Size(h) <= sizeMax

\* Mutant: the groups that were valid from the start are not asked.
JoinableMergedGroups(g) == {h \in newOpenGroups : HasCapacity(g, h)}

\* Merged groups first, instead of touching groups that exist.
JoinableGroups(g) ==
    LET new == {h \in newOpenGroups : HasCapacity(g, h)}
        old == {h \in OpenGroups : HasCapacity(g, h)}
    IN IF new # {} THEN new ELSE old

FirstOf(g, S) == g \in S /\ \A h \in S : g <= h

Place(g) ==
    /\ pc = "place"
    /\ FirstOf(g, remaining)
    /\ \/ \E h \in Groups : FirstOf(h, JoinableGroups(g)) /\ MergeIntoFirstGroup(h, g)
       \/ JoinableGroups(g) = {} /\ UNCHANGED members
    /\ remaining' = remaining \ {g}
    /\ UNCHANGED <<input, pc, i, first, size, newOpenGroups>>

Return ==
    /\ pc = "place" /\ remaining = {}
    /\ pc' = "done"
    /\ UNCHANGED <<input, members, i, first, size, newOpenGroups, remaining>>

Next ==
    \/ OuterLoop \/ InnerLoop \/ SplitMerged \/ Return
    \/ \E g \in Groups : Place(g)

Spec == Init /\ [][Next]_vars

FairSpec == Spec /\ WF_vars(Next)

-----------------------------------------------------------------------------
(* Properties *)

\* Nobody is lost and nobody is in two groups, at any time.
MembersConserved ==
    /\ UNION {members[g] : g \in Groups} = UNION {before[g] : g \in Groups}
    /\ \A g, h \in Groups : g # h => members[g] \cap members[h] = {}

\* Merging never makes a group larger than sizeMax; only a group that was too
\* large from the start, and that nobody was added to, is.
MergedGroupsFit ==
    \A g \in Groups : Size(g) <= sizeMax \/ members[g] \subseteq before[g]

\* "Groups won't be split up": who was in a group together still is, and the
\* members of a valid group stay in their own.
GroupsStayTogether ==
    /\ \A g \in Groups : \E h \in Groups : before[g] \subseteq members[h]
    /\ \A g \in Groups : ~WasTooSmall(g) => before[g] \subseteq members[g]

\* In the end a group is too small only if it fits into none of the joinable
\* groups that the strategy has collected.
PlacedWherePossible ==
    pc = "done" =>
        \A g \in InvalidGroups, h \in newOpenGroups \cup OpenGroups :
           Size(g) > 0 /\ IsTooSmall(g) => ~HasCapacity(g, h)

\* The inductive strengthening: what the loops know about the group in hand, and
\* what the last loop has already dealt with.
LoopInv ==
    /\ \A g \in Groups : IsFiniteSet(members[g])
    /\ pc = "inner" =>
          first \in Groups /\ first <= i /\ size = Size(first)
    /\ pc \notin {"place", "done"} => remaining = {} /\ newOpenGroups = {}
    /\ remaining \cup newOpenGroups \subseteq InvalidGroups
    /\ remaining \cap newOpenGroups = {}
    /\ \A g \in newOpenGroups : ~IsTooSmall(g)
    /\ pc \in {"place", "done"} =>
          \A g \in InvalidGroups \ remaining, h \in newOpenGroups \cup OpenGroups :
             Size(g) > 0 /\ IsTooSmall(g) => ~HasCapacity(g, h)
    /\ pc = "done" => remaining = {}

IndInv == TypeOK /\ MembersConserved /\ MergedGroupsFit /\ GroupsStayTogether /\ LoopInv

\* The loops over one index with two ways to move on come to an end.
Terminates == <>(pc = "done")
=============================================================================
