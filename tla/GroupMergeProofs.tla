-------------------------- MODULE GroupMergeProofs --------------------------
(***************************************************************************)
(* Proofs about GroupMerge, for any number of groups of any size and for   *)
(* any settings of the course.  Both loops change the groups only by       *)
(* MergeIntoFirstGroup; MergeStep says what such a merge keeps.            *)
(***************************************************************************)
EXTENDS GroupMerge, FiniteSetTheorems, TLAPS

\* A merge moves the members of g to f and touches no other group.
LEMMA MergeValue ==
    ASSUME NEW f \in Groups, NEW g \in Groups, f # g,
           TypeOK, MergeIntoFirstGroup(f, g)
    PROVE  /\ members' \in [Groups -> SUBSET Member]
           /\ members'[f] = members[f] \cup members[g]
           /\ members'[g] = {}
           /\ \A h \in Groups \ {f, g} : members'[h] = members[h]
  BY DEF TypeOK, MergeIntoFirstGroup

\* A merge adds up the two sizes.
LEMMA MergeSize ==
    ASSUME NEW f \in Groups, NEW g \in Groups, f # g,
           TypeOK, MembersConserved, \A h \in Groups : IsFiniteSet(members[h]),
           MergeIntoFirstGroup(f, g)
    PROVE  /\ \A h \in Groups : IsFiniteSet(members[h])'
           /\ Size(f)' = Size(f) + Size(g)
           /\ Size(g)' = 0
           /\ \A h \in Groups \ {f, g} : Size(h)' = Size(h)
           /\ \A h \in Groups : Size(h) \in Nat
  <1>1. /\ members'[f] = members[f] \cup members[g]
        /\ members'[g] = {}
        /\ \A h \in Groups \ {f, g} : members'[h] = members[h]
    BY MergeValue
  <1>2. members[f] \cap members[g] = {}
    BY DEF MembersConserved
  <1>3. /\ IsFiniteSet(members[f] \cup members[g])
        /\ Cardinality(members[f] \cup members[g])
             = Cardinality(members[f]) + Cardinality(members[g])
               - Cardinality(members[f] \cap members[g])
    BY FS_Union
  <1>4. Cardinality({}) = 0 /\ IsFiniteSet({})
    BY FS_EmptySet
  <1>5. \A h \in Groups : Cardinality(members[h]) \in Nat
    BY FS_CardinalityType
  <1>6. \A h \in Groups : IsFiniteSet(members'[h])
    BY <1>1, <1>3, <1>4
  <1>7. /\ Cardinality(members'[f]) = Cardinality(members[f]) + Cardinality(members[g])
        /\ Cardinality(members'[g]) = 0
    <2>1. Cardinality(members[f]) \in Nat /\ Cardinality(members[g]) \in Nat
      BY <1>5
    <2>2. Cardinality(members[f] \cap members[g]) = 0
      BY <1>2, <1>4
    <2>3. Cardinality(members[f] \cup members[g])
             = Cardinality(members[f]) + Cardinality(members[g])
      BY <1>3, <2>1, <2>2
    <2> QED
      BY <1>1, <1>4, <2>3
  <1>8. \A h \in Groups \ {f, g} : Cardinality(members'[h]) = Cardinality(members[h])
    BY <1>1
  <1> QED
    BY <1>5, <1>6, <1>7, <1>8 DEF Size

\* A merge that fits, of a group that was too small into another, keeps
\* everybody in one group, the groups together and within sizeMax.
LEMMA MergeStep ==
    ASSUME NEW f \in Groups, NEW g \in InvalidGroups, f # g,
           TypeOK, MembersConserved, MergedGroupsFit, GroupsStayTogether,
           \A h \in Groups : IsFiniteSet(members[h]),
           Size(f) + Size(g) <= sizeMax,
           MergeIntoFirstGroup(f, g), UNCHANGED input
    PROVE  MembersConserved' /\ MergedGroupsFit' /\ GroupsStayTogether'
  <1>0. g \in Groups
    BY DEF InvalidGroups
  <1>1. /\ members'[f] = members[f] \cup members[g]
        /\ members'[g] = {}
        /\ \A h \in Groups \ {f, g} : members'[h] = members[h]
    BY <1>0, MergeValue
  <1>2. before' = before /\ sizeMax' = sizeMax /\ sizeMin' = sizeMin
    BY DEF input
  <1>3. MembersConserved'
    <2>1. UNION {members'[h] : h \in Groups} = UNION {members[h] : h \in Groups}
      <3>1. ASSUME NEW h \in Groups, NEW x \in members'[h]
            PROVE  \E k \in Groups : x \in members[k]
        BY <1>0, <1>1, <3>1
      <3>2. ASSUME NEW h \in Groups, NEW x \in members[h]
            PROVE  \E k \in Groups : x \in members'[k]
        <4>1. CASE h = g
          BY <1>1, <3>2, <4>1
        <4>2. CASE h # g
          BY <1>0, <1>1, <3>2, <4>2
        <4> QED
          BY <4>1, <4>2
      <3> QED
        BY <3>1, <3>2
    <2>2. \A h, k \in Groups : h # k => members'[h] \cap members'[k] = {}
      BY <1>0, <1>1 DEF MembersConserved
    <2> QED
      BY <1>2, <2>1, <2>2 DEF MembersConserved
  <1>4. MergedGroupsFit'
    <2>1. /\ Size(f)' <= sizeMax
          /\ \A h \in Groups \ {f, g} : Size(h)' = Size(h)
      BY <1>0, MergeSize
    <2>2. \A h \in Groups \ {f} : members'[h] \subseteq members[h]
      BY <1>0, <1>1
    <2> QED
      BY <1>0, <1>1, <1>2, <2>1, <2>2 DEF MergedGroupsFit
  <1>5. GroupsStayTogether'
    <2>1. ASSUME NEW h \in Groups
          PROVE  \E k \in Groups : before[h] \subseteq members'[k]
      <3>1. PICK k \in Groups : before[h] \subseteq members[k]
        BY DEF GroupsStayTogether
      <3>2. CASE k = g
        BY <1>1, <3>1, <3>2
      <3>3. CASE k # g
        BY <1>1, <3>1, <3>3
      <3> QED
        BY <3>2, <3>3
    <2>2. ASSUME NEW h \in Groups, ~WasTooSmall(h)
          PROVE  before[h] \subseteq members'[h]
      BY <1>0, <1>1, <2>2 DEF GroupsStayTogether, InvalidGroups
    <2>3. \A h \in Groups : WasTooSmall(h)' <=> WasTooSmall(h)
      BY <1>2 DEF WasTooSmall
    <2> QED
      BY <1>2, <2>1, <2>2, <2>3 DEF GroupsStayTogether
  <1> QED
    BY <1>3, <1>4, <1>5

\* What depends on the input alone.
LEMMA SplitKept ==
    ASSUME UNCHANGED input
    PROVE  InvalidGroups' = InvalidGroups /\ OpenGroups' = OpenGroups
  BY DEF input, InvalidGroups, OpenGroups, WasTooSmall, WasJoinable

\* The invariant holds in the beginning.
LEMMA InitInv == ASSUME ConstantsAssumption, Init PROVE IndInv
  <1>0. N \in Nat /\ MaxSize \in Nat /\ MaxSetting \in Nat
    BY DEF ConstantsAssumption
  <1>1. PICK sizes \in [Groups -> 1 .. MaxSize] :
           before = [g \in Groups |-> {g} \X (1 .. sizes[g])]
    BY DEF Init
  <1>2. \A g \in Groups : sizes[g] \in Nat /\ sizes[g] <= MaxSize
    BY <1>0, <1>1
  <1>3. \A g \in Groups : before[g] = {g} \X (1 .. sizes[g])
    BY <1>1
  <1>4. before \in [Groups -> SUBSET Member]
    BY <1>0, <1>1, <1>2 DEF Member
  <1>5. TypeOK
    BY <1>0, <1>4 DEF Init, TypeOK
  <1>6. members = before
    BY DEF Init
  <1>7. MembersConserved
    <2>1. \A g, h \in Groups : g # h => before[g] \cap before[h] = {}
      BY <1>3
    <2> QED
      BY <1>6, <2>1 DEF MembersConserved
  <1>8. MergedGroupsFit /\ GroupsStayTogether
    BY <1>6 DEF MergedGroupsFit, GroupsStayTogether
  <1>9. \A g \in Groups : IsFiniteSet(members[g])
    <2> SUFFICES ASSUME NEW g \in Groups PROVE IsFiniteSet({g} \X (1 .. sizes[g]))
      BY <1>3, <1>6
    <2>1. IsFiniteSet({g})
      BY FS_Singleton
    <2>2. sizes[g] \in Int
      BY <1>2
    <2>3. IsFiniteSet(1 .. sizes[g])
      BY <2>2, FS_Interval
    <2> QED
      BY <2>1, <2>3, FS_Product
  <1>10. LoopInv
    BY <1>9 DEF Init, LoopInv
  <1> QED
    BY <1>5, <1>7, <1>8, <1>10 DEF IndInv

\* The groups are as they were: what the invariant says of them stays true.
LEMMA GroupsKept ==
    ASSUME UNCHANGED input, UNCHANGED members,
           MembersConserved, MergedGroupsFit, GroupsStayTogether
    PROVE  MembersConserved' /\ MergedGroupsFit' /\ GroupsStayTogether'
  BY DEF input, MembersConserved, MergedGroupsFit, GroupsStayTogether, Size, WasTooSmall

\* What the invariant says of sizes and of the last loop, and what keeps it.
LEMMA SizesAreNat == ASSUME IndInv PROVE \A g \in Groups : Size(g) \in Nat
  BY FS_CardinalityType DEF IndInv, LoopInv, Size

\* The invariant survives the four kinds of steps.
LEMMA OuterLoopInv == ASSUME ConstantsAssumption, IndInv, OuterLoop PROVE IndInv'
  <1>1. UNCHANGED input /\ UNCHANGED members
    BY DEF OuterLoop
  <1>2. MembersConserved' /\ MergedGroupsFit' /\ GroupsStayTogether'
    BY <1>1, GroupsKept DEF IndInv
  <1>3. \A g \in Groups : Size(g) \in Nat
    BY SizesAreNat
  <1>4. CASE MoreInvalidGroups
    <2>1. i \in Groups
      BY <1>4 DEF ConstantsAssumption, MoreInvalidGroups, InvalidGroups, Groups, IndInv, TypeOK
    <2>2. TypeOK'
      BY <1>3, <1>4, <2>1 DEF OuterLoop, input, IndInv, TypeOK
    <2>3. LoopInv'
      BY <1>1, <1>4, <2>1, SplitKept
         DEF OuterLoop, IndInv, TypeOK, LoopInv, Size, IsTooSmall, HasCapacity, input
    <2> QED
      BY <1>2, <2>2, <2>3 DEF IndInv
  <1>5. CASE ~MoreInvalidGroups
    <2>1. TypeOK'
      BY <1>5 DEF OuterLoop, input, IndInv, TypeOK
    <2>2. LoopInv'
      BY <1>1, <1>5, SplitKept
         DEF OuterLoop, IndInv, TypeOK, LoopInv, Size, IsTooSmall, HasCapacity, input
    <2> QED
      BY <1>2, <2>1, <2>2 DEF IndInv
  <1> QED
    BY <1>4, <1>5

\* A round of the inner loop merges the next invalid group, or goes back.
LEMMA InnerLoopInv == ASSUME ConstantsAssumption, IndInv, InnerLoop PROVE IndInv'
  <1>1. UNCHANGED input
    BY DEF InnerLoop
  <1>2. \A g \in Groups : Size(g) \in Nat
    BY SizesAreNat
  <1>3. InvalidGroups' = InvalidGroups /\ OpenGroups' = OpenGroups
    BY <1>1, SplitKept
  <1>4. i \in Nat \ {0} /\ i + 1 \in Nat \ {0} /\ size \in Nat /\ sizeMax \in Nat
    BY DEF IndInv, TypeOK
  <1>5. first \in Groups /\ first <= i /\ size = Size(first)
        /\ remaining = {} /\ newOpenGroups = {}
    BY DEF IndInv, LoopInv, InnerLoop
  <1>6. ASSUME MoreInvalidGroups, size + Size(i + 1) <= sizeMax,
               MergeIntoFirstGroup(first, i + 1)
        PROVE  /\ MembersConserved' /\ MergedGroupsFit' /\ GroupsStayTogether'
               /\ \A g \in Groups : IsFiniteSet(members[g])'
               /\ Size(first)' = size + Size(i + 1)
               /\ members' \in [Groups -> SUBSET Member]
               /\ size + Size(i + 1) \in Nat
    <2>1. i + 1 \in InvalidGroups /\ i + 1 \in Groups /\ first # i + 1
      BY <1>4, <1>5, <1>6 DEF MoreInvalidGroups, InvalidGroups, Groups, ConstantsAssumption
    <2>2. MembersConserved' /\ MergedGroupsFit' /\ GroupsStayTogether'
      BY <1>1, <1>5, <1>6, <2>1, MergeStep DEF IndInv, LoopInv
    <2>3. /\ \A h \in Groups : IsFiniteSet(members[h])'
          /\ Size(first)' = size + Size(i + 1)
      <3>1. /\ TypeOK /\ MembersConserved
            /\ \A h \in Groups : IsFiniteSet(members[h])
        BY DEF IndInv, LoopInv
      <3>2. PICK f \in Groups : f = first
        BY <1>5
      <3>3. PICK g \in Groups : g = i + 1
        BY <2>1
      <3>4. MergeIntoFirstGroup(f, g) /\ f # g
        BY <1>6, <2>1, <3>2, <3>3
      <3>5. (\A h \in Groups : IsFiniteSet(members[h])') /\ Size(f)' = Size(f) + Size(g)
        BY <3>1, <3>4, MergeSize
      <3>6. first' = f /\ size = Size(f)
        BY <1>5, <3>2 DEF InnerLoop
      <3> QED
        BY <3>3, <3>5, <3>6 DEF Size
    <2>4. members' \in [Groups -> SUBSET Member]
      BY <1>5, <1>6, <2>1, MergeValue DEF IndInv
    <2> QED
      BY <1>2, <1>4, <2>1, <2>2, <2>3, <2>4
  <1>7. CASE MoreInvalidGroups /\ size + Size(i + 1) < sizeMax
               /\ MergeIntoFirstGroup(first, i + 1) /\ size' = size + Size(i + 1)
               /\ i' = i + 1 /\ UNCHANGED pc
    <2>1. i + 1 \in Groups
      BY <1>7 DEF MoreInvalidGroups, InvalidGroups
    <2>2. size + Size(i + 1) <= sizeMax
      BY <1>2, <1>4, <1>7, <2>1
    <2>3. /\ MembersConserved' /\ MergedGroupsFit' /\ GroupsStayTogether'
          /\ \A g \in Groups : IsFiniteSet(members[g])'
          /\ Size(first)' = size + Size(i + 1)
          /\ members' \in [Groups -> SUBSET Member]
          /\ size + Size(i + 1) \in Nat
      BY <1>6, <1>7, <2>2
    <2>4. TypeOK'
      BY <1>1, <1>4, <1>7, <2>3 DEF InnerLoop, input, IndInv, TypeOK
    <2>5. pc' = "inner" /\ first' = first /\ i' = i + 1
          /\ remaining' = {} /\ newOpenGroups' = {}
      BY <1>5, <1>7 DEF InnerLoop
    <2>6. first' \in Groups /\ first' <= i'
      BY <1>4, <1>5, <2>5, SMT DEF Groups, ConstantsAssumption
    <2>7. size' = Size(first)'
      BY <1>7, <2>3
    <2>8. LoopInv'
      BY <2>3, <2>5, <2>6, <2>7 DEF LoopInv
    <2> QED
      BY <2>3, <2>4, <2>8 DEF IndInv
  <1>8. CASE MoreInvalidGroups /\ size + Size(i + 1) = sizeMax
               /\ MergeIntoFirstGroup(first, i + 1) /\ pc' = "outer" /\ i' = i + 1
               /\ UNCHANGED size
    <2>1. size + Size(i + 1) <= sizeMax
      BY <1>4, <1>8
    <2>2. /\ MembersConserved' /\ MergedGroupsFit' /\ GroupsStayTogether'
          /\ \A g \in Groups : IsFiniteSet(members[g])'
          /\ members' \in [Groups -> SUBSET Member]
      BY <1>6, <1>8, <2>1
    <2>3. TypeOK'
      BY <1>1, <1>4, <1>8, <2>2 DEF InnerLoop, input, IndInv, TypeOK
    <2>4. LoopInv'
      BY <1>3, <1>4, <1>5, <1>8, <2>2 DEF InnerLoop, LoopInv, Size
    <2> QED
      BY <2>2, <2>3, <2>4 DEF IndInv
  <1>9. CASE StopMerging
    <2>1. MembersConserved' /\ MergedGroupsFit' /\ GroupsStayTogether'
      BY <1>1, <1>9, GroupsKept DEF IndInv, StopMerging
    <2>2. TypeOK'
      BY <1>1, <1>4, <1>9 DEF InnerLoop, StopMerging, input, IndInv, TypeOK
    <2>3. LoopInv'
      BY <1>3, <1>4, <1>5, <1>9 DEF InnerLoop, StopMerging, IndInv, LoopInv, Size
    <2> QED
      BY <2>1, <2>2, <2>3 DEF IndInv
  <1> QED
    BY <1>7, <1>8, <1>9 DEF InnerLoop

\* After the split nothing is dealt with yet, and what is joinable is valid.
LEMMA SplitMergedInv == ASSUME IndInv, SplitMerged PROVE IndInv'
  <1>1. UNCHANGED input /\ UNCHANGED members
    BY DEF SplitMerged
  <1>2. MembersConserved' /\ MergedGroupsFit' /\ GroupsStayTogether'
    BY <1>1, GroupsKept DEF IndInv
  <1>3. InvalidGroups' = InvalidGroups /\ OpenGroups' = OpenGroups
    BY <1>1, SplitKept
  <1>4. TypeOK'
    BY <1>1 DEF SplitMerged, input, IndInv, TypeOK, InvalidGroups
  <1>5. LoopInv'
    <2>1. /\ newOpenGroups' \subseteq InvalidGroups
          /\ \A g \in newOpenGroups' : ~IsTooSmall(g)
          /\ remaining' \subseteq InvalidGroups
          /\ remaining' \cap newOpenGroups' = {}
          /\ \A g \in InvalidGroups \ remaining' : ~(Size(g) > 0 /\ IsTooSmall(g))
      BY DEF SplitMerged
    <2>2. \A g : Size(g)' = Size(g) /\ IsTooSmall(g)' = IsTooSmall(g)
      BY <1>1 DEF Size, IsTooSmall, input
    <2>3. pc' = "place"
      BY DEF SplitMerged
    <2> QED
      BY <1>1, <1>3, <2>1, <2>2, <2>3 DEF LoopInv, IndInv
  <1> QED
    BY <1>2, <1>4, <1>5 DEF IndInv

\* When the last loop ends nothing remains.
LEMMA ReturnInv == ASSUME IndInv, Return PROVE IndInv'
  <1>1. UNCHANGED input /\ UNCHANGED members
    BY DEF Return
  <1>2. MembersConserved' /\ MergedGroupsFit' /\ GroupsStayTogether'
    BY <1>1, GroupsKept DEF IndInv
  <1>3. InvalidGroups' = InvalidGroups /\ OpenGroups' = OpenGroups
    BY <1>1, SplitKept
  <1>4. TypeOK'
    BY <1>1 DEF Return, input, IndInv, TypeOK
  <1>5. LoopInv'
    BY <1>1, <1>3 DEF Return, IndInv, LoopInv, Size, IsTooSmall, HasCapacity, input
  <1> QED
    BY <1>2, <1>4, <1>5 DEF IndInv

\* A group that is still too small goes into another group that has room for it,
\* or finds that none has.  Groups that are not in hand only grow, so what was
\* found to be full stays full.
LEMMA PlaceInv ==
    ASSUME IndInv, NEW g \in Groups, Place(g)
    PROVE  IndInv'
  <1>1. /\ UNCHANGED input /\ pc = "place" /\ pc' = "place"
        /\ newOpenGroups' = newOpenGroups /\ remaining' = remaining \ {g}
        /\ g \in remaining /\ UNCHANGED <<i, first, size>>
    BY DEF Place, FirstOf
  <1>2. InvalidGroups' = InvalidGroups /\ OpenGroups' = OpenGroups
    BY <1>1, SplitKept
  <1>3. /\ TypeOK /\ MembersConserved /\ MergedGroupsFit /\ GroupsStayTogether
        /\ \A k \in Groups : IsFiniteSet(members[k])
        /\ sizeMin \in Nat /\ sizeMax \in Nat
    BY DEF IndInv, LoopInv, TypeOK
  <1>4. /\ remaining \cup newOpenGroups \subseteq InvalidGroups
        /\ remaining \cap newOpenGroups = {}
        /\ \A k \in newOpenGroups : ~IsTooSmall(k)
        /\ \A k \in InvalidGroups \ remaining, h \in newOpenGroups \cup OpenGroups :
             Size(k) > 0 /\ IsTooSmall(k) => ~HasCapacity(k, h)
    BY <1>1 DEF IndInv, LoopInv
  <1>5. g \in InvalidGroups /\ g \notin newOpenGroups /\ g \notin OpenGroups
        /\ newOpenGroups \subseteq Groups /\ OpenGroups \subseteq Groups
        /\ InvalidGroups \subseteq Groups
    BY <1>1, <1>4 DEF InvalidGroups, OpenGroups
  <1>6. \A k \in Groups : Size(k) \in Nat
    BY SizesAreNat
  <1>7. sizeMin' = sizeMin /\ sizeMax' = sizeMax
    BY <1>1 DEF input
  <1>8. CASE \E h \in Groups : FirstOf(h, JoinableGroups(g)) /\ MergeIntoFirstGroup(h, g)
    <2>1. PICK h \in Groups : FirstOf(h, JoinableGroups(g)) /\ MergeIntoFirstGroup(h, g)
      BY <1>8
    <2>2. h \in newOpenGroups \cup OpenGroups /\ HasCapacity(g, h)
      BY <2>1 DEF FirstOf, JoinableGroups
    <2>3. h # g /\ Size(h) > 0 /\ Size(h) + Size(g) <= sizeMax
      BY <1>5, <1>6, <2>2 DEF HasCapacity
    <2>4. MembersConserved' /\ MergedGroupsFit' /\ GroupsStayTogether'
      BY <1>1, <1>3, <1>5, <2>1, <2>3, MergeStep
    <2>5. members' \in [Groups -> SUBSET Member]
      BY <1>3, <2>1, <2>3, MergeValue
    <2>6. /\ \A k \in Groups : IsFiniteSet(members[k])'
          /\ Size(h)' = Size(h) + Size(g)
          /\ Size(g)' = 0
          /\ \A k \in Groups \ {h, g} : Size(k)' = Size(k)
      BY <1>3, <2>1, <2>3, MergeSize
    <2>7. TypeOK'
      BY <1>1, <1>3, <2>5 DEF TypeOK, input
    <2>8. \A k \in newOpenGroups : ~IsTooSmall(k)'
      <3> SUFFICES ASSUME NEW k \in newOpenGroups PROVE ~IsTooSmall(k)'
        OBVIOUS
      <3>1. k \in Groups /\ k # g /\ ~(Size(k) < sizeMin)
        BY <1>4, <1>5 DEF IsTooSmall
      <3>2. Size(k)' = Size(k) \/ Size(k)' = Size(k) + Size(g)
        BY <2>6, <3>1
      <3>3. ~(Size(k)' < sizeMin')
        BY <1>3, <1>6, <1>7, <3>1, <3>2
      <3> QED
        BY <3>3 DEF IsTooSmall
    <2>9. ASSUME NEW k \in InvalidGroups \ remaining',
                 NEW j \in newOpenGroups \cup OpenGroups,
                 Size(k)' > 0, IsTooSmall(k)'
          PROVE  ~HasCapacity(k, j)'
      <3>1. k # g /\ k \in InvalidGroups \ remaining /\ k \in Groups
        BY <1>1, <1>5, <2>6, <2>9
      <3>2. k # h
        BY <2>2, <2>8, <2>9, <3>1 DEF InvalidGroups, OpenGroups
      <3>3. Size(k)' = Size(k)
        BY <2>6, <3>1, <3>2
      <3>4. Size(k) > 0 /\ IsTooSmall(k)
        BY <1>7, <2>9, <3>3 DEF IsTooSmall
      <3>5. ~HasCapacity(k, j)
        BY <1>4, <3>1, <3>4
      <3>6. j \in Groups /\ j # g
        BY <1>5
      <3>7. Size(j)' = Size(j) \/ (Size(j)' = Size(j) + Size(g) /\ Size(j) > 0)
        BY <2>3, <2>6, <3>6
      <3>8. ~(Size(j)' > 0 /\ Size(k)' + Size(j)' <= sizeMax')
        BY <1>3, <1>6, <1>7, <3>1, <3>3, <3>5, <3>6, <3>7 DEF HasCapacity
      <3> QED
        BY <3>8 DEF HasCapacity
    <2>10. LoopInv'
      BY <1>1, <1>2, <1>4, <2>6, <2>8, <2>9 DEF LoopInv
    <2> QED
      BY <2>4, <2>7, <2>10 DEF IndInv
  <1>9. CASE JoinableGroups(g) = {} /\ UNCHANGED members
    <2>1. MembersConserved' /\ MergedGroupsFit' /\ GroupsStayTogether'
      BY <1>1, <1>3, <1>9, GroupsKept
    <2>2. TypeOK'
      BY <1>1, <1>3, <1>9 DEF TypeOK, input
    <2>3. \A j \in newOpenGroups \cup OpenGroups : ~HasCapacity(g, j)
      BY <1>9 DEF JoinableGroups
    <2>4. /\ \A k : Size(k)' = Size(k) /\ IsTooSmall(k)' = IsTooSmall(k)
          /\ \A k, j : HasCapacity(k, j)' = HasCapacity(k, j)
      BY <1>7, <1>9 DEF Size, IsTooSmall, HasCapacity
    <2>5. \A k \in InvalidGroups \ remaining', j \in newOpenGroups \cup OpenGroups :
             Size(k) > 0 /\ IsTooSmall(k) => ~HasCapacity(k, j)
      BY <1>1, <1>4, <2>3
    <2>6. LoopInv'
      BY <1>1, <1>2, <1>3, <1>4, <1>9, <2>4, <2>5 DEF LoopInv
    <2> QED
      BY <2>1, <2>2, <2>6 DEF IndInv
  <1> QED
    BY <1>8, <1>9 DEF Place

-----------------------------------------------------------------------------
\* The strategy keeps its inductive invariant, whatever the groups and settings.
THEOREM MergeInvariant == Spec => []IndInv
  <1>1. Init => IndInv
    BY InitInv, ConstantsAssumption
  <1>2. IndInv /\ [Next]_vars => IndInv'
    <2> SUFFICES ASSUME IndInv, [Next]_vars PROVE IndInv'
      OBVIOUS
    <2>1. CASE OuterLoop
      BY <2>1, OuterLoopInv, ConstantsAssumption
    <2>2. CASE InnerLoop
      BY <2>2, InnerLoopInv, ConstantsAssumption
    <2>3. CASE SplitMerged
      BY <2>3, SplitMergedInv
    <2>4. CASE Return
      BY <2>4, ReturnInv
    <2>5. ASSUME NEW g \in Groups, Place(g) PROVE IndInv'
      BY <2>5, PlaceInv
    <2>6. CASE UNCHANGED vars
      BY <2>6 DEF vars, input, IndInv, TypeOK, MembersConserved, MergedGroupsFit,
                  GroupsStayTogether, LoopInv, Size, IsTooSmall, WasTooSmall,
                  WasJoinable, HasCapacity, InvalidGroups, OpenGroups
    <2> QED
      BY <2>1, <2>2, <2>3, <2>4, <2>5, <2>6 DEF Next
  <1> QED
    BY <1>1, <1>2, PTL DEF Spec

\* Merging loses nobody and puts nobody into two groups.
THEOREM NobodyLost == Spec => []MembersConserved
  BY MergeInvariant, PTL DEF IndInv

\* Merging never fills a group beyond sizeMax.
THEOREM MergedGroupsAreNotOverfull == Spec => []MergedGroupsFit
  BY MergeInvariant, PTL DEF IndInv

\* Merging splits no group, and a valid group keeps its members where they are.
THEOREM NoGroupIsSplit == Spec => []GroupsStayTogether
  BY MergeInvariant, PTL DEF IndInv

\* A group is left too small only if no collected joinable group has room for it.
THEOREM PlacementIsExhaustive == Spec => []PlacedWherePossible
  <1>1. IndInv => PlacedWherePossible
    BY DEF IndInv, LoopInv, PlacedWherePossible
  <1> QED
    BY <1>1, MergeInvariant, PTL
=============================================================================
