---------------------------- MODULE EvaluatorsProofs ----------------------------
(***************************************************************************)
(* Proofs about the allocations of Evaluators and the lists of what is to  *)
(* be reviewed, for every value of the constants.                          *)
(***************************************************************************)
EXTENDS Evaluators, FiniteSetTheorems, TLAPS

-----------------------------------------------------------------------------
(* Lemmas about requests and rows *)

\* A finite set as a sequence: every element, once.
LEMMA SetAsSequence ==
    ASSUME NEW S, IsFiniteSet(S)
    PROVE  /\ Cardinality(S) \in Nat
           /\ SetToSeq(S) \in [1 .. Cardinality(S) -> S]
           /\ \A i, j \in 1 .. Cardinality(S) : SetToSeq(S)[i] = SetToSeq(S)[j] => i = j
  <1>1. Cardinality(S) \in Nat /\ ExistsBijection(1 .. Cardinality(S), S)
    BY FS_CardinalityType
  <1>2. \E f \in [1 .. Cardinality(S) -> S] : IsInjective(f)
    BY <1>1 DEF ExistsBijection, Bijection, Injection
  <1>3. SetToSeq(S) \in [1 .. Cardinality(S) -> S] /\ IsInjective(SetToSeq(S))
    BY <1>2 DEF SetToSeq
  <1> QED
    BY <1>1, <1>3 DEF IsInjective

\* What a request about allocations carries.
LEMMA AllocationFields ==
    ASSUME NEW q \in AllocationRequest
    PROVE  /\ q # Idle /\ q.pc # "idle" /\ {"op", "pc"} \subseteq DOMAIN q
           /\ q.op \in {"allocate", "copy"} /\ q.assignment \in Assignments
           /\ q.found \subseteq Allocation
           /\ q.op = "allocate" => /\ q.pc \in {"find", "save"} /\ q.target \in Targets
                                   /\ q.evaluator \in Staff
           /\ q.op = "copy" => q.pc \in {"load", "save"}
  BY DEF AllocationRequest, Idle

\* A slot that is at some step of a handler holds a request.
LEMMA BusySlot ==
    ASSUME AllocationsTypeOK, NEW r \in Requests, NEW op, NEW pc, At(r, op, pc), pc # "idle"
    PROVE  /\ req[r] # Idle /\ {"op", "pc"} \subseteq DOMAIN req[r]
           /\ op \in {"allocate", "copy"} => req[r] \in AllocationRequest
  BY DEF AllocationsTypeOK, At, Idle

\* A request of Assessments: a record that is not about allocations.
Foreign(q) == {"op", "pc"} \subseteq DOMAIN q /\ q.op \notin {"allocate", "copy"}

\* What a request about allocations that is put into a slot knows.
Loaded(q) ==
    /\ q.op = "allocate" => q.target # NobodyAtAll
    /\ q.op = "allocate" /\ q.pc = "find" => q.found = {}
    /\ q.op = "allocate" /\ q.pc = "save" =>
          /\ q.found = {} \/ \E x \in Allocation : q.found = {x}
          /\ q.found \subseteq KnownAllocs
    /\ q.op = "copy" /\ q.pc = "save" =>
          /\ IsFiniteSet(q.found) /\ TargetsDiffer(q.found)
          /\ q.found \subseteq KnownAllocs

\* The slots after a step.
Slots ==
    /\ req' \in [Requests -> {req'[r] : r \in Requests}]
    /\ \A s \in Requests : \/ req'[s] = req[s] \/ req'[s] = Idle \/ Foreign(req'[s])
                           \/ req'[s] \in AllocationRequest /\ Loaded(req'[s])

\* A step of one request.
LEMMA OneSlot ==
    ASSUME AllocationsInv, NEW r \in Requests, NEW q, req' = [req EXCEPT ![r] = q],
           q = Idle \/ Foreign(q) \/ (q \in AllocationRequest /\ Loaded(q))
    PROVE  Slots
  <1>1. DOMAIN req = Requests /\ req = [s \in Requests |-> req[s]]
    BY DEF AllocationsInv, AllocationsTypeOK
  <1>2. req' = [s \in Requests |-> req'[s]]
    BY <1>1
  <1>3. req'[r] = q /\ \A s \in Requests \ {r} : req'[s] = req[s]
    BY <1>1
  <1>4. req' \in [Requests -> {req'[s] : s \in Requests}]
    BY <1>2
  <1> QED
    BY <1>3, <1>4 DEF Slots

\* A step of no request.
LEMMA NoSlot ==
    ASSUME AllocationsInv, req' = req
    PROVE  Slots
  BY DEF Slots, AllocationsInv, AllocationsTypeOK

\* Requests keep their type and stay consistent.
LEMMA RequestsKept ==
    ASSUME AllocationsInv, Slots
    PROVE  /\ AllocationRequestsConsistent'
           /\ \A r \in Requests : req'[r] # Idle =>
                 /\ {"op", "pc"} \subseteq DOMAIN req'[r]
                 /\ req'[r].op \in {"allocate", "copy"} => req'[r] \in AllocationRequest
  <1>1. ASSUME NEW r \in Requests
        PROVE  /\ At(r, "allocate", "find")' => req'[r].target # NobodyAtAll /\ req'[r].found = {}
               /\ At(r, "allocate", "save")' =>
                     /\ req'[r].target # NobodyAtAll
                     /\ req'[r].found = {} \/ \E x \in Allocation : req'[r].found = {x}
               /\ At(r, "copy", "save")' => IsFiniteSet(req'[r].found) /\ TargetsDiffer(req'[r].found)
               /\ req'[r] # Idle =>
                     /\ {"op", "pc"} \subseteq DOMAIN req'[r]
                     /\ req'[r].op \in {"allocate", "copy"} => req'[r] \in AllocationRequest
    <2>1. CASE req'[r] = req[r]
      BY <2>1 DEF AllocationsInv, AllocationsTypeOK, AllocationRequestsConsistent, At
    <2>2. CASE req'[r] = Idle
      BY <2>2 DEF At, Idle
    <2>3. CASE Foreign(req'[r])
      BY <2>3 DEF Foreign, At
    <2>4. CASE req'[r] \in AllocationRequest /\ Loaded(req'[r])
      BY <2>4, AllocationFields DEF Loaded, At
    <2> QED
      BY <2>1, <2>2, <2>3, <2>4 DEF Slots
  <1>2. AllocationRequestsConsistent'
    BY <1>1 DEF AllocationRequestsConsistent, TargetsDiffer
  <1> QED
    BY <1>1, <1>2

\* An allocation that is known is in the table or was found by a request.
LEMMA KnownAllocsAre ==
    ASSUME NEW x
    PROVE  x \in KnownAllocs <=>
              \/ x \in allocs
              \/ \E s \in Requests : /\ At(s, "allocate", "save") \/ At(s, "copy", "save")
                                     /\ x \in req[s].found
  <1>1. x \in KnownAllocs <=> x \in allocs \/ \E s \in Requests : x \in LoadedAllocs(s)
    BY DEF KnownAllocs
  <1> QED
    BY <1>1 DEF LoadedAllocs

\* New allocations have new ids, and what is known keeps its assignment and its target.
LEMMA AllocsStayKnown ==
    ASSUME AllocationsInv, Slots, NEW new,
           nextAlloc' \in Nat, nextAlloc' >= nextAlloc,
           \A x \in allocs' :
              \/ \E y \in KnownAllocs : y.id = x.id /\ y.assignment = x.assignment /\ y.target = x.target
              \/ x \in new,
           \A x \in new : /\ x.id \in Nat /\ x.id >= nextAlloc /\ x.id < nextAlloc'
                          /\ x.target # NobodyAtAll,
           \A x, y \in new : x.id = y.id => x = y
    PROVE  AllocsKnown'
  <1>1. nextAlloc \in Nat
    BY EvaluatorsAssumption DEF AllocationsInv, AllocationsTypeOK
  <1>2. ASSUME NEW x \in KnownAllocs'
        PROVE  \/ \E y \in KnownAllocs : y.id = x.id /\ y.assignment = x.assignment /\ y.target = x.target
               \/ x \in new
    <2>1. CASE x \in allocs'
      BY <2>1
    <2>2. ASSUME NEW s \in Requests, At(s, "allocate", "save")' \/ At(s, "copy", "save")',
                 x \in req'[s].found
          PROVE  x \in KnownAllocs
      <3>1. CASE req'[s] = req[s]
        BY <2>2, <3>1, KnownAllocsAre DEF At
      <3>2. CASE req'[s] # req[s]
        BY <2>2, <3>2 DEF Slots, Loaded, Foreign, At, Idle
      <3> QED
        BY <3>1, <3>2
    <2>3. x \in allocs' \/ \E s \in Requests : x \in LoadedAllocs(s)'
      BY <1>2 DEF KnownAllocs
    <2> QED
      BY <2>1, <2>2, <2>3 DEF LoadedAllocs
  <1>3. ASSUME NEW x \in KnownAllocs
        PROVE  x.id \in Nat /\ x.id < nextAlloc /\ x.target # NobodyAtAll
    <2>1. x \in Allocation
      BY KnownAllocsAre, BusySlot, AllocationFields DEF AllocationsInv, AllocationsTypeOK
    <2> QED
      BY <2>1, EvaluatorsAssumption DEF Allocation, AllocationsInv, AllocsKnown
  <1>4. \A x, y \in KnownAllocs : x.id = y.id => x.assignment = y.assignment /\ x.target = y.target
    BY DEF AllocationsInv, AllocsKnown
  <1> QED
    BY <1>1, <1>2, <1>3, <1>4 DEF AllocsKnown

-----------------------------------------------------------------------------
(* The invariant: steps of other components *)

\* Steps that make no allocation, and that remove those of whatever they delete.
LEMMA RemovingStep ==
    ASSUME AllocationsInv, Slots, allocs' \subseteq allocs, nextAlloc' = nextAlloc,
           users' \subseteq users, groups' \subseteq groups,
           phase' \in [Assignments -> {"open", "evaluated", "deleted"}],
           \A x \in allocs' : ReferencesExist(x)'
    PROVE  AllocationsInv'
  <1>1. AllocationsTypeOK'
    <2>1. IsFiniteSet(allocs')
      BY FS_Subset DEF AllocationsInv, AllocationsTypeOK
    <2> QED
      BY <2>1, RequestsKept DEF AllocationsInv, AllocationsTypeOK, Slots
  <1>2. AllocatedOnce'
    BY DEF AllocationsInv, AllocatedOnce
  <1>3. AllocsKnown'
    <2> DEFINE new == {}
    <2>1. /\ \A x \in allocs' : x \in KnownAllocs
          /\ \A x \in new : /\ x.id \in Nat /\ x.id >= nextAlloc /\ x.id < nextAlloc'
                            /\ x.target # NobodyAtAll
          /\ \A x, y \in new : x.id = y.id => x = y
      BY DEF KnownAllocs
    <2> HIDE DEF new
    <2>2. nextAlloc \in Nat
      BY EvaluatorsAssumption DEF AllocationsInv, AllocationsTypeOK
    <2> QED
      BY <2>1, <2>2, AllocsStayKnown
  <1> QED
    BY <1>1, <1>2, <1>3, RequestsKept DEF AllocationsInv

\* A step that keeps the allocations and what they refer to.
LEMMA KeepingStep ==
    ASSUME AllocationsInv, Slots, UNCHANGED allocVars, users' = users, groups' = groups,
           phase' \in [Assignments -> {"open", "evaluated", "deleted"}],
           \A a \in Assignments : phase[a] # "deleted" => phase'[a] # "deleted"
    PROVE  AllocationsInv'
  <1>1. \A x \in allocs : x.assignment \in Assignments
    BY DEF AllocationsInv, AllocationsTypeOK, Allocation
  <1>2. \A x \in allocs' : ReferencesExist(x)'
    BY <1>1 DEF AllocationsInv, AllocatedOnce, ReferencesExist, allocVars
  <1> QED
    BY <1>2, RemovingStep DEF allocVars

\* A request of Assessments that goes on, or ends.
LEMMA GoesOn ==
    ASSUME AllocationsInv, NEW r \in Requests, NEW op \in {"create", "update", "partial"}, NEW pc,
           pc # "idle", At(r, op, pc), NEW q, Advance(r, q), UNCHANGED world,
           q = Idle \/ (DOMAIN q = DOMAIN req[r] /\ q.op = req[r].op)
    PROVE  Slots /\ UNCHANGED world
  BY BusySlot, OneSlot DEF Foreign, At, AllocationsInv, Advance

\* Steps of Assessments leave requests about allocations alone.
LEMMA ForeignSlots ==
    ASSUME AllocationsInv, NEW r \in Requests, StartAssessment(r) \/ AssessmentStep(r)
    PROVE  Slots /\ UNCHANGED world
  <1>1. ASSUME NEW q, q.op \in {"create", "update", "partial"}, {"op", "pc"} \subseteq DOMAIN q,
               Begin(r, q)
        PROVE  Slots /\ UNCHANGED world
    BY <1>1, OneSlot DEF Foreign, Begin
  <1>2. ASSUME NEW a \in Assignments, NEW target \in Students \cup GroupIds, NEW p \in Points,
               NEW by \in Staff, NEW keys \in SUBSET Keys, StartCreate(r, a, target, p, keys, by)
        PROVE  Slots /\ UNCHANGED world
    <2> DEFINE q == [op |-> "create", pc |-> "members", assignment |-> a, target |-> target,
                     points |-> p, keys |-> keys, by |-> by, reviewed |-> {}]
    <2>1. q.op = "create" /\ {"op", "pc"} \subseteq DOMAIN q /\ Begin(r, q)
      BY <1>2 DEF StartCreate
    <2> HIDE DEF q
    <2> QED
      BY <1>1, <2>1
  <1>3. ASSUME NEW id \in Ids, NEW key \in Keys, StartPartial(r, id, key)
        PROVE  Slots /\ UNCHANGED world
    <2> DEFINE q == [op |-> "partial", pc |-> "find", id |-> id, key |-> key, found |-> {}]
    <2>1. q.op = "partial" /\ {"op", "pc"} \subseteq DOMAIN q /\ Begin(r, q)
      BY <1>3 DEF StartPartial
    <2> HIDE DEF q
    <2> QED
      BY <1>1, <2>1
  <1>4. ASSUME NEW id \in Ids, NEW p \in Points \cup {Keep}, NEW by \in Staff,
               NEW keys \in (SUBSET Keys) \cup {Keep}, StartUpdate(r, id, p, keys, by)
        PROVE  Slots /\ UNCHANGED world
    <2> DEFINE q == [op |-> "update", pc |-> "original", id |-> id, points |-> p, keys |-> keys,
                     by |-> by, entity |-> {}, loaded |-> {}, old |-> Keep, new |-> Keep]
    <2>1. q.op = "update" /\ {"op", "pc"} \subseteq DOMAIN q /\ Begin(r, q)
      BY <1>4 DEF StartUpdate
    <2> HIDE DEF q
    <2> QED
      BY <1>1, <2>1
  <1>5. CASE StartAssessment(r)
    BY <1>2, <1>3, <1>4, <1>5 DEF StartAssessment
  <1> USE DEF Reject, GoOn, Finish
  <1>6. ASSUME NEW op \in {"create", "update", "partial"}, NEW pc, pc # "idle", At(r, op, pc),
               NEW q, NEW next, q = req[r], Advance(r, next), UNCHANGED world,
               \/ \E x, y : next = [q EXCEPT !.pc = x, !.reviewed = y]
               \/ \E x, y : next = [q EXCEPT !.pc = x, !.old = y]
               \/ \E x, y, z : next = [q EXCEPT !.pc = x, !.entity = y, !.loaded = z]
               \/ \E x : next = [q EXCEPT !.pc = x]
               \/ \E x, y : next = [q EXCEPT !.pc = x, !.new = y]
               \/ \E x, y : next = [q EXCEPT !.pc = x, !.found = y]
        PROVE  Slots /\ UNCHANGED world
    <2>1. DOMAIN next = DOMAIN q
      BY <1>6
    <2>2. "op" \in DOMAIN q
      BY <1>6, BusySlot DEF AllocationsInv
    <2>3. next.op = q.op
      BY <1>6, <2>2
    <2> QED
      BY <1>6, <2>1, <2>3, GoesOn
  <1>7. ASSUME NEW op \in {"create", "update", "partial"}, NEW pc, pc # "idle", At(r, op, pc),
               Advance(r, Idle), UNCHANGED world
        PROVE  Slots /\ UNCHANGED world
    BY <1>7, GoesOn
  <1>8. CASE FindMembers(r)
    <2>1. At(r, "create", "members") /\ UNCHANGED world
      BY <1>8 DEF FindMembers
    <2>2. CASE Advance(r, Idle)
      BY <1>7, <2>1, <2>2
    <2>3. CASE \E x, y : Advance(r, [req[r] EXCEPT !.pc = x, !.reviewed = y])
      BY <1>6, <2>1, <2>3
    <2> QED
      BY <1>8, <2>2, <2>3 DEF FindMembers
  <1>9. CASE SaveCreate(r)
    BY <1>7, <1>9 DEF SaveCreate
  <1>10. CASE LoadOriginal(r)
    <2>1. At(r, "update", "original") /\ UNCHANGED world
      BY <1>10 DEF LoadOriginal
    <2>2. CASE Advance(r, Idle)
      BY <1>7, <2>1, <2>2
    <2>3. CASE \E x, y : Advance(r, [req[r] EXCEPT !.pc = x, !.old = y])
      BY <1>6, <2>1, <2>3
    <2> QED
      BY <1>10, <2>2, <2>3 DEF LoadOriginal
  <1>11. CASE LoadEntity(r)
    <2>1. At(r, "update", "load") /\ UNCHANGED world
      BY <1>11 DEF LoadEntity
    <2>2. CASE Advance(r, Idle)
      BY <1>7, <2>1, <2>2
    <2>3. CASE \E x, y, z : Advance(r, [req[r] EXCEPT !.pc = x, !.entity = y, !.loaded = z])
      BY <1>6, <2>1, <2>3
    <2> QED
      BY <1>11, <2>2, <2>3 DEF LoadEntity
  <1>12. CASE SaveUpdate(r)
    <2>1. At(r, "update", "save") /\ UNCHANGED world
      BY <1>12 DEF SaveUpdate
    <2>2. CASE Advance(r, Idle)
      BY <1>7, <2>1, <2>2
    <2>3. CASE Advance(r, [req[r] EXCEPT !.pc = "reread"])
      BY <1>6, <2>1, <2>3
    <2> QED
      BY <1>12, <2>2, <2>3 DEF SaveUpdate
  <1>13. CASE Reread(r)
    <2>1. At(r, "update", "reread") /\ UNCHANGED world
      BY <1>13 DEF Reread
    <2>2. CASE Advance(r, Idle)
      BY <1>7, <2>1, <2>2
    <2>3. CASE \E x, y : Advance(r, [req[r] EXCEPT !.pc = x, !.new = y])
      BY <1>6, <2>1, <2>3
    <2> QED
      BY <1>13, <2>2, <2>3 DEF Reread
  <1>14. CASE RecordChange(r)
    BY <1>7, <1>14 DEF RecordChange
  <1>15. CASE FindPartial(r)
    <2>1. At(r, "partial", "find") /\ UNCHANGED world
      BY <1>15 DEF FindPartial
    <2>2. \E x, y : Advance(r, [req[r] EXCEPT !.pc = x, !.found = y])
      BY <1>15 DEF FindPartial
    <2> QED
      BY <1>6, <2>1, <2>2
  <1>16. CASE SavePartial(r)
    BY <1>7, <1>16 DEF SavePartial
  <1> QED
    BY <1>5, <1>8, <1>9, <1>10, <1>11, <1>12, <1>13, <1>14, <1>15, <1>16 DEF AssessmentStep

\* Steps of Assessments that concern no allocation.
LEMMA AloneKeepsAllocations ==
    ASSUME AllocationsInv, AloneStep, UNCHANGED <<memberOf, allocVars>>
    PROVE  AllocationsInv'
  <1>1. ASSUME NEW r \in Requests, StartAssessment(r) \/ AssessmentStep(r)
        PROVE  AllocationsInv'
    BY <1>1, ForeignSlots, KeepingStep DEF world, AllocationsInv, AllocationsTypeOK
  <1>2. CASE \E id \in Ids : DeleteAssessment(id)
    BY <1>2, NoSlot, KeepingStep DEF DeleteAssessment, world, AllocationsInv, AllocationsTypeOK
  <1>3. ASSUME NEW a \in Assignments, NEW to \in {"open", "evaluated"}, ChangePhase(a, to)
        PROVE  AllocationsInv'
    BY <1>3, NoSlot, KeepingStep DEF ChangePhase, rows, AllocationsInv, AllocationsTypeOK
  <1>4. CASE \E a \in Assignments, s \in Students, g \in GroupIds \cup {NoGroup} : Register(a, s, g)
    BY <1>4, NoSlot, KeepingStep DEF Register, AllocationsInv, AllocationsTypeOK
  <1>5. CASE Crash
    <2>1. Slots
      BY <1>5 DEF Crash, Slots
    <2> QED
      BY <1>5, <2>1, KeepingStep DEF Crash, world, AllocationsInv, AllocationsTypeOK
  <1> QED
    BY <1>1, <1>2, <1>3, <1>4, <1>5 DEF AloneStep

\* Members come and go.
LEMMA MemberStep ==
    ASSUME AllocationsInv,
           \E s \in Students : LeaveGroup(s) \/ \E g \in GroupIds : JoinGroup(s, g)
    PROVE  AllocationsInv'
  BY NoSlot, KeepingStep DEF LeaveGroup, JoinGroup, countless, world, AllocationsInv, AllocationsTypeOK

\* Foreign keys: allocations go with their group, assignment or user.
LEMMA DeletionStep ==
    ASSUME AllocationsInv,
           \/ \E g \in GroupIds : RemoveGroup(g)
           \/ \E a \in Assignments : RemoveAssignment(a)
           \/ \E u \in Users : RemoveUser(u)
    PROVE  AllocationsInv'
  <1>1. \A x \in allocs : /\ x.assignment \in Assignments /\ ReferencesExist(x)
                          /\ x.target.group \in GroupIds \cup {NoTarget}
                          /\ x.target.user \in Students \cup {NoTarget}
    BY DEF AllocationsInv, AllocationsTypeOK, AllocatedOnce, Allocation, Targets
  <1> USE DEF DropAllocs
  <1>2. ASSUME NEW g \in GroupIds, RemoveGroup(g)
        PROVE  AllocationsInv'
    <2>1. /\ allocs' = allocs \ {x \in allocs : x.target.group = g} /\ nextAlloc' = nextAlloc
          /\ groups' = groups \ {g} /\ users' = users /\ phase' = phase /\ req' = req
      BY <1>2 DEF RemoveGroup, DeleteGroup
    <2>2. \A x \in allocs' : ReferencesExist(x)'
      BY <1>1, <2>1 DEF ReferencesExist
    <2> QED
      BY <2>1, <2>2, NoSlot, RemovingStep DEF AllocationsInv, AllocationsTypeOK
  <1>3. ASSUME NEW a \in Assignments, RemoveAssignment(a)
        PROVE  AllocationsInv'
    <2>1. /\ allocs' = allocs \ AllocsOf(a) /\ nextAlloc' = nextAlloc
          /\ groups' = groups /\ users' = users /\ phase' = [phase EXCEPT ![a] = "deleted"]
          /\ req' = req
      BY <1>3 DEF RemoveAssignment, DeleteAssignment
    <2>2. phase' \in [Assignments -> {"open", "evaluated", "deleted"}]
      BY <2>1 DEF AllocationsInv, AllocationsTypeOK
    <2>3. \A x \in allocs' : ReferencesExist(x)'
      BY <1>1, <2>1 DEF ReferencesExist, AllocsOf, AllocationsInv, AllocationsTypeOK
    <2> QED
      BY <2>1, <2>2, <2>3, NoSlot, RemovingStep
  <1>4. ASSUME NEW u \in Users, RemoveUser(u)
        PROVE  AllocationsInv'
    <2>1. /\ allocs' = allocs \ {x \in allocs : u \in {x.target.user, x.evaluator}}
          /\ nextAlloc' = nextAlloc /\ groups' = groups /\ users' = users \ {u}
          /\ phase' = phase /\ req' = req
      BY <1>4 DEF RemoveUser, DeleteUser
    <2>2. \A x \in allocs' : ReferencesExist(x)'
      BY <1>1, <2>1 DEF ReferencesExist
    <2> QED
      BY <2>1, <2>2, NoSlot, RemovingStep DEF AllocationsInv, AllocationsTypeOK
  <1> QED
    BY <1>2, <1>3, <1>4

\* removeAllocation, removeAllAllocationsOfAssignment
LEMMA RemoveAllocationsStep ==
    ASSUME AllocationsInv, NEW a \in Assignments, NEW t \in Targets, RemoveAllocations(a, t)
    PROVE  AllocationsInv'
  <1>1. \A x \in allocs : ReferencesExist(x)
    BY DEF AllocationsInv, AllocatedOnce
  <1>2. \A x \in allocs' : ReferencesExist(x)'
    BY <1>1 DEF RemoveAllocations, ReferencesExist, countless, world
  <1> QED
    BY <1>2, NoSlot, RemovingStep DEF RemoveAllocations, countless, world, AllocationsInv, AllocationsTypeOK

-----------------------------------------------------------------------------
(* The invariant: allocations are made *)

\* A request about allocations that begins, goes on or ends writes nothing.
LEMMA QuietAllocation ==
    ASSUME AllocationsInv, NEW r \in Requests, NEW q, req' = [req EXCEPT ![r] = q],
           q = Idle \/ (q \in AllocationRequest /\ Loaded(q)),
           UNCHANGED <<world, allocVars>>
    PROVE  AllocationsInv'
  BY OneSlot, KeepingStep DEF world, AllocationsInv, AllocationsTypeOK

\* Requests begin with what the client sent.
LEMMA StartAllocation ==
    ASSUME AllocationsInv, NEW r \in Requests,
           \/ \E a \in Assignments, t \in Targets, e \in Staff : StartAllocate(r, a, t, e)
           \/ \E a, b \in Assignments : StartCopy(r, a, b)
    PROVE  AllocationsInv'
  <1>1. ASSUME NEW a \in Assignments, NEW t \in Targets, NEW e \in Staff, StartAllocate(r, a, t, e)
        PROVE  AllocationsInv'
    <2> DEFINE q == [op |-> "allocate", pc |-> "find", assignment |-> a, target |-> t,
                     evaluator |-> e, found |-> {}]
    <2>1. /\ q \in AllocationRequest /\ q.op = "allocate" /\ q.pc = "find" /\ q.target = t
          /\ q.found = {}
      BY DEF AllocationRequest
    <2>2. t # NobodyAtAll /\ req' = [req EXCEPT ![r] = q] /\ UNCHANGED <<world, allocVars>>
      BY <1>1 DEF StartAllocate, Begin
    <2> HIDE DEF q
    <2> QED
      BY <2>1, <2>2, QuietAllocation DEF Loaded
  <1>2. ASSUME NEW a \in Assignments, NEW b \in Assignments, StartCopy(r, a, b)
        PROVE  AllocationsInv'
    <2> DEFINE q == [op |-> "copy", pc |-> "load", assignment |-> a, from |-> b, found |-> {}]
    <2>1. q \in AllocationRequest /\ q.op = "copy" /\ q.pc = "load"
      BY DEF AllocationRequest
    <2>2. req' = [req EXCEPT ![r] = q] /\ UNCHANGED <<world, allocVars>>
      BY <1>2 DEF StartCopy, Begin
    <2> HIDE DEF q
    <2> QED
      BY <2>1, <2>2, QuietAllocation DEF Loaded
  <1> QED
    BY <1>1, <1>2

\* What a request looks up: one allocation, or those of an assignment.
LEMMA LoadAllocationsStep ==
    ASSUME AllocationsInv, NEW r \in Requests, FindAllocation(r) \/ LoadAllocations(r)
    PROVE  AllocationsInv'
  <1> DEFINE q == req[r]
  <1> USE DEF GoOn, Advance
  <1>1. allocs \subseteq Allocation /\ allocs \subseteq KnownAllocs
    BY DEF AllocationsInv, AllocationsTypeOK, KnownAllocs
  <1>2. CASE FindAllocation(r)
    <2>1. At(r, "allocate", "find") /\ UNCHANGED <<world, allocVars>>
      BY <1>2 DEF FindAllocation
    <2>2. q \in AllocationRequest /\ q.op = "allocate" /\ q.target # NobodyAtAll
      BY <2>1, BusySlot DEF At, AllocationsInv, AllocationRequestsConsistent
    <2>3. ASSUME NEW next, next = [q EXCEPT !.pc = "save"],
                 req' = [req EXCEPT ![r] = next]
          PROVE  AllocationsInv'
      <3>1. /\ next \in AllocationRequest /\ next.op = "allocate" /\ next.found = {}
            /\ next.target = q.target /\ next.pc = "save"
        BY <2>1, <2>2, <2>3 DEF AllocationRequest, At, AllocationsInv, AllocationRequestsConsistent
      <3>2. Loaded(next)
        BY <2>2, <3>1 DEF Loaded
      <3> QED
        BY <2>1, <2>3, <3>1, <3>2, QuietAllocation
    <2>4. ASSUME NEW x \in allocs, NEW next, next = [q EXCEPT !.pc = "save", !.found = {x}],
                 req' = [req EXCEPT ![r] = next]
          PROVE  AllocationsInv'
      <3>1. /\ next \in AllocationRequest /\ next.op = "allocate" /\ next.found = {x}
            /\ next.target = q.target /\ next.pc = "save"
        BY <1>1, <2>2, <2>4 DEF AllocationRequest
      <3>2. Loaded(next)
        BY <1>1, <2>2, <3>1 DEF Loaded
      <3> QED
        BY <2>1, <2>4, <3>1, <3>2, QuietAllocation
    <2>5. \/ req' = [req EXCEPT ![r] = [q EXCEPT !.pc = "save"]]
          \/ \E x \in allocs : req' = [req EXCEPT ![r] = [q EXCEPT !.pc = "save", !.found = {x}]]
      BY <1>2 DEF FindAllocation, Matching, AllocsOf
    <2> QED
      BY <2>3, <2>4, <2>5
  <1>3. CASE LoadAllocations(r)
    <2>1. At(r, "copy", "load") /\ UNCHANGED <<world, allocVars>>
      BY <1>3 DEF LoadAllocations
    <2>2. q \in AllocationRequest /\ q.op = "copy"
      BY <2>1, BusySlot DEF At, AllocationsInv
    <2>3. CASE req' = [req EXCEPT ![r] = Idle]
      BY <2>1, <2>3, QuietAllocation
    <2>4. CASE req' = [req EXCEPT ![r] = [q EXCEPT !.pc = "save", !.found = AllocsOf(q.from)]]
      <3> DEFINE next == [q EXCEPT !.pc = "save", !.found = AllocsOf(q.from)]
      <3>1. AllocsOf(q.from) \subseteq allocs /\ IsFiniteSet(AllocsOf(q.from))
        BY FS_Subset DEF AllocsOf, AllocationsInv, AllocationsTypeOK
      <3>2. TargetsDiffer(AllocsOf(q.from))
        BY DEF TargetsDiffer, AllocsOf, AllocationsInv, AllocatedOnce
      <3>3. /\ next \in AllocationRequest /\ next.op = "copy" /\ next.found = AllocsOf(q.from)
        BY <1>1, <2>2, <3>1 DEF AllocationRequest
      <3> HIDE DEF next
      <3>4. Loaded(next)
        BY <1>1, <3>1, <3>2, <3>3 DEF Loaded
      <3> QED
        BY <2>1, <2>4, <3>3, <3>4, QuietAllocation DEF next
    <2> QED
      BY <1>3, <2>3, <2>4 DEF LoadAllocations
  <1> QED
    BY <1>2, <1>3

\* save: an allocation that was found keeps its assignment and its target.
LEMMA SaveAllocationStep ==
    ASSUME AllocationsInv, NEW r \in Requests, SaveAllocation(r)
    PROVE  AllocationsInv'
  <1> DEFINE q == req[r]
  <1>1. /\ At(r, "allocate", "save") /\ UNCHANGED <<world, memberOf>>
        /\ req' = [req EXCEPT ![r] = Idle]
    BY DEF SaveAllocation, Finish, Advance
  <1>2. /\ q \in AllocationRequest /\ q.op = "allocate" /\ q.target # NobodyAtAll
        /\ q.found = {} \/ \E x \in Allocation : q.found = {x}
    BY <1>1, BusySlot DEF At, AllocationsInv, AllocationRequestsConsistent
  <1>3. Slots
    BY <1>1, OneSlot
  <1>4. CASE UNCHANGED allocVars
    BY <1>1, <1>4, QuietAllocation
  <1>5. nextAlloc \in Nat /\ nextAlloc <= MaxAllocs + 1 /\ nextAlloc > 0 /\ MaxAllocs \in Nat
    BY EvaluatorsAssumption DEF AllocationsInv, AllocationsTypeOK
  <1>6. ASSUME NEW row \in Allocation, nextAlloc' \in 1 .. MaxAllocs + 1,
               nextAlloc' >= nextAlloc, allocs' = {x \in allocs : x.id # row.id} \cup {row},
               ReferencesExist(row), row.target # NobodyAtAll,
               (\E x \in allocs : x.id = row.id) \/ ~TargetTaken(row.assignment, row.target),
               \/ \E y \in KnownAllocs : y.id = row.id /\ y.assignment = row.assignment
                                         /\ y.target = row.target
               \/ row.id = nextAlloc /\ nextAlloc' = nextAlloc + 1
        PROVE  AllocationsInv'
    <2>1. AllocationsTypeOK'
      <3>1. IsFiniteSet(allocs')
        <4>1. IsFiniteSet({x \in allocs : x.id # row.id})
          BY FS_Subset DEF AllocationsInv, AllocationsTypeOK
        <4> QED
          BY <1>6, <4>1, FS_AddElement
      <3> QED
        BY <1>1, <1>3, <1>6, <3>1, RequestsKept DEF AllocationsInv, AllocationsTypeOK, Slots, world
    <2>2. AllocsKnown'
      <3> DEFINE new == IF row.id = nextAlloc /\ nextAlloc' = nextAlloc + 1 THEN {row} ELSE {}
      <3>1. \A x \in allocs' :
              \/ \E y \in KnownAllocs : y.id = x.id /\ y.assignment = x.assignment /\ y.target = x.target
              \/ x \in new
        BY <1>6 DEF KnownAllocs
      <3>2. /\ \A x \in new : /\ x.id \in Nat /\ x.id >= nextAlloc /\ x.id < nextAlloc'
                              /\ x.target # NobodyAtAll
            /\ \A x, y \in new : x.id = y.id => x = y
        BY <1>5, <1>6
      <3> HIDE DEF new
      <3> QED
        BY <1>3, <1>5, <1>6, <3>1, <3>2, AllocsStayKnown
    <2>3. ASSUME NEW y \in allocs, y.id # row.id, NEW column \in {"group", "user"},
                 y.assignment = row.assignment, y.target[column] = row.target[column],
                 row.target[column] # NoTarget
          PROVE  FALSE
      <3>1. TargetTaken(row.assignment, row.target)
        BY <2>3 DEF TargetTaken, Taken
      <3>2. PICK z \in allocs : z.id = row.id
        BY <1>6, <3>1
      <3>3. z.assignment = row.assignment /\ z.target = row.target
        <4>1. \E x \in KnownAllocs : x.id = row.id /\ x.assignment = row.assignment
                                     /\ x.target = row.target
          BY <1>5, <1>6, <3>2 DEF AllocationsInv, AllocsKnown, KnownAllocs
        <4>2. z \in KnownAllocs
          BY DEF KnownAllocs
        <4> QED
          BY <3>2, <4>1, <4>2 DEF AllocationsInv, AllocsKnown
      <3>4. z = y
        BY <2>3, <3>3 DEF AllocationsInv, AllocatedOnce
      <3> QED
        BY <2>3, <3>2, <3>4
    <2>4. AllocatedOnce'
      <3>1. \A x, y \in allocs' : x.id = y.id => x = y
        BY <1>6 DEF AllocationsInv, AllocatedOnce
      <3>2. ASSUME NEW x \in allocs', NEW y \in allocs', NEW column \in {"group", "user"},
                   x.assignment = y.assignment, x.target[column] = y.target[column],
                   x.target[column] # NoTarget
            PROVE  x = y
        <4>1. x \in allocs /\ y \in allocs => x = y
          BY <3>2 DEF AllocationsInv, AllocatedOnce
        <4> QED
          BY <1>6, <2>3, <3>2, <4>1
      <3>3. \A x \in allocs' : ReferencesExist(x)' /\ x.target # NobodyAtAll
        BY <1>1, <1>6 DEF AllocationsInv, AllocatedOnce, ReferencesExist, world
      <3> QED
        BY <3>1, <3>2, <3>3 DEF AllocatedOnce
    <2> QED
      BY <1>3, <2>1, <2>2, <2>4, RequestsKept DEF AllocationsInv
  <1>7. CASE ~UNCHANGED allocVars
    <2>1. CASE q.found = {}
      <3> DEFINE row == [id |-> nextAlloc, assignment |-> q.assignment, target |-> q.target,
                         evaluator |-> q.evaluator]
      <3>1. /\ ReferencesExist(row) /\ row.id <= MaxAllocs
            /\ (\E x \in allocs : x.id = row.id) \/ ~TargetTaken(row.assignment, row.target)
            /\ allocs' = {x \in allocs : x.id # row.id} \cup {row}
            /\ nextAlloc' = nextAlloc + 1
        BY <1>7, <2>1 DEF SaveAllocation
      <3>2. row.id = nextAlloc /\ row.target = q.target /\ row \in Allocation
        BY <1>2, <1>5, <3>1, AllocationFields DEF Allocation
      <3> HIDE DEF row
      <3> QED
        BY <1>2, <1>5, <1>6, <3>1, <3>2
    <2>2. ASSUME NEW x \in Allocation, q.found = {x}
          PROVE  AllocationsInv'
      <3> DEFINE row == [x EXCEPT !.evaluator = q.evaluator]
      <3>1. (CHOOSE y \in q.found : TRUE) = x
        BY <2>2
      <3>2. /\ ReferencesExist(row) /\ row.id <= MaxAllocs
            /\ (\E y \in allocs : y.id = row.id) \/ ~TargetTaken(row.assignment, row.target)
            /\ allocs' = {y \in allocs : y.id # row.id} \cup {row}
            /\ nextAlloc' = IF row.id = nextAlloc THEN nextAlloc + 1 ELSE nextAlloc
        BY <1>7, <2>2, <3>1 DEF SaveAllocation
      <3>3. x \in KnownAllocs
        BY <1>1, <2>2, KnownAllocsAre
      <3>4. /\ row \in Allocation /\ row.id = x.id /\ row.assignment = x.assignment
            /\ row.target = x.target
        BY <1>2, AllocationFields DEF Allocation
      <3>5. row.id < nextAlloc /\ row.id \in Nat /\ row.target # NobodyAtAll
        BY <1>5, <3>3, <3>4 DEF AllocationsInv, AllocsKnown, Allocation
      <3> HIDE DEF row
      <3>6. nextAlloc' = nextAlloc
        BY <1>5, <3>2, <3>5
      <3>7. \E y \in KnownAllocs : y.id = row.id /\ y.assignment = row.assignment /\ y.target = row.target
        BY <3>3, <3>4
      <3> QED
        BY <1>5, <1>6, <3>2, <3>4, <3>5, <3>6, <3>7
    <2> QED
      BY <1>2, <2>1, <2>2
  <1> QED
    BY <1>4, <1>7

\* The copies of a set of allocations for an assignment.
Copies(S, a) == {[SetToSeq(S)[i] EXCEPT !.id = nextAlloc + i - 1, !.assignment = a] :
                    i \in 1 .. Cardinality(S)}

\* Copies have new ids, one for each allocation that was loaded.
LEMMA CopiesAre ==
    ASSUME NEW S, S \subseteq Allocation, IsFiniteSet(S), NEW a \in Assignments,
           NEW copies, copies = Copies(S, a),
           nextAlloc \in Nat \ {0}, MaxAllocs \in Nat, nextAlloc + Cardinality(S) <= MaxAllocs + 1
    PROVE  /\ Cardinality(S) \in Nat /\ IsFiniteSet(copies) /\ copies \subseteq Allocation
           /\ \A x \in copies : /\ x.id >= nextAlloc /\ x.id < nextAlloc + Cardinality(S)
                                /\ x.assignment = a
           /\ \A x \in copies : \E y \in S : x.target = y.target
           /\ \A x, y \in copies : x.id = y.id => x = y
           /\ TargetsDiffer(S) => TargetsDiffer(copies)
  <1> DEFINE n == Cardinality(S)
             seq == SetToSeq(S)
             copy(i) == [seq[i] EXCEPT !.id = nextAlloc + i - 1, !.assignment = a]
  <1>1. /\ n \in Nat /\ seq \in [1 .. n -> S]
        /\ \A i, j \in 1 .. n : seq[i] = seq[j] => i = j
    BY SetAsSequence
  <1>2. copies = {copy(i) : i \in 1 .. n}
    BY DEF Copies
  <1> HIDE DEF n, seq
  <1>3. ASSUME NEW i \in 1 .. n
        PROVE  /\ copy(i) \in Allocation /\ copy(i).id = nextAlloc + i - 1
               /\ copy(i).assignment = a /\ copy(i).target = seq[i].target /\ seq[i] \in S
    <2>1. seq[i] \in S /\ seq[i] \in Allocation
      BY <1>1
    <2>2. nextAlloc + i - 1 \in 1 .. MaxAllocs
      BY <1>1 DEF n
    <2> QED
      BY <2>1, <2>2 DEF Allocation
  <1>4. IsFiniteSet(copies)
    <2>1. IsFiniteSet(1 .. n)
      BY <1>1, FS_Interval
    <2> DEFINE f == [i \in 1 .. n |-> copy(i)]
    <2>2. f \in Surjection(1 .. n, copies)
      <3>1. f \in [1 .. n -> copies] /\ \A x \in copies : \E i \in 1 .. n : f[i] = x
        BY <1>2
      <3> HIDE DEF f
      <3> QED
        BY <3>1 DEF Surjection
    <2> QED
      BY <2>1, <2>2, FS_Surjection
  <1> HIDE DEF copy
  <1>5. \A x \in copies : \E i \in 1 .. n : x = copy(i)
    BY <1>2
  <1>6. copies \subseteq Allocation /\ \A x \in copies : \E y \in S : x.target = y.target
    BY <1>3, <1>5
  <1>7. \A x \in copies : x.id >= nextAlloc /\ x.id < nextAlloc + n /\ x.assignment = a
    BY <1>1, <1>3, <1>5
  <1>8. ASSUME NEW x \in copies, NEW y \in copies, x.id = y.id
        PROVE  x = y
    <2>1. PICK i \in 1 .. n, j \in 1 .. n : x = copy(i) /\ y = copy(j)
      BY <1>5
    <2>2. i = j
      BY <1>1, <1>3, <1>8, <2>1
    <2> QED
      BY <2>1, <2>2
  <1>9. ASSUME TargetsDiffer(S), NEW x \in copies, NEW y \in copies, NEW column \in {"group", "user"},
               x.target[column] = y.target[column], x.target[column] # NoTarget
        PROVE  x = y
    <2>1. PICK i \in 1 .. n, j \in 1 .. n : x = copy(i) /\ y = copy(j)
      BY <1>5
    <2>2. seq[i] = seq[j]
      BY <1>3, <1>9, <2>1 DEF TargetsDiffer
    <2>3. i = j
      BY <1>1, <2>2
    <2> QED
      BY <2>1, <2>3
  <1> QED
    BY <1>1, <1>4, <1>6, <1>7, <1>8, <1>9 DEF TargetsDiffer, n

\* All copies or none.
LEMMA SaveCopiesStep ==
    ASSUME AllocationsInv, NEW r \in Requests, SaveCopies(r)
    PROVE  AllocationsInv'
  <1> DEFINE q == req[r]
             copies == Copies(q.found, q.assignment)
  <1>1. /\ At(r, "copy", "save") /\ UNCHANGED <<world, memberOf>>
        /\ req' = [req EXCEPT ![r] = Idle]
    BY DEF SaveCopies, Finish, Advance
  <1>2. /\ q \in AllocationRequest /\ q.found \subseteq Allocation /\ q.assignment \in Assignments
        /\ IsFiniteSet(q.found) /\ TargetsDiffer(q.found)
    BY <1>1, BusySlot, AllocationFields DEF AllocationsInv, AllocationRequestsConsistent
  <1>3. Slots
    BY <1>1, OneSlot
  <1>4. CASE UNCHANGED allocVars
    BY <1>1, <1>4, QuietAllocation
  <1>5. CASE ~UNCHANGED allocVars
    <2> DEFINE n == Cardinality(q.found)
    <2>1. /\ \A x \in copies : ReferencesExist(x) /\ ~TargetTaken(x.assignment, x.target)
          /\ nextAlloc + n <= MaxAllocs + 1
          /\ allocs' = allocs \cup copies /\ nextAlloc' = nextAlloc + n
      BY <1>5 DEF SaveCopies, Copies
    <2>2. nextAlloc \in Nat \ {0} /\ MaxAllocs \in Nat
      BY EvaluatorsAssumption DEF AllocationsInv, AllocationsTypeOK
    <2>3. q.found \subseteq KnownAllocs
      BY <1>1, KnownAllocsAre
    <2> HIDE DEF q, copies
    <2>4. copies = Copies(q.found, q.assignment)
      BY DEF copies
    <2>5. /\ n \in Nat /\ IsFiniteSet(copies) /\ copies \subseteq Allocation
          /\ \A x \in copies : x.id >= nextAlloc /\ x.id < nextAlloc + n /\ x.assignment = q.assignment
          /\ \A x \in copies : \E y \in q.found : x.target = y.target
          /\ \A x, y \in copies : x.id = y.id => x = y
          /\ TargetsDiffer(copies)
      BY <1>2, <2>1, <2>2, <2>4, CopiesAre
    <2> HIDE DEF n
    <2>6. /\ \A x \in copies : x.id \in Nat /\ x.target # NobodyAtAll
          /\ \A x \in allocs : x.id \in Nat /\ x.id < nextAlloc
      BY <2>2, <2>3, <2>5 DEF AllocationsInv, AllocsKnown, AllocationsTypeOK, Allocation, KnownAllocs
    <2>7. AllocationsTypeOK'
      <3>1. IsFiniteSet(allocs')
        BY <2>1, <2>5, FS_Union DEF AllocationsInv, AllocationsTypeOK
      <3>2. nextAlloc' \in 1 .. MaxAllocs + 1
        BY <2>1, <2>2, <2>5
      <3> QED
        BY <1>1, <1>3, <2>1, <2>5, <3>1, <3>2, RequestsKept DEF AllocationsInv, AllocationsTypeOK, Slots, world
    <2>8. AllocsKnown'
      <3>1. /\ \A x \in allocs' : x \in KnownAllocs \/ x \in copies
            /\ nextAlloc' \in Nat /\ nextAlloc' >= nextAlloc
            /\ \A x \in copies : /\ x.id \in Nat /\ x.id >= nextAlloc /\ x.id < nextAlloc'
                                 /\ x.target # NobodyAtAll
        BY <2>1, <2>2, <2>5, <2>6 DEF KnownAllocs
      <3> QED
        BY <1>3, <2>5, <3>1, AllocsStayKnown
    <2>9. AllocatedOnce'
      <3>1. \A x, y \in allocs' : x.id = y.id => x = y
        BY <2>1, <2>2, <2>5, <2>6 DEF AllocationsInv, AllocatedOnce
      <3>2. ASSUME NEW x \in allocs', NEW y \in allocs', NEW column \in {"group", "user"},
                   x.assignment = y.assignment, x.target[column] = y.target[column],
                   x.target[column] # NoTarget
            PROVE  x = y
        <4>1. CASE x \in allocs /\ y \in allocs
          BY <3>2, <4>1 DEF AllocationsInv, AllocatedOnce
        <4>2. CASE x \in copies /\ y \in copies
          BY <2>5, <3>2, <4>2 DEF TargetsDiffer
        <4>3. CASE \/ x \in allocs /\ y \in copies
                   \/ x \in copies /\ y \in allocs
          BY <2>1, <3>2, <4>3 DEF TargetTaken, Taken
        <4> QED
          BY <2>1, <4>1, <4>2, <4>3
      <3>3. \A x \in allocs' : ReferencesExist(x)' /\ x.target # NobodyAtAll
        BY <1>1, <2>1, <2>6 DEF AllocationsInv, AllocatedOnce, ReferencesExist, world
      <3> QED
        BY <3>1, <3>2, <3>3 DEF AllocatedOnce
    <2> QED
      BY <1>3, <2>7, <2>8, <2>9, RequestsKept DEF AllocationsInv
  <1> QED
    BY <1>4, <1>5

-----------------------------------------------------------------------------
(* Theorems about allocations *)

\* The invariant holds before the first step.
LEMMA InitAllocationsInv ==
    ASSUME Init
    PROVE  AllocationsInv
  <1>1. AllocationsTypeOK
    <2>1. IsFiniteSet(allocs)
      BY FS_EmptySet DEF Init
    <2>2. nextAlloc \in 1 .. MaxAllocs + 1
      BY EvaluatorsAssumption DEF Init
    <2>3. phase \in [Assignments -> {"open", "evaluated", "deleted"}]
      BY AssessmentsAssumption DEF Init, InitAssessments
    <2> QED
      BY <2>1, <2>2, <2>3 DEF Init, InitAssessments, AllocationsTypeOK
  <1>2. \A r \in Requests : \A op, pc : pc # "idle" => ~ At(r, op, pc)
    BY DEF Init, InitAssessments, At, Idle
  <1>3. AllocsKnown
    BY <1>2, KnownAllocsAre DEF Init, AllocsKnown
  <1> QED
    BY <1>1, <1>2, <1>3 DEF Init, AllocationsInv, AllocatedOnce, AllocationRequestsConsistent

\* The invariant survives every step.
LEMMA NextAllocationsInv ==
    ASSUME AllocationsInv, [Next]_vars
    PROVE  AllocationsInv'
  <1>1. CASE UNCHANGED vars
    BY <1>1, NoSlot, KeepingStep
       DEF vars, assessmentVars, world, allocVars, AllocationsInv, AllocationsTypeOK
  <1>2. ASSUME NEW r \in Requests, AllocationStep(r)
        PROVE  AllocationsInv'
    BY <1>2, StartAllocation, LoadAllocationsStep, SaveAllocationStep, SaveCopiesStep
       DEF AllocationStep
  <1> QED
    BY <1>1, <1>2, AloneKeepsAllocations, RemoveAllocationsStep, MemberStep, DeletionStep DEF Next

\* The allocations and what is known about them are consistent at all times.
THEOREM Consistency == Spec => []AllocationsInv
  BY InitAllocationsInv, NextAllocationsInv, PTL DEF Spec

\* However allocations are made, copied and removed at the same time, a group or a user has
\* one evaluator at most for an assignment, every allocation is for somebody, and nobody
\* who is gone is in one.
THEOREM SingleAllocation == Spec => []AllocatedOnce
  <1>1. AllocationsInv => AllocatedOnce
    BY DEF AllocationsInv
  <1> QED
    BY <1>1, Consistency, PTL
-----------------------------------------------------------------------------
(* The lists of evaluators: lemmas about requests and rows *)

\* A known assessment is in the table or was loaded by an update.
LEMMA KnownAssessmentsAre ==
    ASSUME NEW x
    PROVE  x \in KnownAssessments <=>
              \/ x \in assessments
              \/ \E s \in Requests : At(s, "update", "save") /\ x \in req[s].entity
  BY DEF KnownAssessments

\* What a request about assessments that is put into a slot carries and knows.
Carries(q) ==
    /\ AssessmentRequest(q)
    /\ q # Idle /\ q.op = "update" /\ q.pc = "save" => q.entity \subseteq KnownAssessments

\* The slots after a step.
AssessmentSlots == \A s \in Requests : req'[s] = req[s] \/ Carries(req'[s])

\* A free slot carries nothing.
LEMMA IdleCarries == Carries(Idle)
  BY DEF Carries, AssessmentRequest

\* A step of one request.
LEMMA OneAssessmentSlot ==
    ASSUME AllocationsInv, NEW r \in Requests, NEW q, Carries(q), req' = [req EXCEPT ![r] = q]
    PROVE  AssessmentSlots
  BY DEF AssessmentSlots, AllocationsInv, AllocationsTypeOK

\* A row of an assessment that is what a known one was, apart from a group that is gone.
Follows(x, y) ==
    /\ x.id = y.id /\ x.assignment = y.assignment
    /\ x.group = y.group \/ (x.group \notin groups' /\ y.group \notin groups')

\* New assessments have new ids, and what is known keeps its assignment and its group.
LEMMA AssessmentsStayKnown ==
    ASSUME ListsInv, AssessmentSlots, NEW new,
           nextIds'.assessment \in Nat, nextIds'.assessment >= nextIds.assessment,
           groups' \subseteq groups,
           \A x, y \in assessments' : x.id = y.id => x = y,
           \A x \in assessments' :
              \/ {"id", "assignment", "group"} \subseteq DOMAIN x /\ \E y \in KnownAssessments : Follows(x, y)
              \/ x \in new,
           \A x \in new : /\ {"id", "assignment", "group"} \subseteq DOMAIN x
                          /\ x.id = nextIds.assessment /\ nextIds'.assessment = nextIds.assessment + 1,
           \A x, y \in new : x = y
    PROVE  AssessmentsKeepGroups'
  <1>1. nextIds.assessment \in Nat
    BY DEF ListsInv
  <1>2. \A x \in KnownAssessments :
           /\ {"id", "assignment", "group"} \subseteq DOMAIN x
           /\ x.id \in Nat /\ x.id < nextIds.assessment
    BY DEF ListsInv, AssessmentsKeepGroups
  <1>3. \A x, y \in KnownAssessments : x.id = y.id =>
           x.assignment = y.assignment /\ (x.group \in groups => y.group = x.group)
    BY DEF ListsInv, AssessmentsKeepGroups
  <1>4. ASSUME NEW x \in KnownAssessments'
        PROVE  \/ /\ {"id", "assignment", "group"} \subseteq DOMAIN x
                  /\ \E y \in KnownAssessments : Follows(x, y)
               \/ x \in new
    <2>1. CASE x \in assessments'
      BY <2>1
    <2>2. ASSUME NEW s \in Requests, At(s, "update", "save")', x \in req'[s].entity
          PROVE  x \in KnownAssessments
      <3>1. CASE req'[s] = req[s]
        BY <2>2, <3>1, KnownAssessmentsAre DEF At
      <3>2. CASE Carries(req'[s])
        BY <2>2, <3>2 DEF Carries, At, Idle
      <3> QED
        BY <3>1, <3>2 DEF AssessmentSlots
    <2>3. x \in assessments' \/ \E s \in Requests : At(s, "update", "save")' /\ x \in req'[s].entity
      BY DEF KnownAssessments
    <2>4. x \in KnownAssessments =>
             {"id", "assignment", "group"} \subseteq DOMAIN x /\ \E y \in KnownAssessments : Follows(x, y)
      BY <1>2 DEF Follows
    <2> QED
      BY <2>1, <2>2, <2>3, <2>4
  <1>5. \A x \in KnownAssessments' :
           /\ {"id", "assignment", "group"} \subseteq DOMAIN x
           /\ x.id \in Nat /\ x.id < nextIds'.assessment
    BY <1>1, <1>2, <1>4 DEF Follows
  <1>6. ASSUME NEW x \in KnownAssessments', NEW y \in KnownAssessments', x.id = y.id
        PROVE  x.assignment = y.assignment /\ (x.group \in groups' => y.group = x.group)
    <2>1. CASE x \in new \/ y \in new
      <3>1. x \in new /\ y \in new
        BY <1>1, <1>2, <1>4, <1>6, <2>1 DEF Follows
      <3> QED
        BY <3>1
    <2>2. CASE x \notin new /\ y \notin new
      <3>1. PICK v \in KnownAssessments, w \in KnownAssessments : Follows(x, v) /\ Follows(y, w)
        BY <1>4, <2>2
      <3>2. v.id = w.id
        BY <1>6, <3>1 DEF Follows
      <3> QED
        BY <1>3, <3>1, <3>2 DEF Follows
    <2> QED
      BY <2>1, <2>2
  <1> QED
    BY <1>5, <1>6 DEF AssessmentsKeepGroups

\* Without a new assessment.
LEMMA NothingNew ==
    ASSUME ListsInv, AssessmentSlots,
           nextIds'.assessment = nextIds.assessment, groups' \subseteq groups,
           \A x, y \in assessments' : x.id = y.id => x = y,
           \A x \in assessments' :
              {"id", "assignment", "group"} \subseteq DOMAIN x /\ \E y \in KnownAssessments : Follows(x, y)
    PROVE  AssessmentsKeepGroups'
  <1>0. PICK new : new = {}
    OBVIOUS
  <1>1. nextIds'.assessment \in Nat /\ nextIds'.assessment >= nextIds.assessment
    BY DEF ListsInv
  <1>2. /\ \A x \in new : /\ {"id", "assignment", "group"} \subseteq DOMAIN x
                          /\ x.id = nextIds.assessment /\ nextIds'.assessment = nextIds.assessment + 1
        /\ \A x, y \in new : x = y
    BY <1>0
  <1> QED
    BY <1>1, <1>2, AssessmentsStayKnown

\* Requests keep carrying what they need.
LEMMA RequestsCarry ==
    ASSUME ListsInv, AssessmentSlots
    PROVE  \A r \in Requests : AssessmentRequest(req'[r])
  BY DEF ListsInv, AssessmentSlots, Carries

\* Nobody gets points, or loses an assessment that gave points.
LEMMA CreditsStay ==
    ASSUME ListsInv, relations' \subseteq relations,
           \A z \in relations' : z.user \in users',
           \A z \in relations', x \in assessments :
              x.id = z.assessment =>
                 \E y \in assessments' : y.id = x.id /\ y.assignment = x.assignment
    PROVE  RelationsCreditOnce'
  <1>1. ASSUME NEW z \in relations'
        PROVE  /\ z.user \in Students \cap users'
               /\ \E y \in assessments' : y.id = z.assessment /\ y.assignment = z.assignment
    <2>1. z.user \in Students /\ \E x \in assessments : x.id = z.assessment /\ x.assignment = z.assignment
      BY <1>1 DEF ListsInv, RelationsCreditOnce
    <2> QED
      BY <1>1, <2>1
  <1> QED
    BY <1>1 DEF ListsInv, RelationsCreditOnce

-----------------------------------------------------------------------------
(* The lists of evaluators: steps that write no assessment *)

\* Assessments of groups that are there stay assessments of their groups.
RowsKept ==
    \A x \in assessments : x.group \in groups =>
       \E y \in assessments' : y.assignment = x.assignment /\ y.group = x.group

\* Whoever had points from an assessment that goes loses them with it.
CreditsDropped ==
    /\ relations' \subseteq relations
    /\ \A x \in assessments \ assessments' : \A z \in relations' : z.assessment # x.id

\* What every step does to the lists.
ListsStep ==
    /\ ListsInv'
    /\ groups' = groups =>
          /\ assessments' \subseteq assessments \/ \E r \in Requests : SaveCreate(r) \/ SaveUpdate(r)
          /\ RowsKept \/ CreditsDropped

\* A step that writes neither assessments nor relations.
LEMMA QuietLists ==
    ASSUME ListsInv, AssessmentSlots, UNCHANGED <<users, groups, assessments, relations>>,
           "assessment" \in DOMAIN nextIds', nextIds'.assessment = nextIds.assessment
    PROVE  ListsStep
  <1>1. AssessmentsKeepGroups'
    <2>1. \A x, y \in assessments' : x.id = y.id => x = y
      BY DEF ListsInv, AssessmentsKeepGroups
    <2>2. \A x \in assessments' :
             {"id", "assignment", "group"} \subseteq DOMAIN x /\ \E y \in KnownAssessments : Follows(x, y)
      BY KnownAssessmentsAre DEF ListsInv, AssessmentsKeepGroups, Follows
    <2> QED
      BY <2>1, <2>2, NothingNew
  <1>2. RelationsCreditOnce'
    BY DEF ListsInv, RelationsCreditOnce
  <1>3. ListsInv'
    BY <1>1, <1>2, RequestsCarry DEF ListsInv
  <1> QED
    BY <1>3 DEF ListsStep, CreditsDropped

\* Requests about assessments begin with what the client sent.
LEMMA StartLists ==
    ASSUME AllocationsInv, ListsInv, NEW r \in Requests, StartAssessment(r)
    PROVE  ListsStep
  <1>1. ASSUME NEW q, Carries(q), Begin(r, q)
        PROVE  ListsStep
    BY <1>1, OneAssessmentSlot, QuietLists DEF Begin, world, rows, ListsInv
  <1>2. ASSUME NEW a \in Assignments, NEW target \in Students \cup GroupIds, NEW p \in Points,
               NEW by \in Staff, NEW keys \in SUBSET Keys, StartCreate(r, a, target, p, keys, by)
        PROVE  ListsStep
    <2> DEFINE q == [op |-> "create", pc |-> "members", assignment |-> a, target |-> target,
                     points |-> p, keys |-> keys, by |-> by, reviewed |-> {}]
    <2>1. Carries(q) /\ Begin(r, q)
      BY <1>2 DEF StartCreate, Carries, AssessmentRequest
    <2> HIDE DEF q
    <2> QED
      BY <1>1, <2>1
  <1>3. ASSUME NEW id \in Ids, NEW key \in Keys, StartPartial(r, id, key)
        PROVE  ListsStep
    <2> DEFINE q == [op |-> "partial", pc |-> "find", id |-> id, key |-> key, found |-> {}]
    <2>1. Carries(q) /\ Begin(r, q)
      BY <1>3 DEF StartPartial, Carries, AssessmentRequest
    <2> HIDE DEF q
    <2> QED
      BY <1>1, <2>1
  <1>4. ASSUME NEW id \in Ids, NEW p \in Points \cup {Keep}, NEW by \in Staff,
               NEW keys \in (SUBSET Keys) \cup {Keep}, StartUpdate(r, id, p, keys, by)
        PROVE  ListsStep
    <2> DEFINE q == [op |-> "update", pc |-> "original", id |-> id, points |-> p, keys |-> keys,
                     by |-> by, entity |-> {}, loaded |-> {}, old |-> Keep, new |-> Keep]
    <2>1. Carries(q) /\ Begin(r, q)
      BY <1>4 DEF StartUpdate, Carries, AssessmentRequest
    <2> HIDE DEF q
    <2> QED
      BY <1>1, <2>1
  <1> QED
    BY <1>2, <1>3, <1>4 DEF StartAssessment

\* Steps of a request that read, or write no assessment.
LEMMA ReadLists ==
    ASSUME AllocationsInv, ListsInv, NEW r \in Requests,
           \/ FindMembers(r) \/ LoadOriginal(r) \/ LoadEntity(r) \/ Reread(r)
           \/ RecordChange(r) \/ FindPartial(r) \/ SavePartial(r)
    PROVE  ListsStep
  <1> DEFINE q == req[r]
  <1> USE DEF Reject, GoOn, Finish
  <1>1. ASSUME NEW next, Carries(next), Advance(r, next),
               UNCHANGED <<users, groups, assessments, relations>>,
               "assessment" \in DOMAIN nextIds', nextIds'.assessment = nextIds.assessment
        PROVE  ListsStep
    BY <1>1, OneAssessmentSlot, QuietLists DEF Advance
  <1>2. ASSUME NEW next, Carries(next), Advance(r, next), UNCHANGED <<world, rows>>
        PROVE  ListsStep
    BY <1>1, <1>2 DEF world, rows, ListsInv
  <1>3. AssessmentRequest(q)
    BY DEF ListsInv
  <1>4. ASSUME NEW op, NEW pc, At(r, op, pc), pc # "idle"
        PROVE  q # Idle /\ q.op = op /\ q.pc = pc /\ {"op", "pc"} \subseteq DOMAIN q
    BY <1>4, BusySlot DEF At, AllocationsInv
  <1>5. CASE FindMembers(r)
    <2> DEFINE reviewed == Reviewed(q.assignment, q.target)
               next == [q EXCEPT !.pc = "save", !.reviewed = reviewed]
    <2>1. /\ At(r, "create", "members") /\ UNCHANGED <<world, rows>>
          /\ Advance(r, next) \/ Advance(r, Idle)
      BY <1>5 DEF FindMembers
    <2>2. q # Idle /\ q.op = "create" /\ {"op", "pc"} \subseteq DOMAIN q
      BY <1>4, <2>1
    <2>3. reviewed \subseteq Students
      BY <1>3, <2>2 DEF Reviewed, AssessmentRequest
    <2> HIDE DEF reviewed
    <2>4. Carries(next)
      BY <1>3, <2>2, <2>3 DEF Carries, AssessmentRequest
    <2> HIDE DEF next
    <2> QED
      BY <1>2, <2>1, <2>4, IdleCarries
  <1>6. CASE LoadOriginal(r)
    <2> DEFINE next == [q EXCEPT !.pc = "load", !.old = Row(q.id).points]
    <2>1. /\ At(r, "update", "original") /\ UNCHANGED <<world, rows>>
          /\ Advance(r, next) \/ Advance(r, Idle)
      BY <1>6 DEF LoadOriginal
    <2>2. q # Idle /\ q.op = "update" /\ {"op", "pc"} \subseteq DOMAIN q
      BY <1>4, <2>1
    <2>3. Carries(next)
      BY <1>3, <2>2 DEF Carries, AssessmentRequest
    <2> HIDE DEF next
    <2> QED
      BY <1>2, <2>1, <2>3, IdleCarries
  <1>7. CASE LoadEntity(r)
    <2> DEFINE row == Row(q.id)
               loaded == PartialsOf(q.id)
               next == [q EXCEPT !.pc = "save", !.entity = {row}, !.loaded = loaded]
    <2>1. /\ At(r, "update", "load") /\ UNCHANGED <<world, rows>>
          /\ (Exists(q.id) /\ Advance(r, next)) \/ Advance(r, Idle)
      BY <1>7 DEF LoadEntity
    <2>2. q # Idle /\ q.op = "update" /\ {"op", "pc"} \subseteq DOMAIN q
      BY <1>4, <2>1
    <2>3. Exists(q.id) => row \in assessments /\ row.id = q.id
      BY DEF Exists, Row
    <2> HIDE DEF row, loaded
    <2>4. Exists(q.id) => Carries(next)
      <3>1. /\ {"id", "entity"} \subseteq DOMAIN q /\ next.op = "update" /\ next.entity = {row}
            /\ next.id = q.id /\ DOMAIN next = DOMAIN q
        BY <1>3, <2>2 DEF AssessmentRequest
      <3> HIDE DEF next
      <3> QED
        BY <2>3, <3>1, KnownAssessmentsAre DEF Carries, AssessmentRequest
    <2> HIDE DEF next
    <2> QED
      BY <1>2, <2>1, <2>4, IdleCarries
  <1>8. CASE Reread(r)
    <2> DEFINE next == [q EXCEPT !.pc = "record", !.new = Row(q.id).points]
    <2>1. /\ At(r, "update", "reread") /\ UNCHANGED <<world, rows>>
          /\ Advance(r, next) \/ Advance(r, Idle)
      BY <1>8 DEF Reread
    <2>2. q # Idle /\ q.op = "update" /\ {"op", "pc"} \subseteq DOMAIN q
      BY <1>4, <2>1
    <2>3. Carries(next)
      BY <1>3, <2>2 DEF Carries, AssessmentRequest
    <2> HIDE DEF next
    <2> QED
      BY <1>2, <2>1, <2>3, IdleCarries
  <1>9. CASE RecordChange(r)
    BY <1>1, <1>9, IdleCarries DEF RecordChange, world, ListsInv
  <1>10. CASE FindPartial(r)
    <2> DEFINE found == {p \in PartialsOf(q.id) : p.key = q.key}
               next == [q EXCEPT !.pc = "save", !.found = found]
    <2>1. At(r, "partial", "find") /\ UNCHANGED <<world, rows>> /\ Advance(r, next)
      BY <1>10 DEF FindPartial
    <2>2. q.op = "partial" /\ {"op", "pc"} \subseteq DOMAIN q
      BY <1>4, <2>1
    <2> HIDE DEF found
    <2>3. Carries(next)
      BY <2>2 DEF Carries, AssessmentRequest
    <2> HIDE DEF next
    <2> QED
      BY <1>2, <2>1, <2>3
  <1>11. CASE SavePartial(r)
    <2>1. /\ Advance(r, Idle) /\ UNCHANGED <<users, groups, assessments, relations>>
          /\ nextIds' = nextIds \/ \E n : nextIds' = [nextIds EXCEPT !.partial = n]
      BY <1>11 DEF SavePartial, world, rows
    <2>2. "assessment" \in DOMAIN nextIds' /\ nextIds'.assessment = nextIds.assessment
      BY <2>1 DEF ListsInv
    <2> QED
      BY <1>1, <2>1, <2>2, IdleCarries
  <1> QED
    BY <1>5, <1>6, <1>7, <1>8, <1>9, <1>10, <1>11

-----------------------------------------------------------------------------
(* The lists of evaluators: steps that write assessments *)

\* createAssessment gives the points to users who had none for the assignment.
LEMMA CreateLists ==
    ASSUME AllocationsInv, ListsInv, NEW r \in Requests, SaveCreate(r)
    PROVE  ListsStep
  <1> DEFINE q == req[r]
             id == nextIds.assessment
             row == [id |-> id, assignment |-> q.assignment, points |-> q.points, creator |-> q.by,
                     group |-> IF q.target \in GroupIds THEN q.target ELSE NoGroup,
                     updatedBy |-> NoGroup]
             credits == {[assessment |-> id, assignment |-> q.assignment, user |-> u] : u \in q.reviewed}
  <1>1. At(r, "create", "save") /\ Advance(r, Idle) /\ UNCHANGED world
    BY DEF SaveCreate, Reject, Finish
  <1>2. AssessmentSlots
    BY <1>1, IdleCarries, OneAssessmentSlot DEF Advance
  <1>3. CASE UNCHANGED rows
    BY <1>1, <1>2, <1>3, QuietLists DEF world, rows, ListsInv
  <1>4. CASE ~UNCHANGED rows
    <2>1. /\ q.reviewed \cup {q.by} \subseteq users /\ q.reviewed \cap Assessed(q.assignment) = {}
          /\ assessments' = assessments \cup {row} /\ relations' = relations \cup credits
          /\ "assessment" \in DOMAIN nextIds' /\ nextIds'.assessment = id + 1
      BY <1>4 DEF SaveCreate, AlreadyAssessed, Reject
    <2>2. q.reviewed \subseteq Students
      <3>1. q # Idle /\ q.op = "create"
        BY <1>1, BusySlot DEF At, AllocationsInv
      <3> QED
        BY <3>1 DEF ListsInv, AssessmentRequest
    <2>3. /\ {"id", "assignment", "group"} \subseteq DOMAIN row
          /\ row.id = id /\ row.assignment = q.assignment
      OBVIOUS
    <2>4. /\ \A z \in credits : /\ z.assessment = id /\ z.assignment = q.assignment
                                /\ z.user \in q.reviewed
          /\ \A y, z \in credits : y.user = z.user => y = z
      OBVIOUS
    <2> HIDE DEF row, credits
    <2>5. /\ id \in Nat
          /\ \A x \in assessments : /\ {"id", "assignment", "group"} \subseteq DOMAIN x
                                    /\ x.id \in Nat /\ x.id < id
      BY KnownAssessmentsAre DEF ListsInv, AssessmentsKeepGroups
    <2>6. AssessmentsKeepGroups'
      <3> DEFINE new == {row}
      <3>1. /\ nextIds'.assessment \in Nat /\ nextIds'.assessment >= nextIds.assessment
            /\ \A x, y \in assessments' : x.id = y.id => x = y
        BY <2>1, <2>3, <2>5 DEF ListsInv, AssessmentsKeepGroups
      <3>2. \A x \in assessments' :
              \/ /\ {"id", "assignment", "group"} \subseteq DOMAIN x
                 /\ \E y \in KnownAssessments : Follows(x, y)
              \/ x \in new
        BY <2>1, <2>5, KnownAssessmentsAre DEF Follows
      <3>3. /\ \A x \in new : /\ {"id", "assignment", "group"} \subseteq DOMAIN x
                              /\ x.id = nextIds.assessment /\ nextIds'.assessment = nextIds.assessment + 1
            /\ \A x, y \in new : x = y
        BY <2>1, <2>3
      <3>4. groups' \subseteq groups
        BY <1>1 DEF world
      <3> HIDE DEF new, id
      <3> QED
        BY <1>2, <3>1, <3>2, <3>3, <3>4, AssessmentsStayKnown
    <2>7. RelationsCreditOnce'
      <3>1. \A x, y \in relations' : x.assignment = y.assignment /\ x.user = y.user => x = y
        <4>1. ASSUME NEW x \in relations, NEW y \in credits, x.assignment = y.assignment,
                     x.user = y.user
              PROVE  FALSE
          BY <2>1, <2>4, <4>1 DEF Assessed
        <4> QED
          BY <2>1, <2>4, <4>1 DEF ListsInv, RelationsCreditOnce
      <3>2. \A x \in relations' : x.user \in Students \cap users'
        BY <1>1, <2>1, <2>2, <2>4 DEF ListsInv, RelationsCreditOnce, world
      <3>3. \A x \in relations' : \E y \in assessments' : y.id = x.assessment /\ y.assignment = x.assignment
        BY <2>1, <2>3, <2>4 DEF ListsInv, RelationsCreditOnce
      <3> QED
        BY <3>1, <3>2, <3>3 DEF RelationsCreditOnce
    <2>8. nextIds'.assessment \in Nat
      BY <2>1, <2>5
    <2>9. ListsInv'
      BY <1>2, <2>1, <2>6, <2>7, <2>8, RequestsCarry DEF ListsInv
    <2>10. RowsKept
      BY <2>1 DEF RowsKept
    <2> QED
      BY <2>9, <2>10 DEF ListsStep
  <1> QED
    BY <1>3, <1>4

\* updateAssessment writes a row of the group that the assessment has.
LEMMA UpdateLists ==
    ASSUME AllocationsInv, ListsInv, NEW r \in Requests, SaveUpdate(r)
    PROVE  ListsStep
  <1> DEFINE q == req[r]
             row == CHOOSE x \in q.entity : TRUE
             updated == Updated(q, row)
  <1>1. /\ At(r, "update", "save") /\ UNCHANGED world /\ relations' = relations
        /\ Advance(r, [q EXCEPT !.pc = "reread"]) \/ Advance(r, Idle)
    BY DEF SaveUpdate, Reject, Finish, rows
  <1>2. /\ q # Idle /\ q.op = "update" /\ q.pc = "save" /\ {"op", "pc"} \subseteq DOMAIN q
        /\ AssessmentRequest(q)
    BY <1>1, BusySlot DEF At, AllocationsInv, ListsInv
  <1>3. AssessmentSlots
    <2>1. Carries([q EXCEPT !.pc = "reread"])
      BY <1>2 DEF Carries, AssessmentRequest
    <2> QED
      BY <1>1, <2>1, IdleCarries, OneAssessmentSlot DEF Advance
  <1>4. CASE UNCHANGED rows
    BY <1>1, <1>3, <1>4, QuietLists DEF world, rows, ListsInv
  <1>5. CASE ~UNCHANGED rows
    <2>1. /\ assessments' = {x \in assessments : x.id # q.id} \cup {updated}
          /\ \E n : nextIds' = [nextIds EXCEPT !.partial = n]
      BY <1>5 DEF SaveUpdate, Reject
    <2>2. row \in q.entity /\ row.id = q.id
      BY <1>2 DEF AssessmentRequest
    <2>3. row \in KnownAssessments
      BY <1>1, <2>2, KnownAssessmentsAre
    <2> HIDE DEF row
    <2>4. /\ \A x \in KnownAssessments : /\ {"id", "assignment", "group"} \subseteq DOMAIN x
                                         /\ x.id \in Nat /\ x.id < nextIds.assessment
          /\ \A x, y \in KnownAssessments : x.id = y.id =>
                x.assignment = y.assignment /\ (x.group \in groups => y.group = x.group)
          /\ \A x, y \in assessments : x.id = y.id => x = y
      BY DEF ListsInv, AssessmentsKeepGroups
    <2>5. /\ {"id", "assignment", "group"} \subseteq DOMAIN updated
          /\ updated.id = q.id /\ updated.assignment = row.assignment /\ updated.group = row.group
      BY <2>2, <2>3, <2>4 DEF Updated
    <2> HIDE DEF updated, q
    <2>6. "assessment" \in DOMAIN nextIds' /\ nextIds'.assessment = nextIds.assessment
          /\ nextIds.assessment \in Nat
      BY <2>1 DEF ListsInv
    <2>7. AssessmentsKeepGroups'
      <3>1. \A x, y \in assessments' : x.id = y.id => x = y
        BY <2>1, <2>4, <2>5, <2>6
      <3>2. \A x \in assessments' : /\ {"id", "assignment", "group"} \subseteq DOMAIN x
                                    /\ \E y \in KnownAssessments : Follows(x, y)
        BY <2>1, <2>2, <2>3, <2>4, <2>5, KnownAssessmentsAre DEF Follows
      <3>3. groups' \subseteq groups
        BY <1>1 DEF world
      <3> QED
        BY <1>3, <2>6, <3>1, <3>2, <3>3, NothingNew
    <2>8. ASSUME NEW x \in assessments
          PROVE  \E y \in assessments' : /\ y.id = x.id /\ y.assignment = x.assignment
                                         /\ x.group \in groups => y.group = x.group
      <3>1. CASE x.id = q.id
        BY <2>1, <2>2, <2>3, <2>4, <2>5, <3>1, KnownAssessmentsAre
      <3>2. CASE x.id # q.id
        BY <2>1, <3>2
      <3> QED
        BY <3>1, <3>2
    <2>9. RelationsCreditOnce'
      <3>1. \A z \in relations' : z.user \in users'
        BY <1>1 DEF ListsInv, RelationsCreditOnce, world
      <3> QED
        BY <1>1, <2>8, <3>1, CreditsStay
    <2>10. ListsInv'
      BY <1>3, <2>6, <2>7, <2>9, RequestsCarry DEF ListsInv
    <2>11. RowsKept
      BY <2>8 DEF RowsKept
    <2> QED
      BY <2>10, <2>11 DEF ListsStep
  <1> QED
    BY <1>4, <1>5

\* Assessments are deleted, and the relations of their users with them.
LEMMA DropLists ==
    ASSUME ListsInv, AssessmentSlots, NEW gone, gone \subseteq assessments, DropAssessments(gone),
           UNCHANGED <<users, groups, nextIds>>
    PROVE  ListsStep
  <1>1. assessments' = assessments \ gone
    BY DEF DropAssessments
  <1>2. \A z \in relations' : z \in relations /\ \A x \in gone : z.assessment # x.id
    BY DEF DropAssessments
  <1>3. AssessmentsKeepGroups'
    <2>1. \A x, y \in assessments' : x.id = y.id => x = y
      BY <1>1 DEF ListsInv, AssessmentsKeepGroups
    <2>2. \A x \in assessments' :
             {"id", "assignment", "group"} \subseteq DOMAIN x /\ \E y \in KnownAssessments : Follows(x, y)
      BY <1>1, KnownAssessmentsAre DEF ListsInv, AssessmentsKeepGroups, Follows
    <2> QED
      BY <2>1, <2>2, NothingNew
  <1>4. RelationsCreditOnce'
    <2>1. \A z \in relations' : z.user \in users'
      BY <1>2 DEF ListsInv, RelationsCreditOnce
    <2>2. \A z \in relations', x \in assessments : x.id = z.assessment => x \in assessments'
      BY <1>1, <1>2
    <2> QED
      BY <1>2, <2>1, <2>2, CreditsStay
  <1>5. CreditsDropped
    BY <1>1, <1>2 DEF CreditsDropped
  <1> QED
    BY <1>1, <1>3, <1>4, <1>5, RequestsCarry DEF ListsInv, ListsStep

\* A group is deleted: its assessments forget it.
LEMMA ForgetLists ==
    ASSUME ListsInv, groups \subseteq GroupIds, NEW g \in GroupIds, DeleteGroup(g)
    PROVE  ListsStep
  <1> DEFINE forget(x) == [x EXCEPT !.group = IF @ = g THEN NoGroup ELSE @]
  <1>1. /\ groups' = groups \ {g} /\ g \in groups /\ UNCHANGED <<users, relations, nextIds, req>>
        /\ assessments' = {forget(x) : x \in assessments}
    BY DEF DeleteGroup
  <1>2. AssessmentSlots
    BY <1>1 DEF AssessmentSlots
  <1>3. ASSUME NEW x \in assessments
        PROVE  /\ {"id", "assignment", "group"} \subseteq DOMAIN forget(x)
               /\ Follows(forget(x), x) /\ x \in KnownAssessments
    <2>1. {"id", "assignment", "group"} \subseteq DOMAIN x /\ x \in KnownAssessments
      BY KnownAssessmentsAre DEF ListsInv, AssessmentsKeepGroups
    <2>2. NoGroup \notin groups' /\ g \notin groups'
      BY <1>1, AssessmentsAssumption
    <2> QED
      BY <2>1, <2>2 DEF Follows
  <1> HIDE DEF forget
  <1>4. AssessmentsKeepGroups'
    <2>1. \A x, y \in assessments' : x.id = y.id => x = y
      BY <1>1, <1>3 DEF ListsInv, AssessmentsKeepGroups, Follows
    <2>2. \A x \in assessments' :
             {"id", "assignment", "group"} \subseteq DOMAIN x /\ \E y \in KnownAssessments : Follows(x, y)
      BY <1>1, <1>3
    <2> QED
      BY <1>1, <1>2, <2>1, <2>2, NothingNew
  <1>5. RelationsCreditOnce'
    <2>1. \A z \in relations' : z.user \in users'
      BY <1>1 DEF ListsInv, RelationsCreditOnce
    <2> QED
      BY <1>1, <1>3, <2>1, CreditsStay DEF Follows
  <1>6. groups' # groups
    BY <1>1
  <1> QED
    BY <1>1, <1>2, <1>4, <1>5, <1>6, RequestsCarry DEF ListsInv, ListsStep

\* A user is deleted, with what relates assessments to the user.
LEMMA DeleteUserLists ==
    ASSUME ListsInv, NEW u \in Users, DeleteUser(u)
    PROVE  ListsStep
  <1>1. /\ users' = users \ {u} /\ relations' = {x \in relations : x.user # u}
        /\ UNCHANGED <<groups, assessments, nextIds, req>>
    BY DEF DeleteUser
  <1>2. AssessmentSlots
    BY <1>1 DEF AssessmentSlots
  <1>3. AssessmentsKeepGroups'
    <2>1. \A x, y \in assessments' : x.id = y.id => x = y
      BY <1>1 DEF ListsInv, AssessmentsKeepGroups
    <2>2. \A x \in assessments' :
             {"id", "assignment", "group"} \subseteq DOMAIN x /\ \E y \in KnownAssessments : Follows(x, y)
      BY <1>1, KnownAssessmentsAre DEF ListsInv, AssessmentsKeepGroups, Follows
    <2> QED
      BY <1>1, <1>2, <2>1, <2>2, NothingNew
  <1>4. RelationsCreditOnce'
    <2>1. \A z \in relations' : z.user \in users'
      BY <1>1 DEF ListsInv, RelationsCreditOnce
    <2> QED
      BY <1>1, <2>1, CreditsStay
  <1>5. CreditsDropped
    BY <1>1 DEF CreditsDropped
  <1> QED
    BY <1>1, <1>2, <1>3, <1>4, <1>5, RequestsCarry DEF ListsInv, ListsStep

-----------------------------------------------------------------------------
(* The lists of evaluators: every step *)

\* Requests about allocations, and members of groups, leave assessments alone.
LEMMA OtherLists ==
    ASSUME AllocationsInv, ListsInv,
           \/ \E r \in Requests : AllocationStep(r)
           \/ \E a \in Assignments, t \in Targets : RemoveAllocations(a, t)
           \/ \E s \in Students : LeaveGroup(s) \/ \E g \in GroupIds : JoinGroup(s, g)
    PROVE  ListsStep
  <1>1. ASSUME NEW r \in Requests, NEW q, q = Idle \/ ("op" \in DOMAIN q /\ q.op \in {"allocate", "copy"}),
               req' = [req EXCEPT ![r] = q], UNCHANGED <<world, rows>>
        PROVE  ListsStep
    <2>1. Carries(q)
      BY <1>1, IdleCarries DEF Carries, AssessmentRequest
    <2> QED
      BY <1>1, <2>1, OneAssessmentSlot, QuietLists DEF world, rows, ListsInv
  <1>2. ASSUME UNCHANGED countless
        PROVE  ListsStep
    BY <1>2, QuietLists DEF countless, world, rows, AssessmentSlots, ListsInv
  <1>3. ASSUME NEW r \in Requests, NEW pc, pc # "idle", At(r, "allocate", pc) \/ At(r, "copy", pc)
        PROVE  req[r].op \in {"allocate", "copy"} /\ {"op", "pc"} \subseteq DOMAIN req[r]
    BY <1>3, BusySlot DEF At, AllocationsInv
  <1> USE DEF Begin, GoOn, Finish, Advance
  <1>4. ASSUME NEW r \in Requests, NEW a \in Assignments, NEW t \in Targets, NEW e \in Staff,
               StartAllocate(r, a, t, e)
        PROVE  ListsStep
    <2> DEFINE q == [op |-> "allocate", pc |-> "find", assignment |-> a, target |-> t,
                     evaluator |-> e, found |-> {}]
    <2>1. q.op = "allocate" /\ "op" \in DOMAIN q
      OBVIOUS
    <2>2. req' = [req EXCEPT ![r] = q] /\ UNCHANGED <<world, rows>>
      BY <1>4 DEF StartAllocate
    <2> HIDE DEF q
    <2> QED
      BY <1>1, <2>1, <2>2
  <1>5. ASSUME NEW r \in Requests, NEW a \in Assignments, NEW b \in Assignments, StartCopy(r, a, b)
        PROVE  ListsStep
    <2> DEFINE q == [op |-> "copy", pc |-> "load", assignment |-> a, from |-> b, found |-> {}]
    <2>1. q.op = "copy" /\ "op" \in DOMAIN q
      OBVIOUS
    <2>2. req' = [req EXCEPT ![r] = q] /\ UNCHANGED <<world, rows>>
      BY <1>5 DEF StartCopy
    <2> HIDE DEF q
    <2> QED
      BY <1>1, <2>1, <2>2
  <1>6. ASSUME NEW r \in Requests, FindAllocation(r)
        PROVE  ListsStep
    <2>1. At(r, "allocate", "find") /\ UNCHANGED <<world, rows>>
      BY <1>6 DEF FindAllocation
    <2>2. \/ req' = [req EXCEPT ![r] = [req[r] EXCEPT !.pc = "save"]]
          \/ \E x : req' = [req EXCEPT ![r] = [req[r] EXCEPT !.pc = "save", !.found = {x}]]
      BY <1>6 DEF FindAllocation
    <2> QED
      BY <1>1, <1>3, <2>1, <2>2
  <1>7. ASSUME NEW r \in Requests, LoadAllocations(r)
        PROVE  ListsStep
    <2>1. At(r, "copy", "load") /\ UNCHANGED <<world, rows>>
      BY <1>7 DEF LoadAllocations
    <2>2. \/ req' = [req EXCEPT ![r] = Idle]
          \/ \E x : req' = [req EXCEPT ![r] = [req[r] EXCEPT !.pc = "save", !.found = x]]
      BY <1>7 DEF LoadAllocations
    <2> QED
      BY <1>1, <1>3, <2>1, <2>2
  <1>8. ASSUME NEW r \in Requests, SaveAllocation(r) \/ SaveCopies(r)
        PROVE  ListsStep
    <2>1. req' = [req EXCEPT ![r] = Idle] /\ UNCHANGED <<world, rows>>
      BY <1>8 DEF SaveAllocation, SaveCopies
    <2> QED
      BY <1>1, <2>1
  <1>9. CASE \E a \in Assignments, t \in Targets : RemoveAllocations(a, t)
    BY <1>2, <1>9 DEF RemoveAllocations
  <1>10. CASE \E s \in Students : LeaveGroup(s) \/ \E g \in GroupIds : JoinGroup(s, g)
    BY <1>2, <1>10 DEF LeaveGroup, JoinGroup
  <1> QED
    BY <1>4, <1>5, <1>6, <1>7, <1>8, <1>9, <1>10 DEF AllocationStep

\* Assessments and assignments are deleted, released and registered for; the process ends.
LEMMA EventLists ==
    ASSUME AllocationsInv, ListsInv,
           \/ \E id \in Ids : DeleteAssessment(id)
           \/ \E a \in Assignments : RemoveAssignment(a)
           \/ \E a \in Assignments, to \in {"open", "evaluated"} : ChangePhase(a, to)
           \/ \E a \in Assignments, s \in Students, g \in GroupIds \cup {NoGroup} : Register(a, s, g)
           \/ Crash
    PROVE  ListsStep
  <1>1. CASE \E id \in Ids : DeleteAssessment(id)
    <2>1. PICK id \in Ids : DeleteAssessment(id)
      BY <1>1
    <2>2. {Row(id)} \subseteq assessments
      BY <2>1 DEF DeleteAssessment, Exists, Row
    <2> QED
      BY <2>1, <2>2, DropLists DEF DeleteAssessment, AssessmentSlots, world
  <1>2. CASE \E a \in Assignments : RemoveAssignment(a)
    BY <1>2, DropLists DEF RemoveAssignment, DeleteAssignment, AssessmentSlots
  <1>3. CASE \E a \in Assignments, to \in {"open", "evaluated"} : ChangePhase(a, to)
    BY <1>3, QuietLists DEF ChangePhase, rows, AssessmentSlots, ListsInv
  <1>4. CASE \E a \in Assignments, s \in Students, g \in GroupIds \cup {NoGroup} : Register(a, s, g)
    BY <1>4, QuietLists DEF Register, rows, AssessmentSlots, ListsInv
  <1>5. CASE Crash
    <2>1. AssessmentSlots
      BY <1>5, IdleCarries DEF Crash, AssessmentSlots
    <2> QED
      BY <1>5, <2>1, QuietLists DEF Crash, world, rows, ListsInv
  <1> QED
    BY <1>1, <1>2, <1>3, <1>4, <1>5

\* The invariant survives every step, and what every step does to the lists.
LEMMA NextLists ==
    ASSUME AllocationsInv, ListsInv, [Next]_vars
    PROVE  ListsStep
  <1>1. CASE UNCHANGED vars
    BY <1>1, QuietLists DEF vars, assessmentVars, world, rows, AssessmentSlots, ListsInv
  <1>2. ASSUME NEW r \in Requests, StartAssessment(r) \/ AssessmentStep(r)
        PROVE  ListsStep
    BY <1>2, StartLists, ReadLists, CreateLists, UpdateLists DEF AssessmentStep
  <1>3. CASE AloneStep
    BY <1>2, <1>3, EventLists DEF AloneStep
  <1>4. ASSUME NEW g \in GroupIds, RemoveGroup(g)
        PROVE  ListsStep
    BY <1>4, ForgetLists DEF RemoveGroup, AllocationsInv, AllocationsTypeOK
  <1>5. ASSUME NEW u \in Users, RemoveUser(u)
        PROVE  ListsStep
    BY <1>5, DeleteUserLists DEF RemoveUser
  <1> QED
    BY <1>1, <1>3, <1>4, <1>5, OtherLists, EventLists DEF Next

\* The invariant holds before the first step.
LEMMA InitListsInv ==
    ASSUME Init
    PROVE  ListsInv
  <1>1. "assessment" \in DOMAIN nextIds /\ nextIds.assessment \in Nat
    BY DEF Init, InitAssessments
  <1>2. \A r \in Requests : AssessmentRequest(req[r])
    BY DEF Init, InitAssessments, AssessmentRequest
  <1>3. assessments = {} /\ relations = {} /\ KnownAssessments = {}
    BY DEF Init, InitAssessments, KnownAssessments, At, Idle
  <1> QED
    BY <1>1, <1>2, <1>3 DEF ListsInv, AssessmentsKeepGroups, RelationsCreditOnce

\* What the lists rest on holds at all times.
THEOREM ListsConsistency == Spec => []ListsInv
  <1>1. AllocationsInv /\ ListsInv /\ [Next]_vars => ListsInv'
    BY NextLists DEF ListsStep
  <1> QED
    BY <1>1, InitListsInv, Consistency, PTL DEF Spec

-----------------------------------------------------------------------------
(* The lists of evaluators move together *)

\* The row of an assessment that somebody has points from.
LEMMA CreditedRow ==
    ASSUME ListsInv, NEW z \in relations
    PROVE  /\ Row(z.assessment) \in assessments /\ Row(z.assessment).id = z.assessment
           /\ Row(z.assessment).assignment = z.assignment
  <1>1. PICK y \in assessments : y.id = z.assessment /\ y.assignment = z.assignment
    BY DEF ListsInv, RelationsCreditOnce
  <1>2. Row(z.assessment) = y
    BY <1>1 DEF Row, ListsInv, AssessmentsKeepGroups
  <1> QED
    BY <1>1, <1>2

\* Besides assessments, what the lists are computed from stays.
Still == UNCHANGED <<users, groups, registered, memberOf>>

\* A group that has gone off the list has an assessment, and one that is back has none.
LEMMA ListChange ==
    ASSUME Still, NEW a \in Assignments, NEW g \in GroupIds
    PROVE  /\ g \in GroupsToReview(a) /\ g \notin GroupsToReview(a)' =>
                 /\ \E x \in assessments' : x.assignment = a /\ x.group = g
                 /\ ~\E x \in assessments : x.assignment = a /\ x.group = g
           /\ g \notin GroupsToReview(a) /\ g \in GroupsToReview(a)' =>
                 g \in groups /\ ~\E x \in assessments' : x.assignment = a /\ x.group = g
  BY DEF Still, GroupsToReview

\* Off the list.
LEMMA GoneOff ==
    ASSUME AllocationsInv, ListsInv, ListsStep, Still,
           NEW a \in Assignments, NEW g \in GroupIds,
           g \in GroupsToReview(a), g \notin GroupsToReview(a)'
    PROVE  \E r \in Requests :
              /\ req'[r] # req[r]
              /\ \/ At(r, "update", "save")
                 \/ At(r, "create", "save") /\ req[r].reviewed \cap ParticipantsToReview(a)' = {}
  <1>1. PICK x \in assessments' : x.assignment = a /\ x.group = g /\ x \notin assessments
    BY ListChange
  <1>2. PICK r \in Requests : SaveCreate(r) \/ SaveUpdate(r)
    BY <1>1 DEF ListsStep, Still
  <1>3. DOMAIN req = Requests
    BY DEF AllocationsInv, AllocationsTypeOK
  <1>4. CASE SaveUpdate(r)
    <2>1. At(r, "update", "save") /\ "pc" \in DOMAIN req[r]
      BY <1>4, BusySlot DEF SaveUpdate, AllocationsInv
    <2>2. Advance(r, [req[r] EXCEPT !.pc = "reread"]) \/ Advance(r, Idle)
      BY <1>4 DEF SaveUpdate, Reject, Finish
    <2>3. req'[r].pc # req[r].pc
      BY <1>3, <2>1, <2>2 DEF Advance, At, Idle
    <2> QED
      BY <2>1, <2>3
  <1>5. CASE SaveCreate(r)
    <2>1. At(r, "create", "save") /\ Advance(r, Idle)
      BY <1>5 DEF SaveCreate, Reject, Finish
    <2>2. req'[r].pc # req[r].pc
      BY <1>3, <2>1 DEF Advance, At, Idle
    <2>3. ~UNCHANGED <<world, rows, history>>
      BY <1>1 DEF rows
    <2> DEFINE credit(u) == [assessment |-> nextIds.assessment, assignment |-> req[r].assignment, user |-> u]
    <2>4. /\ x.assignment = req[r].assignment
          /\ \A u \in req[r].reviewed : credit(u) \in relations'
      BY <1>1, <1>5, <2>3 DEF SaveCreate, Reject
    <2>5. \A u \in req[r].reviewed : u \in Assessed(a)'
      <3>1. \A u : credit(u).assignment = req[r].assignment /\ credit(u).user = u
        OBVIOUS
      <3> HIDE DEF credit
      <3> QED
        BY <1>1, <2>4, <3>1 DEF Assessed
    <2>6. req[r].reviewed \cap ParticipantsToReview(a)' = {}
      BY <2>5 DEF ParticipantsToReview
    <2> QED
      BY <2>1, <2>2, <2>6
  <1> QED
    BY <1>2, <1>4, <1>5

\* Back on the list.
LEMMA BackOn ==
    ASSUME ListsInv, ListsStep, Still,
           NEW a \in Assignments, NEW g \in GroupIds,
           g \notin GroupsToReview(a), g \in GroupsToReview(a)'
    PROVE  Credited(a, g) \subseteq ParticipantsToReview(a)'
  <1>1. g \in groups /\ ~\E x \in assessments' : x.assignment = a /\ x.group = g
    BY ListChange
  <1>2. SUFFICES ASSUME NEW z \in relations, z.assignment = a, Row(z.assessment).group = g
                 PROVE  z.user \in ParticipantsToReview(a)'
    BY DEF Credited
  <1> DEFINE x == Row(z.assessment)
  <1>3. x \in assessments /\ x.id = z.assessment /\ x.assignment = a /\ x.group = g
    BY <1>2, CreditedRow
  <1> HIDE DEF x
  <1>4. x \notin assessments' /\ ~RowsKept
    BY <1>1, <1>3 DEF RowsKept
  <1>5. CreditsDropped
    BY <1>4 DEF ListsStep, Still
  <1>6. ASSUME NEW y \in relations', y.assignment = a, y.user = z.user
        PROVE  FALSE
    <2>1. y = z
      BY <1>2, <1>5, <1>6 DEF CreditsDropped, ListsInv, RelationsCreditOnce
    <2> QED
      BY <1>3, <1>4, <1>5, <1>6, <2>1 DEF CreditsDropped
  <1>7. z.user \in Students \cap users'
    BY DEF ListsInv, RelationsCreditOnce, Still
  <1> QED
    BY <1>6, <1>7 DEF ParticipantsToReview, Assessed

\* However allocations, assessments and their updates interleave: a group goes off the list
\* of groups to review only by an update, or together with everybody who was found
\* registered with it; when it comes back, everybody who had points from its assessment is
\* back on the list of participants.
THEOREM ListsAreInStep == Spec => ListsMoveTogether
  <1>1. AllocationsInv /\ ListsInv /\ [Next]_vars =>
           [Still => \A a \in Assignments, g \in GroupIds :
              /\ g \in GroupsToReview(a) /\ g \notin GroupsToReview(a)' =>
                    \E r \in Requests :
                       /\ req'[r] # req[r]
                       /\ \/ At(r, "update", "save")
                          \/ At(r, "create", "save") /\ req[r].reviewed \cap ParticipantsToReview(a)' = {}
              /\ g \notin GroupsToReview(a) /\ g \in GroupsToReview(a)' =>
                    Credited(a, g) \subseteq ParticipantsToReview(a)']_vars
    BY NextLists, GoneOff, BackOn
  <1> QED
    BY <1>1, Consistency, ListsConsistency, PTL DEF Spec, ListsMoveTogether, Still

=============================================================================
