------------------------------ MODULE Evaluators ------------------------------
(***************************************************************************)
(* Who evaluates what: the allocations of AssessmentAllocationService, the *)
(* queries that show evaluators the groups and participants to review, and *)
(* their composition with Assessments.                                     *)
(***************************************************************************)
EXTENDS Assessments

CONSTANTS
    NoTarget,  \* null in the columns groupId and userId
    MaxAllocs  \* bound: ids of allocations

ASSUME EvaluatorsAssumption == MaxAllocs \in Nat /\ NoTarget \notin Users \cup GroupIds

VARIABLES
    memberOf,  \* the current group of each student of the course
    allocs,    \* rows of assessment_allocation
    nextAlloc  \* next id of an allocation

allocVars == <<allocs, nextAlloc>>
countless == <<world, rows, req, history>>
vars == <<assessmentVars, memberOf, allocVars>>

-----------------------------------------------------------------------------
(* Allocations *)

\* What an allocation is for: a group or a user, or both at once.
Targets == [group : GroupIds \cup {NoTarget}, user : Students \cup {NoTarget}]
NobodyAtAll == [group |-> NoTarget, user |-> NoTarget]

Taken(a, column, value) == \E x \in allocs : x.assignment = a /\ x.target[column] = value
AllocsOf(a) == {x \in allocs : x.assignment = a}

\* What the criteria of a request select: the group counts before the user, and
\* without either it is the whole assignment.
Matching(a, target) ==
    {x \in AllocsOf(a) : \/ x.target.group = target.group /\ target.group # NoTarget
                         \/ x.target.user = target.user /\ target.group = NoTarget
                         \/ target = NobodyAtAll}

\* Mutant: no index on groups.
UserTaken(a, target) == target.user # NoTarget /\ Taken(a, "user", target.user)

\* Unique_AssignmentId_GroupId, Unique_AssignmentId_UserId: nulls do not collide.
TargetTaken(a, target) ==
    \E column \in {"group", "user"} : target[column] # NoTarget /\ Taken(a, column, target[column])

ReferencesExist(row) ==
    /\ phase[row.assignment] # "deleted"
    /\ row.target.group \in groups \cup {NoTarget}
    /\ row.target.user \in users \cup {NoTarget}
    /\ row.evaluator \in users

\* The DTO has to name a group or a user.
StartAllocate(r, a, target, evaluator) ==
    /\ target # NobodyAtAll
    /\ Begin(r, [op |-> "allocate", pc |-> "find", assignment |-> a, target |-> target,
                 evaluator |-> evaluator, found |-> {}])
    /\ UNCHANGED <<history, memberOf, allocVars>>

\* findOne: one of those that match
FindAllocation(r) ==
    LET q == req[r]  matching == Matching(q.assignment, q.target) IN
    /\ At(r, "allocate", "find")
    /\ \/ matching = {} /\ GoOn(r, [q EXCEPT !.pc = "save"])
       \/ \E x \in matching : GoOn(r, [q EXCEPT !.pc = "save", !.found = {x}])
    /\ UNCHANGED <<memberOf, allocVars>>

\* save: an allocation that was found gets another evaluator and keeps its target; if
\* it is gone it is inserted again.
SaveAllocation(r) ==
    LET q == req[r]
        row == IF q.found # {} THEN [(CHOOSE x \in q.found : TRUE) EXCEPT !.evaluator = q.evaluator]
               ELSE [id |-> nextAlloc, assignment |-> q.assignment, target |-> q.target,
                     evaluator |-> q.evaluator]
        present == \E x \in allocs : x.id = row.id
        fits == ReferencesExist(row) /\ (present \/ ~TargetTaken(row.assignment, row.target))
    IN
    /\ At(r, "allocate", "save")
    /\ Finish(r)
    /\ \/ /\ fits /\ row.id <= MaxAllocs
          /\ allocs' = {x \in allocs : x.id # row.id} \cup {row}
          /\ nextAlloc' = IF row.id = nextAlloc THEN nextAlloc + 1 ELSE nextAlloc
       \/ ~fits /\ UNCHANGED allocVars
    /\ UNCHANGED <<world, rows, history, memberOf>>

\* addAllocationsFromExistingAssignment
StartCopy(r, a, from) ==
    /\ Begin(r, [op |-> "copy", pc |-> "load", assignment |-> a, from |-> from, found |-> {}])
    /\ UNCHANGED <<history, memberOf, allocVars>>

LoadAllocations(r) ==
    LET q == req[r] IN
    /\ At(r, "copy", "load")
    /\ GoOn(r, IF AllocsOf(q.from) = {} THEN Idle
               ELSE [q EXCEPT !.pc = "save", !.found = AllocsOf(q.from)])
    /\ UNCHANGED <<memberOf, allocVars>>

\* All of them or none: one transaction.
SaveCopies(r) ==
    LET q == req[r]
        found == SetToSeq(q.found)
        copies == {[found[i] EXCEPT !.id = nextAlloc + i - 1, !.assignment = q.assignment] :
                      i \in 1 .. Cardinality(q.found)}
        fits == \A x \in copies : ReferencesExist(x) /\ ~TargetTaken(x.assignment, x.target)
    IN
    /\ At(r, "copy", "save")
    /\ Finish(r)
    /\ \/ /\ fits /\ nextAlloc + Cardinality(q.found) <= MaxAllocs + 1
          /\ allocs' = allocs \cup copies
          /\ nextAlloc' = nextAlloc + Cardinality(q.found)
       \/ ~fits /\ UNCHANGED allocVars
    /\ UNCHANGED <<world, rows, history, memberOf>>

\* removeAllocation, and removeAllAllocationsOfAssignment without a target: one
\* statement.  removeAllocation reports a failure unless it has deleted one row, but
\* what it has deleted is gone.
RemoveAllocations(a, target) ==
    /\ Count
    /\ Matching(a, target) # {}
    /\ allocs' = allocs \ Matching(a, target)
    /\ UNCHANGED <<countless, memberOf, nextAlloc>>

DropAllocs(gone) == allocs' = allocs \ gone /\ UNCHANGED nextAlloc

-----------------------------------------------------------------------------
(* The queries of evaluators, with excludeAlreadyReviewed *)

\* GroupsWithAssignedEvaluatorQuery: registered groups (here every group with a
\* registered student) that still have members and no assessment.
GroupsToReview(a) ==
    {g \in groups : /\ \E s \in Students : registered[a][s] = g
                    /\ \E s \in Students : memberOf[s] = g
                    /\ ~\E x \in assessments : x.assignment = a /\ x.group = g}

\* Mutant: only those who were assessed alone count as reviewed.
ParticipantsNotAssessedAlone(a) ==
    {s \in Students \cap users : ~\E x \in relations :
        x.assignment = a /\ x.user = s /\ Row(x.assessment).group = NoGroup}

\* ParticipantsWithAssignedEvaluatorQuery
ParticipantsToReview(a) == (Students \cap users) \ Assessed(a)

-----------------------------------------------------------------------------
(* Composition *)

JoinGroup(s, g) ==
    /\ Count
    /\ s \in users /\ memberOf[s] = NoGroup /\ g \in groups
    /\ memberOf' = [memberOf EXCEPT ![s] = g]
    /\ UNCHANGED <<countless, allocVars>>

LeaveGroup(s) ==
    /\ Count
    /\ memberOf[s] # NoGroup
    /\ memberOf' = [memberOf EXCEPT ![s] = NoGroup]
    /\ UNCHANGED <<countless, allocVars>>

RemoveGroup(g) ==
    /\ DeleteGroup(g)
    /\ memberOf' = [s \in Students |-> IF memberOf[s] = g THEN NoGroup ELSE memberOf[s]]
    /\ DropAllocs({x \in allocs : x.target.group = g})

RemoveAssignment(a) ==
    /\ DeleteAssignment(a)
    /\ DropAllocs(AllocsOf(a))
    /\ UNCHANGED memberOf

RemoveUser(u) ==
    /\ DeleteUser(u)
    /\ memberOf' = [s \in Students |-> IF s = u THEN NoGroup ELSE memberOf[s]]
    /\ DropAllocs({x \in allocs : u \in {x.target.user, x.evaluator}})

Init ==
    /\ InitAssessments
    /\ memberOf = registered[CHOOSE a \in Assignments : TRUE]
    /\ allocs = {} /\ nextAlloc = 1

AllocationStep(r) ==
    \/ \E a \in Assignments, t \in Targets, e \in Staff : StartAllocate(r, a, t, e)
    \/ \E a, b \in Assignments : a # b /\ StartCopy(r, a, b)
    \/ FindAllocation(r) \/ SaveAllocation(r) \/ LoadAllocations(r) \/ SaveCopies(r)

Next ==
    \/ AloneStep /\ UNCHANGED <<memberOf, allocVars>>
    \/ \E r \in Requests : AllocationStep(r)
    \/ \E a \in Assignments, t \in Targets : RemoveAllocations(a, t)
    \/ \E s \in Students : LeaveGroup(s) \/ \E g \in GroupIds : JoinGroup(s, g)
    \/ \E g \in GroupIds : RemoveGroup(g)
    \/ \E a \in Assignments : RemoveAssignment(a)
    \/ \E u \in Users : RemoveUser(u)

Spec == Init /\ [][Next]_vars

-----------------------------------------------------------------------------
(* Properties *)

\* A group or user has one evaluator at most for an assignment, however allocations
\* are made, copied and removed at the same time; every allocation is for somebody,
\* and nobody who is gone is in one.
AllocatedOnce ==
    /\ \A x, y \in allocs : x.id = y.id => x = y
    /\ \A x, y \in allocs, column \in {"group", "user"} :
          x.assignment = y.assignment /\ x.target[column] = y.target[column] /\ x.target[column] # NoTarget
             => x = y
    /\ \A x \in allocs : ReferencesExist(x) /\ x.target # NobodyAtAll

Credited(a, g) ==
    {y.user : y \in {z \in relations : z.assignment = a /\ Row(z.assessment).group = g}}

\* The two lists move together.  A group goes off the list of groups with those who
\* were found registered with it going off the list of participants, except that an
\* update which has overtaken the deletion of the assessment brings it back without
\* anybody's points.  A group comes back with everybody who had points from its
\* assessment.  (Registrations and members of groups make it come and go as well.)
ListsMoveTogether ==
    [][UNCHANGED <<users, groups, registered, memberOf>> =>
       \A a \in Assignments, g \in GroupIds :
          /\ g \in GroupsToReview(a) /\ g \notin GroupsToReview(a)' =>
                \E r \in Requests :
                   /\ req'[r] # req[r]
                   /\ \/ At(r, "update", "save")
                      \/ At(r, "create", "save") /\ req[r].reviewed \cap ParticipantsToReview(a)' = {}
          /\ g \notin GroupsToReview(a) /\ g \in GroupsToReview(a)' =>
                Credited(a, g) \subseteq ParticipantsToReview(a)']_vars

-----------------------------------------------------------------------------
(* The inductive strengthening *)

Allocation == [id : 1 .. MaxAllocs, assignment : Assignments, target : Targets, evaluator : Staff]
AllocationRequest ==
    [op : {"allocate"}, pc : {"find", "save"}, assignment : Assignments, target : Targets,
        evaluator : Staff, found : SUBSET Allocation]
    \cup [op : {"copy"}, pc : {"load", "save"}, assignment : Assignments, from : Assignments,
          found : SUBSET Allocation]

\* Of the other requests it only matters that they are records which keep their op.
AllocationsTypeOK ==
    /\ users \subseteq Users /\ groups \subseteq GroupIds
    /\ phase \in [Assignments -> {"open", "evaluated", "deleted"}]
    /\ allocs \subseteq Allocation /\ IsFiniteSet(allocs)
    /\ nextAlloc \in 1 .. MaxAllocs + 1
    /\ req \in [Requests -> {req[r] : r \in Requests}]
    /\ \A r \in Requests : req[r] # Idle =>
          /\ {"op", "pc"} \subseteq DOMAIN req[r]
          /\ req[r].op \in {"allocate", "copy"} => req[r] \in AllocationRequest

\* The allocations that a request may write again or copy, and those that are there.
LoadedAllocs(r) ==
    IF At(r, "allocate", "save") \/ At(r, "copy", "save") THEN req[r].found ELSE {}
KnownAllocs == allocs \cup UNION {LoadedAllocs(r) : r \in Requests}

\* Ids are not used twice, and an allocation keeps its assignment and its target.
AllocsKnown ==
    /\ \A x, y \in KnownAllocs : x.id = y.id => x.assignment = y.assignment /\ x.target = y.target
    /\ \A x \in KnownAllocs : x.id < nextAlloc /\ x.target # NobodyAtAll

\* What is copied is for different groups and users.
TargetsDiffer(S) ==
    \A x, y \in S, column \in {"group", "user"} :
       x.target[column] = y.target[column] /\ x.target[column] # NoTarget => x = y

AllocationRequestsConsistent ==
    \A r \in Requests :
       /\ At(r, "allocate", "find") => req[r].target # NobodyAtAll /\ req[r].found = {}
       /\ At(r, "allocate", "save") =>
             req[r].target # NobodyAtAll /\ (req[r].found = {} \/ \E x \in Allocation : req[r].found = {x})
       /\ At(r, "copy", "save") => IsFiniteSet(req[r].found) /\ TargetsDiffer(req[r].found)

AllocationsInv ==
    AllocationsTypeOK /\ AllocatedOnce /\ AllocsKnown /\ AllocationRequestsConsistent

-----------------------------------------------------------------------------
(* What the lists of evaluators rest on *)

\* What requests to create and update assessments carry into the tables.
AssessmentRequest(q) ==
    q # Idle =>
       /\ q.op = "create" =>
             /\ {"target", "reviewed"} \subseteq DOMAIN q
             /\ q.target \in Students \cup GroupIds /\ q.reviewed \subseteq Students
       /\ q.op = "update" =>
             /\ {"id", "entity"} \subseteq DOMAIN q
             /\ q.pc = "save" => \E x \in q.entity : x.id = q.id /\ q.entity = {x}

\* An assessment keeps its assignment, and its group until the group goes.
AssessmentsKeepGroups ==
    /\ \A x \in KnownAssessments :
          /\ {"id", "assignment", "group"} \subseteq DOMAIN x
          /\ x.id \in Nat /\ x.id < nextIds.assessment
    /\ \A x, y \in assessments : x.id = y.id => x = y
    /\ \A x, y \in KnownAssessments : x.id = y.id =>
          x.assignment = y.assignment /\ (x.group \in groups => y.group = x.group)

\* Who has points for an assignment has them once, from an assessment that is there.
RelationsCreditOnce ==
    /\ \A x, y \in relations : x.assignment = y.assignment /\ x.user = y.user => x = y
    /\ \A x \in relations :
          /\ x.user \in Students \cap users
          /\ \E y \in assessments : y.id = x.assessment /\ y.assignment = x.assignment

ListsInv ==
    /\ "assessment" \in DOMAIN nextIds /\ nextIds.assessment \in Nat
    /\ \A r \in Requests : AssessmentRequest(req[r])
    /\ AssessmentsKeepGroups /\ RelationsCreditOnce
=============================================================================
