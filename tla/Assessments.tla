----------------------------- MODULE Assessments -----------------------------
(***************************************************************************)
(* Assessments of assignments: the tables assessments,                     *)
(* assessment_user_relations, partial_assessment and assessment_event, and *)
(* every operation of AssessmentService on them, step by step between      *)
(* database calls.  Points belong to users, not to groups: users, groups   *)
(* and registrations change while assessments are written.                 *)
(*                                                                         *)
(* Comments, drafts and the titles and points of partial assessments are   *)
(* left out: they are columns like achievedPoints.                         *)
(***************************************************************************)
EXTENDS Integers, FiniteSets, Sequences, SequencesExt

CONSTANTS
    Students, Staff, GroupIds, NoGroup,
    Assignments,
    Keys,           \* keys of partial assessments
    Points,         \* points that a client may send
    Achievable,     \* points + bonusPoints of each assignment
    FirstPhases,    \* phases in which the assignments may be found at first
    Keep,           \* a column that an update leaves out
    Requests, Ops,
    MaxRequests,    \* bound: how many requests and crashes there are
    MaxAssessments, \* bound: how many assessments are created
    MaxPartials     \* bound: ids of partial assessments

ASSUME AssessmentsAssumption ==
    /\ NoGroup \notin GroupIds
    /\ Points \subseteq Int /\ Achievable \in [Assignments -> Int] /\ Keep \notin Points
    /\ IsFiniteSet(Keys) /\ FirstPhases \subseteq {"open", "evaluated"}
    /\ MaxRequests \in Nat /\ MaxAssessments \in Nat /\ MaxPartials \in Nat

VARIABLES
    users, groups, phase, \* accounts, groups, and the state of each assignment
    registered,  \* the group each student is registered with
    assessments, \* rows of assessments
    relations,   \* rows of assessment_user_relations
    partials,    \* rows of partial_assessment
    recorded,    \* the AssessmentScoreChanged rows of each assessment, in order
    nextIds,     \* next ids of assessments and partial assessments
    req, started,
    changes,     \* history: what really happened to the score after the release
    calm         \* history: assessments whose updates have never overlapped

world == <<users, groups, phase, registered>>
rows == <<assessments, relations, partials, recorded, nextIds>>
history == <<changes, calm>>
assessmentVars == <<world, rows, req, started, history>>

-----------------------------------------------------------------------------
(* Data *)

Users == Students \cup Staff
Ids == 1 .. MaxAssessments
Assessment == [id : Ids, assignment : Assignments, group : GroupIds \cup {NoGroup},
               points : Points, creator : Users, updatedBy : Users \cup {NoGroup}]
Relation == [assessment : Ids, assignment : Assignments, user : Users]
Partial == [id : 1 .. MaxPartials, assessment : Ids, key : Keys]
ScoreChange == [old : Points, new : Points, by : Users]

Idle == [pc |-> "idle"]
At(r, op, pc) == req[r].pc = pc /\ req[r].op = op

\* Requests in flight: what the client has sent, and what has been loaded.
Request ==
    [op : {"create"}, pc : {"members", "save"}, assignment : Assignments,
         target : Students \cup GroupIds, points : Points, keys : SUBSET Keys, by : Staff,
         reviewed : SUBSET Students]
    \cup [op : {"update"}, pc : {"original", "load", "save", "reread", "record"}, id : Ids,
         points : Points \cup {Keep}, keys : (SUBSET Keys) \cup {Keep}, by : Staff,
         entity : SUBSET Assessment, loaded : SUBSET Partial,
         old : Points \cup {Keep}, new : Points \cup {Keep}]
    \cup [op : {"partial"}, pc : {"find", "save"}, id : Ids, key : Keys, found : SUBSET Partial]

TypeOK ==
    /\ users \subseteq Users /\ groups \subseteq GroupIds
    /\ phase \in [Assignments -> {"open", "evaluated", "deleted"}]
    /\ registered \in [Assignments -> [Students -> groups \cup {NoGroup}]]
    /\ assessments \subseteq Assessment
    /\ \A x, y \in assessments : x.id = y.id => x = y
    /\ relations \subseteq Relation
    /\ partials \subseteq Partial
    /\ \A p, q \in partials : p.id = q.id \/ <<p.assessment, p.key>> = <<q.assessment, q.key>> => p = q
    /\ \A p \in partials : \E x \in assessments : x.id = p.assessment
    /\ recorded \in [Ids -> Seq(ScoreChange)]
    /\ changes \in [Ids -> Seq(ScoreChange)]
    /\ calm \in [Ids -> BOOLEAN]
    /\ nextIds \in [assessment : 1 .. MaxAssessments + 1, partial : 1 .. MaxPartials + 1]
    /\ req \in [Requests -> {Idle} \cup Request]

Row(id) == CHOOSE x \in assessments : x.id = id
Exists(id) == \E x \in assessments : x.id = id
PartialsOf(id) == {p \in partials : p.assessment = id}
Assessed(a) == {x.user : x \in {y \in relations : y.assignment = a}}

\* getUserIdsOfReviewedParticipants: the members that were registered with the group.
Reviewed(a, target) ==
    IF target \in GroupIds THEN {s \in Students : registered[a][s] = target} ELSE {target}

-----------------------------------------------------------------------------
(* Requests *)

Count == started < MaxRequests /\ started' = started + 1

Begin(r, request) ==
    /\ req[r] = Idle
    /\ request.op \in Ops
    /\ Count
    /\ req' = [req EXCEPT ![r] = request]
    /\ UNCHANGED <<world, rows>>

Advance(r, next) == req' = [req EXCEPT ![r] = next] /\ UNCHANGED started
Finish(r) == Advance(r, Idle)
Reject(r) == Finish(r) /\ UNCHANGED <<world, rows, history>>
GoOn(r, next) == Advance(r, next) /\ UNCHANGED <<world, rows, history>>

InFlight(id) == {r \in Requests : req[r].pc # "idle" /\ req[r].op = "update" /\ req[r].id = id}

-----------------------------------------------------------------------------
(* createAssessment *)

\* AssignmentGuard has loaded the assignment, validateAssessment lets the points pass.
StartCreate(r, a, target, points, keys, by) ==
    /\ phase[a] # "deleted" /\ by \in users
    /\ points <= Achievable[a]
    /\ Begin(r, [op |-> "create", pc |-> "members", assignment |-> a, target |-> target,
                 points |-> points, keys |-> keys, by |-> by, reviewed |-> {}])
    /\ UNCHANGED history

\* EntityNotFound without a registration of the group, which may be there or not if
\* nobody is registered with it.
FindMembers(r) ==
    LET q == req[r]  reviewed == Reviewed(q.assignment, q.target) IN
    /\ At(r, "create", "members")
    /\ \/ /\ q.target \in GroupIds => q.target \in groups /\ phase[q.assignment] # "deleted"
          /\ GoOn(r, [q EXCEPT !.pc = "save", !.reviewed = reviewed])
       \/ q.target \in GroupIds /\ reviewed = {} /\ Reject(r)

\* Mutant: only somebody who was assessed alone counts.
AlreadyAssessedAlone(a, reviewed) ==
    \E u \in reviewed : \E x \in relations : /\ x.assignment = a /\ x.user = u
                                             /\ Row(x.assessment).group = NoGroup

\* IDX_AssignmentId_UserId
AlreadyAssessed(a, reviewed) == reviewed \cap Assessed(a) # {}

NewPartials(id, keys) ==
    {[id |-> nextIds.partial + i - 1, assessment |-> id, key |-> SetToSeq(keys)[i]] : i \in 1 .. Cardinality(keys)}

\* One transaction with both cascades.  A conflict and any other error, which is
\* swallowed and then trips the caller, end the request without a change.
SaveCreate(r) ==
    LET q == req[r]
        id == nextIds.assessment
        fits == /\ phase[q.assignment] # "deleted"
                /\ q.reviewed \cup {q.by} \subseteq users
                /\ q.target \in GroupIds => q.target \in groups
                /\ ~AlreadyAssessed(q.assignment, q.reviewed)
    IN
    /\ At(r, "create", "save")
    /\ \/ /\ fits
          /\ id <= MaxAssessments /\ nextIds.partial + Cardinality(q.keys) <= MaxPartials + 1
          /\ assessments' = assessments \cup
                {[id |-> id, assignment |-> q.assignment, points |-> q.points, creator |-> q.by,
                  group |-> IF q.target \in GroupIds THEN q.target ELSE NoGroup, updatedBy |-> NoGroup]}
          /\ relations' = relations \cup
                {[assessment |-> id, assignment |-> q.assignment, user |-> u] : u \in q.reviewed}
          /\ partials' = partials \cup NewPartials(id, q.keys)
          /\ nextIds' = [assessment |-> id + 1, partial |-> nextIds.partial + Cardinality(q.keys)]
          /\ Finish(r)
          /\ UNCHANGED <<world, recorded, history>>
       \/ ~fits /\ Reject(r)

-----------------------------------------------------------------------------
(* updateAssessment.  Nothing validates the points here. *)

\* A client has seen the assessment; its updates overlap those still in flight.
StartUpdate(r, id, points, keys, by) ==
    /\ id < nextIds.assessment /\ by \in users
    /\ Begin(r, [op |-> "update", pc |-> "original", id |-> id, points |-> points, keys |-> keys,
                 by |-> by, entity |-> {}, loaded |-> {}, old |-> Keep, new |-> Keep])
    /\ calm' = [calm EXCEPT ![id] = @ /\ InFlight(id) = {}]
    /\ UNCHANGED changes

\* getAssessmentById by the service
LoadOriginal(r) ==
    LET q == req[r] IN
    /\ At(r, "update", "original")
    /\ IF Exists(q.id) THEN GoOn(r, [q EXCEPT !.pc = "load", !.old = Row(q.id).points]) ELSE Reject(r)

\* findOneOrFail by the repository
LoadEntity(r) ==
    LET q == req[r] IN
    /\ At(r, "update", "load")
    /\ IF Exists(q.id)
       THEN GoOn(r, [q EXCEPT !.pc = "save", !.entity = {Row(q.id)}, !.loaded = PartialsOf(q.id)])
       ELSE Reject(r)

Updated(q, row) ==
    [row EXCEPT !.points = IF q.points = Keep THEN @ ELSE q.points, !.updatedBy = q.by]

\* Whether save accepts the entity that was loaded: what it refers to still exists,
\* and no partial assessment was added since (save would take it off the
\* assessment, which its column forbids) or written again under the same key.
EntityFits(q, row) ==
    /\ phase[row.assignment] # "deleted"
    /\ row.group \in groups \cup {NoGroup}
    /\ {row.creator, q.by} \subseteq users
    /\ PartialsOf(q.id) \subseteq q.loaded

NewScore(q, old, new) ==
    IF old = new THEN changes
    ELSE [changes EXCEPT ![q.id] = Append(@, [old |-> old, new |-> new, by |-> q.by])]

\* One transaction.  The whole row is written as it was loaded, an assessment
\* deleted meanwhile is inserted again (without its users), and loaded partial
\* assessments that are gone as well.
SaveUpdate(r) ==
    LET q == req[r]  row == CHOOSE x \in q.entity : TRUE
        fresh == IF q.keys = Keep THEN {} ELSE NewPartials(q.id, q.keys)
    IN
    /\ At(r, "update", "save")
    /\ \/ /\ EntityFits(q, row)
          /\ nextIds.partial + Cardinality(fresh) <= MaxPartials + 1
          /\ assessments' = {x \in assessments : x.id # q.id} \cup {Updated(q, row)}
          /\ partials' = {p \in partials : p.assessment # q.id}
                            \cup (IF q.keys = Keep THEN q.loaded ELSE fresh)
          /\ nextIds' = [nextIds EXCEPT !.partial = @ + Cardinality(fresh)]
          /\ changes' = IF Exists(q.id) /\ phase[row.assignment] = "evaluated"
                        THEN NewScore(q, Row(q.id).points, Updated(q, row).points) ELSE changes
          /\ Advance(r, [q EXCEPT !.pc = "reread"])
          /\ UNCHANGED <<world, relations, recorded, calm>>
       \/ ~EntityFits(q, row) /\ Reject(r)

\* Mutant: every change is announced, released or not.
ScoreChanged(q, row) == q.old # row.points

\* scoreChangedAfterRelease
ScoreChangedAfterRelease(q, row) == q.old # row.points /\ phase[row.assignment] = "evaluated"

\* getAssessmentById at the end; if it fails the client gets an error although the
\* update was saved.  publish: the handler's insert is not awaited, its step follows.
Reread(r) ==
    LET q == req[r] IN
    /\ At(r, "update", "reread")
    /\ IF Exists(q.id) /\ ScoreChangedAfterRelease(q, Row(q.id))
       THEN GoOn(r, [q EXCEPT !.pc = "record", !.new = Row(q.id).points])
       ELSE Reject(r)

\* AssessmentScoreChangedHandler.handle; an insert that fails goes unnoticed.
RecordChange(r) ==
    LET q == req[r] IN
    /\ At(r, "update", "record")
    /\ recorded' = IF Exists(q.id) /\ q.by \in users
                   THEN [recorded EXCEPT ![q.id] = Append(@, [old |-> q.old, new |-> q.new, by |-> q.by])]
                   ELSE recorded
    /\ Finish(r)
    /\ UNCHANGED <<world, assessments, relations, partials, nextIds, history>>

-----------------------------------------------------------------------------
(* setPartialAssessment; without a key a random one is taken, any of Keys *)

StartPartial(r, id, key) ==
    /\ id < nextIds.assessment
    /\ Begin(r, [op |-> "partial", pc |-> "find", id |-> id, key |-> key, found |-> {}])
    /\ UNCHANGED history

FindPartial(r) ==
    LET q == req[r] IN
    /\ At(r, "partial", "find")
    /\ GoOn(r, [q EXCEPT !.pc = "save", !.found = {p \in PartialsOf(q.id) : p.key = q.key}])

\* Mutant: the index covers one assessment each is found in, not the key.
KeyIsFreeAlways(id, key) == Exists(id)

\* IDX_AssessmentId_Key and the foreign key
KeyIsFree(id, key) == Exists(id) /\ \A p \in PartialsOf(id) : p.key # key

\* A row that was found is written again: it is inserted if it has gone meanwhile.
SavePartial(r) ==
    LET q == req[r]
        row == IF q.found # {} THEN CHOOSE p \in q.found : TRUE
               ELSE [id |-> nextIds.partial, assessment |-> q.id, key |-> q.key]
    IN
    /\ At(r, "partial", "save")
    /\ \/ row \in partials /\ Reject(r)
       \/ /\ row \notin partials /\ KeyIsFree(q.id, q.key)
          /\ row.id <= MaxPartials
          /\ partials' = partials \cup {row}
          /\ nextIds' = [nextIds EXCEPT !.partial = IF row.id = @ THEN @ + 1 ELSE @]
          /\ Finish(r)
          /\ UNCHANGED <<world, assessments, relations, recorded, history>>
       \/ row \notin partials /\ ~KeyIsFree(q.id, q.key) /\ Reject(r)

-----------------------------------------------------------------------------
(* Deletion, and what the foreign keys do when other rows go *)

\* Users, partial assessments and events of the assessments go with them.
DropAssessments(gone) ==
    LET ids == {x.id : x \in gone} IN
    /\ assessments' = assessments \ gone
    /\ relations' = {x \in relations : x.assessment \notin ids}
    /\ partials' = {p \in partials : p.assessment \notin ids}
    /\ recorded' = [i \in Ids |-> IF i \in ids THEN <<>> ELSE recorded[i]]
    /\ changes' = [i \in Ids |-> IF i \in ids THEN <<>> ELSE changes[i]]
    /\ calm' = [i \in Ids |-> calm[i] /\ (i \in ids => InFlight(i) = {})]

\* deleteAssessment is one statement.
DeleteAssessment(id) ==
    /\ Count
    /\ Exists(id)
    /\ DropAssessments({Row(id)})
    /\ UNCHANGED <<world, nextIds, req>>

DeleteAssignment(a) ==
    /\ Count
    /\ phase[a] # "deleted"
    /\ phase' = [phase EXCEPT ![a] = "deleted"]
    /\ registered' = [registered EXCEPT ![a] = [s \in Students |-> NoGroup]]
    /\ DropAssessments({x \in assessments : x.assignment = a})
    /\ UNCHANGED <<users, groups, nextIds, req>>

\* A lecturer releases the assessments of an assignment, or takes them back.
ChangePhase(a, to) ==
    /\ Count
    /\ phase[a] \notin {"deleted", to}
    /\ phase' = [phase EXCEPT ![a] = to]
    /\ calm' = [i \in Ids |-> calm[i] /\ InFlight(i) = {}]
    /\ UNCHANGED <<users, groups, registered, rows, req, changes>>

\* Mutant: the assessments of a group go with it.
DeleteGroupAndAssessments(g) ==
    /\ Count
    /\ g \in groups
    /\ groups' = groups \ {g}
    /\ registered' = [a \in Assignments |-> [s \in Students |->
                         IF registered[a][s] = g THEN NoGroup ELSE registered[a][s]]]
    /\ DropAssessments({x \in assessments : x.group = g})
    /\ UNCHANGED <<users, phase, nextIds, req>>

\* Registrations go with the group; assessments only forget it.
DeleteGroup(g) ==
    /\ Count
    /\ g \in groups
    /\ groups' = groups \ {g}
    /\ registered' = [a \in Assignments |-> [s \in Students |->
                         IF registered[a][s] = g THEN NoGroup ELSE registered[a][s]]]
    /\ assessments' = {[x EXCEPT !.group = IF @ = g THEN NoGroup ELSE @] : x \in assessments}
    /\ UNCHANGED <<users, phase, relations, partials, recorded, nextIds, req, history>>

\* AssignmentRegistration: a student is registered with another group, or with none.
Register(a, s, g) ==
    /\ Count
    /\ phase[a] # "deleted" /\ s \in users /\ g \in groups \cup {NoGroup}
    /\ registered[a][s] # g
    /\ registered' = [registered EXCEPT ![a][s] = g]
    /\ UNCHANGED <<users, groups, phase, rows, req, history>>

\* The events that others have caused.
Without(u, events) ==
    LET kept[n \in 0 .. Len(events)] ==
            IF n = 0 THEN <<>>
            ELSE IF events[n].by = u THEN kept[n - 1] ELSE Append(kept[n - 1], events[n])
    IN  kept[Len(events)]

\* An account can be deleted unless it has created or updated an assessment.  The
\* events that it caused go with it.
DeleteUser(u) ==
    /\ Count
    /\ u \in users
    /\ \A x \in assessments : u \notin {x.creator, x.updatedBy}
    /\ users' = users \ {u}
    /\ registered' = [a \in Assignments |-> [s \in Students |->
                         IF s = u THEN NoGroup ELSE registered[a][s]]]
    /\ relations' = {x \in relations : x.user # u}
    /\ recorded' = [i \in Ids |-> Without(u, recorded[i])]
    /\ changes' = [i \in Ids |-> Without(u, changes[i])]
    /\ calm' = [i \in Ids |-> calm[i] /\ \A r \in InFlight(i) : req[r].by # u]
    /\ UNCHANGED <<groups, phase, assessments, partials, nextIds, req>>

\* The process ends.
Crash ==
    /\ Count
    /\ \E r \in Requests : req[r] # Idle
    /\ req' = [r \in Requests |-> Idle]
    /\ calm' = [i \in Ids |-> calm[i] /\ InFlight(i) = {}]
    /\ UNCHANGED <<world, rows, changes>>

-----------------------------------------------------------------------------
InitAssessments ==
    /\ users = Users /\ groups = GroupIds
    /\ phase \in [Assignments -> FirstPhases]
    /\ \E team \in [Students -> GroupIds \cup {NoGroup}] : registered = [a \in Assignments |-> team]
    /\ assessments = {} /\ relations = {} /\ partials = {}
    /\ recorded = [i \in Ids |-> <<>>] /\ changes = [i \in Ids |-> <<>>]
    /\ nextIds = [assessment |-> 1, partial |-> 1]
    /\ req = [r \in Requests |-> Idle]
    /\ started = 0
    /\ calm = [i \in Ids |-> TRUE]

StartAssessment(r) ==
    \/ \E a \in Assignments, target \in Students \cup GroupIds, p \in Points, by \in Staff,
          keys \in SUBSET Keys : StartCreate(r, a, target, p, keys, by)
    \/ \E id \in Ids, p \in Points \cup {Keep}, by \in Staff,
          keys \in (SUBSET Keys) \cup {Keep} : StartUpdate(r, id, p, keys, by)
    \/ \E id \in Ids, k \in Keys : StartPartial(r, id, k)

AssessmentStep(r) ==
    \/ FindMembers(r) \/ SaveCreate(r)
    \/ LoadOriginal(r) \/ LoadEntity(r) \/ SaveUpdate(r) \/ Reread(r) \/ RecordChange(r)
    \/ FindPartial(r) \/ SavePartial(r)

\* Steps that concern no other component.
AloneStep ==
    \/ \E r \in Requests : StartAssessment(r) \/ AssessmentStep(r)
    \/ \E id \in Ids : DeleteAssessment(id)
    \/ \E a \in Assignments, to \in {"open", "evaluated"} : ChangePhase(a, to)
    \/ \E a \in Assignments, s \in Students, g \in GroupIds \cup {NoGroup} : Register(a, s, g)
    \/ Crash

AssessmentsNext ==
    \/ AloneStep
    \/ \E a \in Assignments : DeleteAssignment(a)
    \/ \E g \in GroupIds : DeleteGroup(g)
    \/ \E u \in Users : DeleteUser(u)

AssessmentsSpec == InitAssessments /\ [][AssessmentsNext]_assessmentVars

-----------------------------------------------------------------------------
(* Properties *)

\* Whatever tutors do at the same time, with groups and with single users: a user
\* gets the points of at most one assessment for an assignment, and of one that
\* exists and belongs to that assignment.
AssessedOnce ==
    /\ \A x, y \in relations : x.assignment = y.assignment /\ x.user = y.user => x = y
    /\ \A x \in relations : Exists(x.assessment) /\ Row(x.assessment).assignment = x.assignment

PointsOf(a, u) ==
    {Row(x.assessment).points : x \in {y \in relations : y.assignment = a /\ y.user = u}}

\* Users keep the points of their group's assessment when they are registered with
\* another group and when the group is deleted: only updates, the creation or deletion
\* of assessments and the deletion of assignments and users change anybody's points.
PointsSurviveGroupChanges ==
    [][<<groups, registered>>' # <<groups, registered>> /\ users' = users =>
          \A a \in Assignments, u \in Users :
             phase'[a] # "deleted" => PointsOf(a, u)' = PointsOf(a, u)]_assessmentVars

\* The recorded score changes are what happened to the score since the release, in
\* order, unless updates of the assessment overlapped or were cut off by a crash, a
\* release or a deletion.
RecordedScores ==
    \A id \in Ids : calm[id] /\ InFlight(id) = {} => recorded[id] = changes[id]

-----------------------------------------------------------------------------
(* The inductive strengthening *)

\* The partial assessments that a request may write again, and those that are there.
LoadedPartials(r) ==
    CASE At(r, "update", "save") -> req[r].loaded
      [] At(r, "partial", "save") -> req[r].found
      [] OTHER -> {}
KnownPartials == partials \cup UNION {LoadedPartials(r) : r \in Requests}

\* Ids are not used twice, and a row keeps its id, its assessment and its key.
PartialsKnown ==
    /\ \A x, y \in KnownPartials : x.id = y.id => x = y
    /\ \A x \in KnownPartials : x.id < nextIds.partial

\* The assessments that are there or that a request may write again.
KnownAssessments ==
    assessments \cup UNION {req[r].entity : r \in {s \in Requests : At(s, "update", "save")}}

\* An assessment never moves to another assignment.
AssessmentsKnown ==
    /\ \A x, y \in KnownAssessments : x.id = y.id => x.assignment = y.assignment
    /\ \A x \in KnownAssessments : x.id < nextIds.assessment

\* What the requests have loaded.
RequestsConsistent ==
    \A r \in Requests :
       /\ req[r] # Idle /\ req[r].op = "update" =>
             /\ req[r].id < nextIds.assessment
             /\ req[r].pc # "original" => req[r].old \in Points
             /\ req[r].pc = "record" => req[r].new \in Points
       /\ At(r, "update", "save") =>
             /\ \E x \in Assessment : x.id = req[r].id /\ req[r].entity = {x}
             /\ \A p \in req[r].loaded : p.assessment = req[r].id
             /\ \A p, q \in req[r].loaded : p.key = q.key => p = q
       /\ At(r, "partial", "save") =>
             \A p \in req[r].found : p.assessment = req[r].id /\ p.key = req[r].key

\* How far an update that runs alone has got with what it has to record.
Recording(id, r) ==
    LET q == req[r] IN
    /\ q.by \in users
    /\ q.pc # "original" => Exists(id)
    /\ q.pc \in {"load", "save"} => q.old = Row(id).points
    /\ changes[id] =
          IF \/ q.pc = "record"
             \/ q.pc = "reread" /\ ScoreChangedAfterRelease(q, Row(id))
          THEN Append(recorded[id], [old |-> q.old, by |-> q.by,
                      new |-> IF q.pc = "record" THEN q.new ELSE Row(id).points])
          ELSE recorded[id]

\* Of the updates of an assessment that have not overlapped one is in flight at most.
ScoreConsistent(id) ==
    /\ \A r, s \in InFlight(id) : r = s
    /\ \A r \in InFlight(id) : Recording(id, r)
    /\ InFlight(id) = {} => recorded[id] = changes[id]

ScoresConsistent == \A id \in Ids : calm[id] => ScoreConsistent(id)

IndInv ==
    TypeOK /\ AssessedOnce /\ PartialsKnown /\ AssessmentsKnown /\ RequestsConsistent
    /\ ScoresConsistent
=============================================================================
