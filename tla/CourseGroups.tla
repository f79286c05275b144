---------------------------- MODULE CourseGroups ----------------------------
(***************************************************************************)
(* The groups of one course: GroupController, GroupService,                *)
(* JoinRandomGroupHandler, GroupRepository, the tables participant, groups *)
(* and user_group_relations with their unique indexes and foreign keys,    *)
(* and the CloseEmptyGroupsHandler that runs after somebody left a group.  *)
(*                                                                         *)
(* One Node.js process serves many requests at once; a request gives way   *)
(* to the others at every await.  Each action is the code between two      *)
(* database calls; a check on data that a guard has just loaded is made in *)
(* the step that loads it.                                                 *)
(***************************************************************************)
EXTENDS Integers, Sequences, FiniteSets

CONSTANTS
    Users,        \* accounts of the system
    Staff,        \* the users whose participants are TUTOR or LECTURER
    GroupIds,     \* uuids: an id is never handed out twice
    NoGroup,      \* the groupId of a participant without relation
    Requests,     \* slots of requests in flight at the same time
    Ops,          \* the operations that clients use
    SizeMin, SizeMax, AllowGroups, Selfmanaged,     \* the GroupSettings
    MaxPid,       \* bound: how often users sign up to the course
    MaxRequests   \* bound: how many requests are made

AllOps == {"join", "random", "create", "bulk", "leave", "delete", "update",
           "quit", "close"}

ASSUME ConstantsAssumption ==
    /\ Staff \subseteq Users
    /\ NoGroup \notin GroupIds
    /\ Ops \subseteq AllOps
    /\ SizeMin \in Nat /\ SizeMax \in Nat
    /\ AllowGroups \in BOOLEAN /\ Selfmanaged \in BOOLEAN
    /\ MaxPid \in Nat /\ MaxRequests \in Nat
    /\ IsFiniteSet(Requests)

VARIABLES
    enrol,     \* id of the user's participant row in the course, 0: there is none
    nextPid,   \* next value of the participant id sequence
    courseClosed, \* isClosed of the row of table course
    groups,    \* ids of the rows of table groups
    created,   \* ids that were handed out so far
    closed,    \* the groups whose isClosed is true
    locked,    \* the groups that have a password
    rel,       \* rows of user_group_relations
    req,       \* requests in flight
    closers,   \* CloseEmptyGroupsHandler calls in flight
    events,    \* UserJoinedGroupEvent, UserLeftGroupEvent: what was published
    started    \* number of requests made so far (only to bound them)

vars == <<enrol, nextPid, courseClosed, groups, created, closed, locked, rel,
          req, closers, events, started>>

courseVars == <<enrol, nextPid, courseClosed>>
groupVars == <<groups, created, closed, locked>>

-----------------------------------------------------------------------------
(* Data *)

Row == [pid : Nat, user : Users, group : GroupIds]

Event == [kind : {"joined", "left"}, user : Users, group : GroupIds]

\* A column of a group entity that an update holds: "keep" while it is not set.
Column == {"keep", "yes", "no"}

Idle == [pc |-> "idle"]

Request == [op : AllOps,
            pc : {"selected", "group", "choose", "create", "lookup", "insert",
                  "remove", "drop", "load", "save"},
            actor : Users, user : Users, group : GroupIds \cup {NoGroup},
            pid : Nat, free : BOOLEAN, closed : Column, locked : Column]

NewRequest(op, pc, a, u, g) ==
    [op |-> op, pc |-> pc, actor |-> a, user |-> u, group |-> g, pid |-> 0,
     free |-> TRUE, closed |-> "keep", locked |-> "keep"]

Closer == [event : Nat, group : GroupIds, pc : {"check", "load", "save"},
           locked : Column]

TypeOK ==
    /\ enrol \in [Users -> Nat]
    /\ nextPid \in Nat \ {0}
    /\ courseClosed \in BOOLEAN
    /\ groups \subseteq created
    /\ created \subseteq GroupIds
    /\ closed \subseteq groups
    /\ locked \subseteq groups
    /\ rel \subseteq Row
    /\ req \in [Requests -> Request \cup {Idle}]
    /\ closers \subseteq Closer
    /\ events \in Seq(Event)
    /\ started \in Nat

Members(g) == {x \in rel : x.group = g}
Size(g) == Cardinality(Members(g))

IsStudent(u) == u \notin Staff
IsParticipant(u) == enrol[u] # 0
HasNoGroup(u) == \A x \in rel : x.pid # enrol[u]
IsMemberOfGroup(u, g) == \E x \in rel : x.pid = enrol[u] /\ x.group = g

\* Mutant: one member too many.
HasCapacityAtLimit(g) == Size(g) <= SizeMax

HasCapacity(g) == Size(g) < SizeMax
IsNotClosed(g) == g \notin closed
AllowsGroupToClose(g) == SizeMin <= Size(g)

\* Course.isNotClosed: the constructor of the model never assigns isClosed, so
\* the check passes whatever the row of the course says.
CourseIsNotClosed == TRUE

Init ==
    /\ enrol = [u \in Users |-> 0]
    /\ nextPid = 1
    /\ courseClosed = FALSE
    /\ groups = {} /\ created = {} /\ closed = {} /\ locked = {}
    /\ rel = {}
    /\ req = [r \in Requests |-> Idle]
    /\ closers = {}
    /\ events = <<>>
    /\ started = 0

-----------------------------------------------------------------------------
(* Requests: how they begin, go on and end *)

Begin(r, request) ==
    /\ req[r] = Idle
    /\ request.op \in Ops
    /\ IsParticipant(request.actor)          \* CourseMemberGuard
    /\ started < MaxRequests
    /\ started' = started + 1
    /\ req' = [req EXCEPT ![r] = request]
    /\ UNCHANGED <<courseVars, groupVars, rel, closers, events>>

At(r, pc) == req[r].pc = pc

GoTo(r, pc) == req' = [req EXCEPT ![r].pc = pc]

Finish(r) == req' = [req EXCEPT ![r] = Idle]

\* Nothing but the request itself has moved on.
DataUnchanged ==
    UNCHANGED <<courseVars, groupVars, rel, closers, events, started>>

\* An exception: the request fails, the database is as it was.
Reject(r) == Finish(r) /\ DataUnchanged

Publish(kind, u, g) ==
    events' = Append(events, [kind |-> kind, user |-> u, group |-> g])

-----------------------------------------------------------------------------
(* Participants come and go; a lecturer closes and reopens the course *)

\* CourseParticipantsService.addParticipant
JoinCourse(u) ==
    /\ ~courseClosed
    /\ ~IsParticipant(u)
    /\ nextPid <= MaxPid
    /\ enrol' = [enrol EXCEPT ![u] = nextPid]
    /\ nextPid' = nextPid + 1
    /\ UNCHANGED <<courseClosed, groupVars, rel, req, closers, events, started>>

\* Mutant: the relation does not go with the participant.
LeaveCourseKeepsRelation(u) ==
    /\ "quit" \in Ops
    /\ IsParticipant(u)
    /\ enrol' = [enrol EXCEPT ![u] = 0]
    /\ UNCHANGED <<nextPid, courseClosed, groupVars, rel, req, closers, events, started>>

\* CourseParticipantsService.removeUser: the foreign key cascades to the
\* relation, no event is published.
LeaveCourse(u) ==
    /\ "quit" \in Ops
    /\ IsParticipant(u)
    /\ enrol' = [enrol EXCEPT ![u] = 0]
    /\ rel' = {x \in rel : x.pid # enrol[u]}
    /\ UNCHANGED <<nextPid, courseClosed, groupVars, req, closers, events, started>>

\* CourseService.updateCourse
SetCourseClosed ==
    /\ "close" \in Ops
    /\ courseClosed' = ~courseClosed
    /\ UNCHANGED <<enrol, nextPid, groupVars, rel, req, closers, events, started>>

-----------------------------------------------------------------------------
(* POST groups/:groupId/users/:userId *)

StartJoin(r, a, u, g) ==
    Begin(r, NewRequest("join", "selected", a, u, g))

\* SelectedParticipantGuard; hasNoGroup looks at what this guard has loaded.
JoinSelectParticipant(r) ==
    LET u == req[r].user IN
    /\ At(r, "selected")
    /\ IF IsParticipant(u) /\ HasNoGroup(u) THEN GoTo(r, "group") ELSE Finish(r)
    /\ DataUnchanged

\* GroupGuard; the checks for students look at what this guard has loaded.
\* The password is abstracted: a locked group may turn any student away.
JoinCheckGroup(r) ==
    LET g == req[r].group
        bound == IsStudent(req[r].actor)
    IN
    /\ At(r, "group")
    /\ \/ /\ g \in groups
          /\ CourseIsNotClosed
          /\ bound => IsNotClosed(g) /\ HasCapacity(g)
          /\ GoTo(r, "lookup")
       \/ /\ \/ g \notin groups
             \/ ~CourseIsNotClosed
             \/ bound /\ (~IsNotClosed(g) \/ ~HasCapacity(g) \/ g \in locked)
          /\ Finish(r)
    /\ DataUnchanged

-----------------------------------------------------------------------------
(* GroupRepository.addUserToGroup, at the end of join, random and create *)

\* Mutant: a participant who is not found is not an error.
AddLookupUnchecked(r) ==
    /\ At(r, "lookup")
    /\ req' = [req EXCEPT ![r].pc = "insert", ![r].pid = enrol[req[r].user]]
    /\ DataUnchanged

\* getParticipant: reads the id that the new relation will refer to.
AddLookup(r) ==
    LET u == req[r].user IN
    /\ At(r, "lookup")
    /\ IF IsParticipant(u)
       THEN req' = [req EXCEPT ![r].pc = "insert", ![r].pid = enrol[u]]
       ELSE Finish(r)
    /\ DataUnchanged

\* Mutant: no unique index on participantId.
UniqueViolationOfPair(r) ==
    \E x \in rel : x.user = req[r].user /\ x.group = req[r].group

\* Unique indexes on participantId and on (userId, groupId): error 23505.
UniqueViolation(r) ==
    \E x \in rel : \/ x.pid = req[r].pid
                   \/ x.user = req[r].user /\ x.group = req[r].group

\* Mutant: no foreign key to the participant.
GroupReferenceExists(r) == req[r].group \in groups

\* The foreign keys to the group and to the participant find their rows.
ReferencesExist(r) ==
    req[r].group \in groups /\ enrol[req[r].user] = req[r].pid

\* save(userGroupRelation): 23505 becomes a ConflictException; every other error
\* is swallowed, "true" is returned and the event is published all the same.
AddInsert(r) ==
    LET u == req[r].user
        g == req[r].group
        row == [pid |-> req[r].pid, user |-> u, group |-> g]
    IN
    /\ At(r, "insert")
    /\ \/ UniqueViolation(r) /\ Reject(r)
       \/ /\ ~UniqueViolation(r)
          /\ rel' = IF ReferencesExist(r) THEN rel \cup {row} ELSE rel
          /\ Publish("joined", u, g)
          /\ Finish(r)
          /\ UNCHANGED <<courseVars, groupVars, closers, started>>

-----------------------------------------------------------------------------
(* POST groups/joinOrCreateGroup *)

\* JoinRandomGroupHandler: CourseMemberGuard has loaded the participant.
StartRandom(r, a) ==
    /\ AllowGroups
    /\ Begin(r, [NewRequest("random", "choose", a, a, NoGroup)
                   EXCEPT !.free = HasNoGroup(a)])

\* getOpenGroups
OpenGroups == {g \in groups : g \notin closed /\ g \notin locked /\ Size(g) < SizeMax}

TooSmall == {g \in OpenGroups : Size(g) < SizeMin}
LargeEnough == {g \in OpenGroups : Size(g) >= SizeMin}

\* tryGetJoinableGroup: one of the biggest groups below the minimum size, or
\* else one of the smallest that reach it.
Joinable ==
    IF TooSmall # {}
    THEN {g \in TooSmall : \A h \in TooSmall : Size(h) <= Size(g)}
    ELSE {g \in LargeEnough : \A h \in LargeEnough : Size(g) <= Size(h)}

\* getGroupsOfCourse and the choice; without a joinable group createGroup runs,
\* which turns away a student who had a group when the request came in.
RandomChoose(r) ==
    /\ At(r, "choose")
    /\ \/ \E g \in Joinable : req' = [req EXCEPT ![r].pc = "lookup", ![r].group = g]
       \/ /\ Joinable = {}
          /\ IF CourseIsNotClosed /\ (IsStudent(req[r].actor) => req[r].free)
             THEN GoTo(r, "create")
             ELSE Finish(r)
    /\ DataUnchanged

-----------------------------------------------------------------------------
(* POST groups, POST groups/bulk *)

\* createGroup up to the checks on the settings and the participant.
StartCreate(r, a) ==
    /\ AllowGroups /\ CourseIsNotClosed
    /\ IsStudent(a) => HasNoGroup(a)
    /\ Begin(r, NewRequest("create", "create", a, a, NoGroup))

\* The rest of createGroup: a student's group is open while the course wants
\* more than one member, and the student joins it; the group of anybody else
\* stays empty.  random sends no isClosed and no password.
CreateInsert(r) ==
    LET a == req[r].actor
        plain == req[r].op = "random"
    IN
    /\ At(r, "create")
    /\ \E g \in GroupIds \ created, isClosed, hasPassword \in BOOLEAN :
          /\ isClosed => ~plain /\ ~(IsStudent(a) /\ SizeMin > 1)
          /\ hasPassword => ~plain
          /\ groups' = groups \cup {g}
          /\ created' = created \cup {g}
          /\ closed' = IF isClosed THEN closed \cup {g} ELSE closed
          /\ locked' = IF hasPassword THEN locked \cup {g} ELSE locked
          /\ IF IsStudent(a)
             THEN req' = [req EXCEPT ![r].pc = "lookup", ![r].group = g]
             ELSE Finish(r)
    /\ UNCHANGED <<courseVars, rel, closers, events, started>>

\* The name is taken (unique index on name and course, also when the schema's
\* next name was read before another request took it).
CreateNameTaken(r) ==
    /\ At(r, "create")
    /\ groups # {}
    /\ Reject(r)

\* createMultipleGroups, for the teaching staff: one transaction, no checks.
CreateMultipleGroups(a) ==
    /\ "bulk" \in Ops
    /\ IsParticipant(a) /\ ~IsStudent(a)
    /\ started < MaxRequests /\ started' = started + 1
    /\ \E new \in SUBSET (GroupIds \ created) :
          /\ groups' = groups \cup new
          /\ created' = created \cup new
    /\ UNCHANGED <<courseVars, closed, locked, rel, req, closers, events>>

-----------------------------------------------------------------------------
(* DELETE groups/:groupId/users/:userId *)

\* Guards and checks: a student removes only himself, from his own group.
StartLeave(r, a, u, g) ==
    /\ IsParticipant(u) /\ g \in groups
    /\ CourseIsNotClosed
    /\ IsStudent(a) => IsMemberOfGroup(a, g) /\ u = a /\ Selfmanaged
    /\ Begin(r, NewRequest("leave", "remove", a, u, g))

\* Mutant: it does not matter whether the repository has removed a relation.
LeaveRemoveUnchecked(r) ==
    LET u == req[r].user
        g == req[r].group
    IN
    /\ At(r, "remove")
    /\ rel' = {x \in rel : x.user # u \/ x.group # g}
    /\ Publish("left", u, g)
    /\ closers' = closers \cup {[event |-> Len(events) + 1, group |-> g,
                                 pc |-> "check", locked |-> "keep"]}
    /\ Finish(r)
    /\ UNCHANGED <<courseVars, groupVars, started>>

LeaveRemove(r) ==
    LET u == req[r].user
        g == req[r].group
        rows == {x \in rel : x.user = u /\ x.group = g}
    IN
    /\ At(r, "remove")
    /\ \/ rows = {} /\ Reject(r)
       \/ /\ rows # {}
          /\ rel' = rel \ rows
          /\ Publish("left", u, g)
          /\ closers' = closers \cup {[event |-> Len(events) + 1, group |-> g,
                                       pc |-> "check", locked |-> "keep"]}
          /\ Finish(r)
          /\ UNCHANGED <<courseVars, groupVars, started>>

-----------------------------------------------------------------------------
(* DELETE groups/:groupId *)

\* isAllowedToRemoveTheirGroup asserts nothing: any student of the course may.
StartDelete(r, a, g) ==
    /\ g \in groups
    /\ CourseIsNotClosed
    /\ IsStudent(a) => Selfmanaged
    /\ Begin(r, NewRequest("delete", "drop", a, a, g))

\* The relations go with the group; nobody is told that he left.
DeleteDrop(r) ==
    LET g == req[r].group IN
    /\ At(r, "drop")
    /\ groups' = groups \ {g}
    /\ closed' = closed \ {g}
    /\ locked' = locked \ {g}
    /\ rel' = {x \in rel : x.group # g}
    /\ Finish(r)
    /\ UNCHANGED <<courseVars, created, closers, events, started>>

-----------------------------------------------------------------------------
(* PATCH groups/:groupId *)

Apply(set, g, column) ==
    CASE column = "yes" -> set \cup {g}
      [] column = "no" -> set \ {g}

Value(set, g) == IF g \in set THEN "yes" ELSE "no"

\* Mutant: the columns are written, the row is not inserted again.
SaveColumns(g, isClosed, hasPassword) ==
    /\ groups' = groups
    /\ closed' = Apply(closed, g, isClosed)
    /\ locked' = Apply(locked, g, hasPassword)

\* save(entity) writes the columns of the entity as they were loaded and
\* changed, and inserts the row again if it has vanished meanwhile.
SaveGroup(g, isClosed, hasPassword) ==
    /\ groups' = groups \cup {g}
    /\ closed' = Apply(closed, g, isClosed)
    /\ locked' = Apply(locked, g, hasPassword)

StartUpdate(r, a, g) ==
    \E isClosed, hasPassword \in Column :
       /\ g \in groups
       /\ CourseIsNotClosed
       /\ isClosed = "yes" /\ IsNotClosed(g) => AllowsGroupToClose(g)
       /\ Begin(r, [NewRequest("update", "load", a, a, g)
                      EXCEPT !.closed = isClosed, !.locked = hasPassword])

\* repository.updateGroup: getGroupById, then the columns the client did not set.
UpdateLoad(r) ==
    LET g == req[r].group IN
    /\ At(r, "load")
    /\ IF g \in groups
       THEN req' = [req EXCEPT
              ![r].pc = "save",
              ![r].closed = IF @ = "keep" THEN Value(closed, g) ELSE @,
              ![r].locked = IF @ = "keep" THEN Value(locked, g) ELSE @]
       ELSE Finish(r)
    /\ DataUnchanged

UpdateSave(r) ==
    /\ At(r, "save")
    /\ SaveGroup(req[r].group, req[r].closed, req[r].locked)
    /\ Finish(r)
    /\ UNCHANGED <<courseVars, created, rel, closers, events, started>>

\* The new name, or the name of a row that is inserted again, is taken.
UpdateNameTaken(r) ==
    /\ At(r, "save")
    /\ \E h \in groups : h # req[r].group
    /\ Reject(r)

-----------------------------------------------------------------------------
(* CloseEmptyGroupsHandler *)

\* Mutant: the member who has left is still counted.
CloserCheckLastMember(c) ==
    /\ c.pc = "check"
    /\ closers' = IF c.group \in groups /\ Size(c.group) = 1
                  THEN (closers \ {c}) \cup {[c EXCEPT !.pc = "load"]}
                  ELSE closers \ {c}
    /\ UNCHANGED <<courseVars, groupVars, rel, req, events, started>>

\* getGroupWithUsers throws if the group is gone.
CloserCheck(c) ==
    /\ c.pc = "check"
    /\ closers' = IF c.group \in groups /\ Size(c.group) = 0
                  THEN (closers \ {c}) \cup {[c EXCEPT !.pc = "load"]}
                  ELSE closers \ {c}
    /\ UNCHANGED <<courseVars, groupVars, rel, req, events, started>>

CloserLoad(c) ==
    /\ c.pc = "load"
    /\ closers' = IF c.group \in groups
                  THEN (closers \ {c}) \cup
                         {[c EXCEPT !.pc = "save", !.locked = Value(locked, c.group)]}
                  ELSE closers \ {c}
    /\ UNCHANGED <<courseVars, groupVars, rel, req, events, started>>

CloserSave(c) ==
    /\ c.pc = "save"
    /\ SaveGroup(c.group, "yes", c.locked)
    /\ closers' = closers \ {c}
    /\ UNCHANGED <<courseVars, created, rel, req, events, started>>

-----------------------------------------------------------------------------
RequestStep(r) ==
    \/ JoinSelectParticipant(r) \/ JoinCheckGroup(r)
    \/ AddLookup(r) \/ AddInsert(r)
    \/ RandomChoose(r)
    \/ CreateInsert(r) \/ CreateNameTaken(r)
    \/ LeaveRemove(r)
    \/ DeleteDrop(r)
    \/ UpdateLoad(r) \/ UpdateSave(r) \/ UpdateNameTaken(r)

StartRequest(r) ==
    \E a \in Users :
       \/ \E u \in Users, g \in created : StartJoin(r, a, u, g) \/ StartLeave(r, a, u, g)
       \/ StartRandom(r, a)
       \/ StartCreate(r, a)
       \/ \E g \in created : StartDelete(r, a, g) \/ StartUpdate(r, a, g)

CloserStep == \E c \in closers : CloserCheck(c) \/ CloserLoad(c) \/ CloserSave(c)

CourseStep ==
    \/ \E u \in Users : JoinCourse(u) \/ LeaveCourse(u) \/ CreateMultipleGroups(u)
    \/ SetCourseClosed

Next ==
    \/ \E r \in Requests : StartRequest(r) \/ RequestStep(r)
    \/ CloserStep
    \/ CourseStep

Spec == Init /\ [][Next]_vars

\* What was begun is brought to an end: the event loop serves every callback.
Fairness ==
    /\ \A r \in Requests : WF_vars(RequestStep(r))
    /\ WF_vars(CloserStep)

FairSpec == Spec /\ Fairness

-----------------------------------------------------------------------------
(* Invariants *)

\* A user never has two relations in the course, however many requests add him
\* at once and however often he has left the course and come back.
OneGroupPerParticipant ==
    \A x, y \in rel : x.user = y.user => x = y

\* A relation refers to a group that exists and to the participant row the user
\* has now: no relation survives a deleted group or a participant who has left.
RelationsReferToLiveRows ==
    \A x \in rel : x.group \in groups /\ enrol[x.user] = x.pid

\* The requests that are about to add somebody to g.
Joining(g) ==
    {r \in Requests : req[r].pc \in {"lookup", "insert"} /\ req[r].group = g}

\* hasCapacity and tryGetJoinableGroup decide on a size that is out of date when
\* the relation is inserted.  Students alone exceed sizeMax, but by no more than
\* the requests that were let in together: Size + Joining stays below this.
Capacity == SizeMax - 1 + Cardinality(Requests)

CapacityBound ==
    Staff = {} /\ SizeMax > 0 =>
        \A g \in GroupIds : Size(g) + Cardinality(Joining(g)) <= Capacity

\* Where groups are not deleted and participants stay, the published events are
\* a ledger of the relations: joins minus leaves is membership.
Published(kind, u, g) ==
    Cardinality({i \in DOMAIN events : events[i] = [kind |-> kind, user |-> u, group |-> g]})

LedgerMatchesRelations ==
    Ops \cap {"delete", "quit"} = {} =>
        \A u \in Users, g \in GroupIds :
           Published("joined", u, g) - Published("left", u, g)
             = Cardinality({x \in rel : x.user = u /\ x.group = g})

\* The inductive strengthening.  A request past its checks refers to a group
\* that was once handed out, the relation it is about to insert has a real
\* participant id, and an entity that is about to be saved has all its columns.
RequestsConsistent ==
    \A r \in Requests :
       /\ req[r].pc \notin {"idle", "choose", "create"} => req[r].group \in created
       /\ req[r].pc = "insert" => req[r].pid # 0
       /\ req[r].pc = "save" =>
             req[r].closed \in {"yes", "no"} /\ req[r].locked \in {"yes", "no"}

ClosersConsistent ==
    \A c \in closers :
       /\ c.group \in created
       /\ c.pc = "save" => c.locked \in {"yes", "no"}

\* Ids of participant rows are not used twice.
ParticipantsUnique ==
    /\ \A u \in Users : enrol[u] < nextPid
    /\ \A u, v \in Users : enrol[u] = enrol[v] /\ enrol[u] # 0 => u = v

\* The unique index on participantId, and no relation of a participant row that
\* never was.
RelationsUnique ==
    /\ \A x \in rel : x.pid # 0
    /\ \A x, y \in rel : x.pid = y.pid => x = y

IndInv ==
    /\ TypeOK
    /\ ParticipantsUnique
    /\ RequestsConsistent
    /\ ClosersConsistent
    /\ RelationsReferToLiveRows
    /\ RelationsUnique

-----------------------------------------------------------------------------
(* What the groups promise: GroupMembership *)

GroupIn(R, u) ==
    IF \E x \in R : x.user = u THEN (CHOOSE x \in R : x.user = u).group ELSE NoGroup

GroupOf == [u \in Users |-> GroupIn(rel, u)]

Membership == INSTANCE GroupMembership WITH groupOf <- GroupOf

\* Whatever the interleaving, a step of the code moves one user into a group if
\* he has none, or out of his group, or dissolves one group.
ImplementsMembership == Membership!Spec

\* While groups are not reopened, a group that its last member has left does
\* not stay open and empty: the handler closes it unless somebody comes back.
LeftBehind(g) ==
    /\ g \in groups /\ Size(g) = 0
    /\ \E i \in DOMAIN events : events[i].kind = "left" /\ events[i].group = g

EmptiedGroupIsClosed ==
    \A g \in GroupIds :
       LeftBehind(g) ~> (g \in closed \/ g \notin groups \/ Size(g) > 0)

-----------------------------------------------------------------------------
(* What comments and code of the repository say, and what does not hold *)

\* UserJoinedGroupEvent is published if the user was added; otherwise the
\* request fails with "Failed to add user".
JoinedEventsAreTrue ==
    [][\A u \in Users, g \in GroupIds :
          Publish("joined", u, g) => \E x \in rel' : x.user = u /\ x.group = g]_vars
=============================================================================
