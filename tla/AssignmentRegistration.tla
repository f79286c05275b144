------------------------ MODULE AssignmentRegistration ------------------------
(***************************************************************************)
(* Which participants work on an assignment, and in which group: the rows  *)
(* of assignment_registration and group_registration_relation with their   *)
(* unique indexes and foreign keys, and every operation of                 *)
(* AssignmentRegistrationService on them, step by step between database    *)
(* calls.  Registrations are a copy of the groups at one moment: while it  *)
(* is made and afterwards, members move, leave the course, and groups are  *)
(* deleted (GroupMembership says what may happen to them).                 *)
(*                                                                         *)
(* All changing routes are for the teaching staff, which is not modelled.  *)
(***************************************************************************)
EXTENDS Integers, FiniteSets, Functions

CONSTANTS
    Users, GroupIds, NoGroup,
    Assignments,   \* assignments of the course that allow groups
    Requests,      \* slots of requests in flight at the same time
    Ops,           \* the operations that clients use
    Merging,       \* mergeGroupsOnAssignmentStarted
    MaxPid,        \* bound: how often users sign up to the course
    MaxRequests    \* bound: how many requests are made

AllOps == {"start", "all", "group", "member", "unUser", "unGroup", "unAll"}

ASSUME ConstantsAssumption ==
    /\ NoGroup \notin GroupIds
    /\ Ops \subseteq AllOps
    /\ Merging \in BOOLEAN
    /\ MaxPid \in Nat /\ MaxRequests \in Nat

VARIABLES
    enrol,       \* id of the user's participant row, 0: there is none
    nextPid,     \* next value of the participant id sequence
    memberOf,    \* the group of each user
    groups,      \* ids of the rows of table groups
    assignments, \* ids of the rows of table assignments
    reg,         \* rows of assignment_registration
    regRel,      \* rows of group_registration_relation
    nextId,      \* the next insert: rows of one insert share it in their ids
    req,         \* requests in flight
    event,       \* what the last step has published
    started      \* number of requests made so far (only to bound them)

vars == <<enrol, nextPid, memberOf, groups, assignments, reg, regRel, nextId,
          req, event, started>>

courseVars == <<enrol, nextPid, memberOf, groups, assignments>>
registrationVars == <<reg, regRel, nextId>>

-----------------------------------------------------------------------------
(* Data *)

Pid == 1 .. MaxPid

Registration == [id : Nat, assignment : Assignments, group : GroupIds]

\* assignmentRegistrationId is the row it refers to.
Relation == [id : Nat, registration : Registration, assignment : Assignments, pid : Pid]

Idle == [pc |-> "idle"]
NoEvent == [kind |-> "none"]

\* The groups to be registered and the ids of their members.
Partitions == UNION {[S -> SUBSET Pid] : S \in SUBSET GroupIds}

\* seen: the groups that a query has returned; found: the rows that a query of the
\* registrations has returned.
Request == [op : AllOps,
            pc : {"check", "load", "save", "find", "insert", "remove"},
            assignment : Assignments, group : GroupIds \cup {NoGroup},
            user : Users \cup {NoGroup}, pid : 0 .. MaxPid,
            seen : Partitions, found : SUBSET (Registration \cup Relation)]

NewRequest(op, pc, a, g, u) ==
    [op |-> op, pc |-> pc, assignment |-> a, group |-> g, user |-> u,
     pid |-> IF u \in Users THEN enrol[u] ELSE 0, seen |-> <<>>, found |-> {}]

TypeOK ==
    /\ enrol \in [Users -> 0 .. MaxPid]
    /\ nextPid \in 1 .. MaxPid + 1
    /\ groups \subseteq GroupIds
    /\ memberOf \in [Users -> groups \cup {NoGroup}]
    /\ assignments \subseteq Assignments
    /\ reg \subseteq Registration
    /\ regRel \subseteq Relation
    /\ nextId \in Nat
    /\ req \in [Requests -> {Idle} \cup Request]
    /\ started \in Nat

Current(pid) == \E u \in Users : enrol[u] = pid
Members(g) == {enrol[u] : u \in {v \in Users : memberOf[v] = g}}

HasRegistrations(a) == \E x \in reg : x.assignment = a
RegistrationsOf(a, g) == {x \in reg : x.assignment = a /\ x.group = g}

\* What the queries of the repository find for a user and an assignment.
RelationsOf(a, u) == {x \in regRel : x.registration.assignment = a /\ x.pid = enrol[u]}
RegisteredGroups(a, u) == {x.registration.group : x \in RelationsOf(a, u)}

-----------------------------------------------------------------------------
(* Inserting registrations: save with the cascade to the relations, one transaction *)

NewRegistrations(a, seen) ==
    {[id |-> nextId, assignment |-> a, group |-> g] : g \in DOMAIN seen}

NewRelations(a, seen) ==
    UNION {{[id |-> nextId, registration |-> x, assignment |-> a, pid |-> p] :
               p \in seen[x.group]} : x \in NewRegistrations(a, seen)}

GroupTaken(a, seen) == \E g \in DOMAIN seen : RegistrationsOf(a, g) # {}

\* Mutant: the index covers one insert only.
PidTakenInInsert(a, pid) ==
    \E x \in regRel : x.assignment = a /\ x.pid = pid /\ x.id = nextId

PidTaken(a, pid) == \E x \in regRel : x.assignment = a /\ x.pid = pid
ParentGone(a, seen) == a \notin assignments \/ ~(DOMAIN seen \subseteq groups)

\* The error of the first statement that fails: a unique index is looked at
\* while rows are inserted, foreign keys at the end of the statement.
SaveResult(a, seen) ==
    LET pids == UNION {seen[g] : g \in DOMAIN seen} IN
    CASE GroupTaken(a, seen) -> "unique"
      [] ~GroupTaken(a, seen) /\ ParentGone(a, seen) -> "foreign"
      [] OTHER -> IF \E p \in pids : PidTaken(a, p) THEN "unique"
                  ELSE IF \E p \in pids : ~Current(p) THEN "foreign" ELSE "ok"

Insert(a, seen) ==
    /\ reg' = reg \cup NewRegistrations(a, seen)
    /\ regRel' = regRel \cup NewRelations(a, seen)
    /\ nextId' = nextId + 1

-----------------------------------------------------------------------------
(* Requests: how they begin, go on and end *)

Begin(r, request) ==
    /\ req[r] = Idle
    /\ request.op \in Ops
    /\ started < MaxRequests
    /\ started' = started + 1
    /\ req' = [req EXCEPT ![r] = request]
    /\ event' = NoEvent
    /\ UNCHANGED <<courseVars, registrationVars>>

At(r, op, pc) == req[r].pc = pc /\ req[r].op \in op

Finish(r) == req' = [req EXCEPT ![r] = Idle]
Publish(kind, r) ==
    event' = [kind |-> kind, assignment |-> req[r].assignment,
              group |-> req[r].group, user |-> req[r].user]

GoOn(r, next) ==
    /\ req' = [req EXCEPT ![r] = next]
    /\ event' = NoEvent
    /\ UNCHANGED <<courseVars, registrationVars, started>>

\* The request ends without a change or an event.
Reject(r) == GoOn(r, Idle)

-----------------------------------------------------------------------------
(* Registering all groups: updateAssignment, or POST registrations *)

\* updateAssignment has saved that the assignment is in progress.
StartAssignment(r, a) ==
    /\ a \in assignments
    /\ Begin(r, NewRequest("start", "check", a, NoGroup, NoGroup))

\* _registerAllGroups; createAssignment also registers without looking.
StartRegisterAll(r, a) == Begin(r, NewRequest("all", "load", a, NoGroup, NoGroup))

CheckFirstStart(r) ==
    /\ At(r, {"start"}, "check")
    /\ IF HasRegistrations(req[r].assignment) THEN Reject(r)
                                              ELSE GoOn(r, [req[r] EXCEPT !.pc = "load"])

\* GroupMergeStrategy: groups are joined, members stay together (module GroupMerge).
Merged(seen) ==
    IF ~Merging THEN {seen}
    ELSE {[g \in Range(t) |-> UNION {seen[h] : h \in {k \in DOMAIN seen : t[k] = g}}] :
             t \in {f \in [DOMAIN seen -> DOMAIN seen] : \A g \in DOMAIN seen : f[f[g]] = f[g]}}

\* getGroupsOfCourse without the empty groups.
LoadGroups(r) ==
    LET seen == [g \in {h \in groups : Members(h) # {}} |-> Members(g)] IN
    /\ At(r, {"start", "all"}, "load")
    /\ \E merged \in Merged(seen) :
          GoOn(r, [req[r] EXCEPT !.pc = "save", !.seen = merged])

\* createRegistrations: all groups, nothing if there are none, or an exception.
SaveAll(r) ==
    LET a == req[r].assignment  seen == req[r].seen IN
    /\ At(r, {"start", "all"}, "save")
    /\ \/ /\ DOMAIN seen = {} \/ SaveResult(a, seen) = "ok"
          /\ Insert(a, seen)
          /\ Publish("RegistrationsCreated", r)
          /\ Finish(r)
          /\ UNCHANGED <<courseVars, started>>
       \/ /\ DOMAIN seen # {} /\ SaveResult(a, seen) # "ok"
          /\ Reject(r)

-----------------------------------------------------------------------------
(* registerGroup *)

StartRegisterGroup(r, a, g) == Begin(r, NewRequest("group", "load", a, g, NoGroup))

\* getGroupWithUsers, or EntityNotFound
LoadGroup(r) ==
    LET g == req[r].group IN
    /\ At(r, {"group"}, "load")
    /\ IF g \in groups
       THEN GoOn(r, [req[r] EXCEPT !.pc = "save", !.seen = [h \in {g} |-> Members(g)]])
       ELSE Reject(r)

\* Mutant: the catch swallows unique violations, too.
SaveGroupSwallowing(r) ==
    LET a == req[r].assignment  seen == req[r].seen IN
    /\ At(r, {"group"}, "save")
    /\ IF SaveResult(a, seen) = "ok" THEN Insert(a, seen) ELSE UNCHANGED registrationVars
    /\ Publish("GroupRegistered", r)
    /\ Finish(r)
    /\ UNCHANGED <<courseVars, started>>

\* createGroupRegistration: a conflict is reported, any other error swallowed; the
\* event is published even so.
SaveGroup(r) ==
    LET a == req[r].assignment  seen == req[r].seen IN
    /\ At(r, {"group"}, "save")
    /\ \/ SaveResult(a, seen) = "unique" /\ Reject(r)
       \/ /\ SaveResult(a, seen) # "unique"
          /\ IF SaveResult(a, seen) = "ok" THEN Insert(a, seen)
                                           ELSE UNCHANGED registrationVars
          /\ Publish("GroupRegistered", r)
          /\ Finish(r)
          /\ UNCHANGED <<courseVars, started>>

-----------------------------------------------------------------------------
(* registerUserToGroup *)

\* SelectedParticipantGuard has loaded the participant.
StartRegisterUser(r, a, g, u) ==
    /\ enrol[u] # 0
    /\ Begin(r, NewRequest("member", "check", a, g, u))

\* tryGetRegisteredGroupOfUser, or AlreadyInGroupException
CheckNotRegistered(r) ==
    LET q == req[r] IN
    /\ At(r, {"member"}, "check")
    /\ IF RegisteredGroups(q.assignment, q.user) # {}
       THEN Reject(r) ELSE GoOn(r, [q EXCEPT !.pc = "find"])

\* tryGetRegistration
FindRegistration(r) ==
    LET q == req[r] IN
    /\ At(r, {"member"}, "find")
    /\ GoOn(r, [q EXCEPT !.pc = "insert", !.found = RegistrationsOf(q.assignment, q.group)])

RelationFits(a, x, pid) == ~PidTaken(a, pid) /\ x \in reg /\ Current(pid)

AddRelation(a, x, pid) ==
    /\ regRel' = regRel \cup {[id |-> nextId, registration |-> x, assignment |-> a, pid |-> pid]}
    /\ nextId' = nextId + 1
    /\ UNCHANGED reg

\* createRegistration: a registration for the group, or a relation for the one that
\* was found.  Errors are not caught here.
InsertMember(r) ==
    LET q == req[r]
        seen == [h \in {q.group} |-> {q.pid}]
    IN
    /\ At(r, {"member"}, "insert")
    /\ \/ /\ \/ /\ q.found = {} /\ SaveResult(q.assignment, seen) = "ok"
                /\ Insert(q.assignment, seen)
             \/ \E x \in q.found : /\ RelationFits(q.assignment, x, q.pid)
                                   /\ AddRelation(q.assignment, x, q.pid)
          /\ Publish("UserRegistered", r)
          /\ Finish(r)
          /\ UNCHANGED <<courseVars, started>>
       \/ /\ \/ q.found = {} /\ SaveResult(q.assignment, seen) # "ok"
             \/ \E x \in q.found : ~RelationFits(q.assignment, x, q.pid)
          /\ Reject(r)

-----------------------------------------------------------------------------
(* unregisterUser, unregisterGroup, removeAllRegistrations *)

StartUnregisterUser(r, a, u) == Begin(r, NewRequest("unUser", "find", a, NoGroup, u))
StartUnregisterGroup(r, a, g) == Begin(r, NewRequest("unGroup", "find", a, g, NoGroup))
StartUnregisterAll(r, a) == Begin(r, NewRequest("unAll", "remove", a, NoGroup, NoGroup))

FindRows(r) ==
    LET q == req[r]
        found == IF q.op = "unUser" THEN RelationsOf(q.assignment, q.user)
                                    ELSE RegistrationsOf(q.assignment, q.group)
    IN
    /\ At(r, {"unUser", "unGroup"}, "find")
    /\ IF found = {} THEN Reject(r)
                     ELSE GoOn(r, [q EXCEPT !.pc = "remove", !.found = found])

\* remove by the ids that were found: rows that have gone are no error.  The
\* registration of a group stays when its last member is unregistered.
RemoveUser(r) ==
    /\ At(r, {"unUser"}, "remove")
    /\ regRel' = regRel \ req[r].found
    /\ Publish("UserUnregistered", r)
    /\ Finish(r)
    /\ UNCHANGED <<courseVars, reg, nextId, started>>

\* Mutant: the relations of a removed registration stay.
DropRegistrationsAlone(gone) == reg' = reg \ gone /\ UNCHANGED <<regRel, nextId>>

\* The foreign key of the relations cascades.
DropRegistrations(gone) ==
    /\ reg' = reg \ gone
    /\ regRel' = {x \in regRel : x.registration \notin gone}
    /\ UNCHANGED nextId

RemoveGroup(r) ==
    /\ At(r, {"unGroup"}, "remove")
    /\ DropRegistrations(req[r].found)
    /\ Publish("GroupUnregistered", r)
    /\ Finish(r)
    /\ UNCHANGED <<courseVars, started>>

RemoveAll(r) ==
    /\ At(r, {"unAll"}, "remove")
    /\ DropRegistrations({x \in reg : x.assignment = req[r].assignment})
    /\ Publish("RegistrationsRemoved", r)
    /\ Finish(r)
    /\ UNCHANGED <<courseVars, started>>

-----------------------------------------------------------------------------
(* What happens around the registrations *)

JoinCourse(u) ==
    /\ enrol[u] = 0 /\ nextPid <= MaxPid
    /\ enrol' = [enrol EXCEPT ![u] = nextPid]
    /\ nextPid' = nextPid + 1
    /\ event' = NoEvent
    /\ UNCHANGED <<memberOf, groups, assignments, registrationVars, req, started>>

\* The participant's relations go with him, here and in his group.
LeaveCourse(u) ==
    /\ enrol[u] # 0
    /\ enrol' = [enrol EXCEPT ![u] = 0]
    /\ memberOf' = [memberOf EXCEPT ![u] = NoGroup]
    /\ regRel' = {x \in regRel : x.pid # enrol[u]}
    /\ event' = NoEvent
    /\ UNCHANGED <<nextPid, groups, assignments, reg, nextId, req, started>>

\* Mutant: the registrations follow a member into his new group.
JoinGroupWithRegistrations(u, g) ==
    /\ enrol[u] # 0 /\ memberOf[u] = NoGroup /\ g \in groups
    /\ memberOf' = [memberOf EXCEPT ![u] = g]
    /\ regRel' = {IF x.pid = enrol[u] THEN [x EXCEPT !.registration.group = g] ELSE x : x \in regRel}
    /\ event' = NoEvent
    /\ UNCHANGED <<enrol, nextPid, groups, assignments, reg, nextId, req, started>>

JoinGroup(u, g) ==
    /\ enrol[u] # 0 /\ memberOf[u] = NoGroup /\ g \in groups
    /\ memberOf' = [memberOf EXCEPT ![u] = g]
    /\ event' = NoEvent
    /\ UNCHANGED <<enrol, nextPid, groups, assignments, registrationVars, req, started>>

LeaveGroup(u) ==
    /\ memberOf[u] # NoGroup
    /\ memberOf' = [memberOf EXCEPT ![u] = NoGroup]
    /\ event' = NoEvent
    /\ UNCHANGED <<enrol, nextPid, groups, assignments, registrationVars, req, started>>

\* Mutant: the members of a deleted group keep it.
DeleteGroupKeepingMembers(g) ==
    /\ g \in groups
    /\ groups' = groups \ {g}
    /\ DropRegistrations({x \in reg : x.group = g})
    /\ event' = NoEvent
    /\ UNCHANGED <<enrol, nextPid, memberOf, assignments, req, started>>

\* Registrations refer to the group and go with it.
DeleteGroup(g) ==
    /\ g \in groups
    /\ groups' = groups \ {g}
    /\ memberOf' = [u \in Users |-> IF memberOf[u] = g THEN NoGroup ELSE memberOf[u]]
    /\ DropRegistrations({x \in reg : x.group = g})
    /\ event' = NoEvent
    /\ UNCHANGED <<enrol, nextPid, assignments, req, started>>

DeleteAssignment(a) ==
    /\ a \in assignments
    /\ assignments' = assignments \ {a}
    /\ DropRegistrations({x \in reg : x.assignment = a})
    /\ event' = NoEvent
    /\ UNCHANGED <<enrol, nextPid, memberOf, groups, req, started>>

\* The process ends: requests are lost between two of their steps.
Crash ==
    /\ \E r \in Requests : req[r] # Idle
    /\ req' = [r \in Requests |-> Idle]
    /\ event' = NoEvent
    /\ UNCHANGED <<courseVars, registrationVars, started>>

-----------------------------------------------------------------------------
Init ==
    /\ enrol = [u \in Users |-> 0] /\ nextPid = 1
    /\ memberOf = [u \in Users |-> NoGroup]
    /\ groups = GroupIds /\ assignments = Assignments
    /\ reg = {} /\ regRel = {} /\ nextId = 0
    /\ req = [r \in Requests |-> Idle]
    /\ event = NoEvent
    /\ started = 0

Start(r) ==
    \E a \in Assignments :
       \/ StartAssignment(r, a) \/ StartRegisterAll(r, a) \/ StartUnregisterAll(r, a)
       \/ \E g \in GroupIds : StartRegisterGroup(r, a, g) \/ StartUnregisterGroup(r, a, g)
       \/ \E u \in Users : StartUnregisterUser(r, a, u)
       \/ \E g \in GroupIds, u \in Users : StartRegisterUser(r, a, g, u)

RequestStep(r) ==
    \/ CheckFirstStart(r) \/ LoadGroups(r) \/ SaveAll(r)
    \/ LoadGroup(r) \/ SaveGroup(r)
    \/ CheckNotRegistered(r) \/ FindRegistration(r) \/ InsertMember(r)
    \/ FindRows(r) \/ RemoveUser(r) \/ RemoveGroup(r) \/ RemoveAll(r)

CourseStep ==
    \/ \E u \in Users : JoinCourse(u) \/ LeaveCourse(u) \/ LeaveGroup(u)
    \/ \E u \in Users, g \in GroupIds : JoinGroup(u, g)
    \/ \E g \in GroupIds : DeleteGroup(g)
    \/ \E a \in Assignments : DeleteAssignment(a)

Next == (\E r \in Requests : Start(r) \/ RequestStep(r)) \/ CourseStep \/ Crash

Spec == Init /\ [][Next]_vars

-----------------------------------------------------------------------------
(* Properties *)

\* Whatever requests race, leave and rejoin the course or fail half way: nobody is
\* registered for an assignment with two groups, no group twice, and the queries
\* find one group at most (tryGetRegisteredGroupOfUser takes the first).
RegisteredOnce ==
    /\ \A a \in Assignments, u \in Users :
          enrol[u] # 0 => Cardinality(RelationsOf(a, u)) <= 1
    /\ \A a \in Assignments, g \in GroupIds : Cardinality(RegistrationsOf(a, g)) <= 1

\* Nothing is left behind: registrations belong to existing assignments and groups,
\* relations to a registration of the same assignment and to a current participant.
RegistrationsReferToLiveRows ==
    /\ \A x \in reg : x.assignment \in assignments /\ x.group \in groups
    /\ \A x \in regRel : /\ x.registration \in reg
                         /\ x.assignment = x.registration.assignment
                         /\ Current(x.pid)

\* Nobody is moved from one registered group to another: he has to be unregistered
\* in between.
NoSilentSwitch ==
    [][\A a \in Assignments, u \in Users :
          RegisteredGroups(a, u) # {} /\ RegisteredGroups(a, u)' # {}
             => RegisteredGroups(a, u)' = RegisteredGroups(a, u)]_vars

\* RegistrationsCreated and UserRegistered tell the truth about everybody they
\* include; GroupRegistered does unless a row it needs was deleted since it was read.
RegisteredEventsAreTrue ==
    [][\A r \in Requests :
          LET q == req[r]
              Registered(g, pid) == \E x \in regRel' :
                  x.pid = pid /\ x.registration \in reg' /\
                  x.registration.assignment = q.assignment /\ x.registration.group = g
              AllRegistered == \A g \in DOMAIN q.seen : \A pid \in q.seen[g] : Registered(g, pid)
              Lost == ParentGone(q.assignment, q.seen) \/
                      \E pid \in UNION Range(q.seen) : ~Current(pid)
          IN req[r] # Idle /\ req'[r] = Idle =>
             /\ event'.kind = "RegistrationsCreated" => AllRegistered
             /\ event'.kind = "UserRegistered" => Registered(q.group, q.pid)
             /\ event'.kind = "GroupRegistered" => AllRegistered \/ Lost]_vars

-----------------------------------------------------------------------------
(* The inductive strengthening *)

\* Ids of participant rows are not used twice, and members take part in the course.
ParticipantsConsistent ==
    /\ \A u \in Users : enrol[u] < nextPid
    /\ \A u, v \in Users : enrol[u] = enrol[v] /\ enrol[u] # 0 => u = v
    /\ \A u \in Users : memberOf[u] # NoGroup => enrol[u] # 0

\* The unique indexes of both tables.
RowsUnique ==
    /\ \A x, y \in reg : x.assignment = y.assignment /\ x.group = y.group => x = y
    /\ \A x, y \in regRel : x.assignment = y.assignment /\ x.pid = y.pid => x = y

\* What a handler carries from one step to the next: nobody is a member of two of
\* the groups it has read, and the registration it has found is that of its group.
Consistent(q) ==
    /\ q.op \in {"group", "member", "unGroup"} => q.group \in GroupIds
    /\ q.op = "member" =>
          q.pid \in Pid /\ q.found \subseteq {x \in Registration :
                                x.assignment = q.assignment /\ x.group = q.group}
    /\ \A g, h \in DOMAIN q.seen : g # h => q.seen[g] \cap q.seen[h] = {}

RequestsConsistent == \A r \in Requests : req[r] # Idle => Consistent(req[r])

IndInv ==
    /\ TypeOK
    /\ ParticipantsConsistent
    /\ RequestsConsistent
    /\ RowsUnique
    /\ RegistrationsReferToLiveRows
=============================================================================
