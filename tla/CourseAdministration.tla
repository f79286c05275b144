------------------------- MODULE CourseAdministration -------------------------
(***************************************************************************)
(* One course, its configuration and its participants: the tables courses, *)
(* course_config, group_settings, admission_criteria,                      *)
(* admission_from_previous_semester, assignment_template and participant,  *)
(* and the operations of CourseService, CourseConfigService and            *)
(* CourseParticipantsService on them, step by step between database calls. *)
(*                                                                         *)
(* Columns are left out except the ones that decide something: isClosed,   *)
(* the password, roles, and two columns of the group settings.  What goes  *)
(* with a participant into groups and assignments is in CourseGroups and   *)
(* AssignmentRegistration.                                                 *)
(***************************************************************************)
EXTENDS Integers, FiniteSets

CONSTANTS
    Users, Lecturer,        \* the users of the system, and the lecturer of the course
    Password, NoPassword,   \* the password of the course, or none
    Requests, Ops,          \* slots of requests in flight, operations in use
    MaxRequests,            \* bound: how many requests are made
    MaxId                   \* bound: how many rows get an id

ASSUME AdministrationAssumption ==
    /\ Lecturer \in Users /\ Password # NoPassword
    /\ MaxRequests \in Nat /\ MaxId \in Nat \ {0}

VARIABLES
    course,       \* "none", or whether it is open or closed
    configs,      \* rows of course_config
    settings,     \* rows of group_settings
    parts,        \* rows of the other tables that refer to a config
    participants, \* rows of participant
    nextId,       \* the next insert: all rows it writes get this id
    req, started,
    welcome,      \* history: the join could have been let in since it began
    overlapped    \* history: requests whose settings another one has changed

tables == <<course, configs, settings, parts, participants, nextId>>
history == <<welcome, overlapped>>
vars == <<tables, req, started, history>>

-----------------------------------------------------------------------------
(* Data *)

Id == 1 .. MaxId
Passwords == {Password, NoPassword}
Config == [id : Id, password : Passwords]
Columns == [size : {1, 2}, selfmanaged : BOOLEAN]
Settings == [id : Id, config : Id, columns : Columns]
Part == [id : Id, config : Id, kind : {"criteria", "previous", "template"}]
Participant == [id : Id, user : Users, role : {"student", "lecturer"}]

Idle == [op |-> "none", pc |-> "idle"]

\* The columns that a client sends of the group settings.
Patch == [{"size"} -> {1, 2}] \cup [{"selfmanaged"} -> BOOLEAN]

\* Requests in flight: what the client has sent, and the row that was loaded.
Request ==
    [op : {"createCourse"}, pc : {"write"}, isClosed : {"open", "closed"}, password : Passwords,
         complete : BOOLEAN, kinds : {{}, {"criteria", "template"}},
         lecturers : {{}, {Lecturer}}]
    \cup [op : {"updateCourse"}, pc : {"load", "save"},
         isClosed : {"open", "closed", "undefined"}]
    \cup [op : {"deleteCourse", "removeConfig"}, pc : {"write"}]
    \cup [op : {"createConfig"}, pc : {"write"}, password : Passwords,
         complete : BOOLEAN, kinds : {{}, {"criteria", "template"}}]
    \cup [op : {"updateConfig"}, pc : {"write"}, password : Passwords]
    \cup [op : {"createPart"}, pc : {"write"}, kind : {"criteria", "template"}, config : Id]
    \cup [op : {"removeTemplate"}, pc : {"write"}, id : Id]
    \cup [op : {"updateCriteria", "removeCriteria"}, pc : {"load"}]
    \cup [op : {"updateCriteria", "removeCriteria"}, pc : {"save"}, row : Part]
    \cup [op : {"setPrevious"}, pc : {"read"}, config : 0 .. MaxId, existing : -1 .. MaxId]
    \cup [op : {"updateSettings"}, pc : {"load"}, patch : Patch]
    \cup [op : {"updateSettings"}, pc : {"save"}, row : Settings, patch : Patch]
    \cup [op : {"updateRole"}, pc : {"load"}, user : Users, role : {"student", "lecturer"}]
    \cup [op : {"removeUser"}, pc : {"load"}, user : Users]
    \cup [op : {"updateRole", "removeUser"}, pc : {"save"}, row : Participant]
    \cup [op : {"join"}, pc : {"load", "insert"}, user : Users, password : Passwords]

\* The relation of config, settings, criteria and previous to their parent is one to one.
TablesOK ==
    /\ course \in {"none", "open", "closed"}
    /\ configs \subseteq Config /\ Cardinality(configs) <= 1
    /\ settings \subseteq Settings /\ parts \subseteq Part
    /\ \A x \in settings \cup parts : \E c \in configs : c.id = x.config
    /\ \A x, y \in settings : x.config = y.config => x = y
    /\ \A x, y \in parts : x.config = y.config /\ x.kind = y.kind /\ x.kind # "template" => x = y
    /\ participants \subseteq Participant
    /\ \A x, y \in participants : x.user = y.user \/ x.id = y.id => x = y
    /\ course = "none" => configs = {} /\ participants = {}
    /\ nextId \in 1 .. MaxId + 1

TypeOK ==
    /\ TablesOK
    /\ req \in [Requests -> {Idle} \cup Request]
    /\ welcome \in [Requests -> BOOLEAN] /\ overlapped \subseteq Requests

RowOf(u) == {x \in participants : x.user = u}
IsMember(u) == RowOf(u) # {}
IsStaff(u) == \E x \in RowOf(u) : x.role = "lecturer"
PartsOf(c, kind) == {x \in parts : x.config = c.id /\ x.kind = kind}

ConfigLives(id) == \E c \in configs : c.id = id

-----------------------------------------------------------------------------
(* Requests *)

\* What the controllers of the staff offer; updateAssignmentTemplate only writes columns.
StaffRequests ==
    [op : {"updateCourse"}, pc : {"load"}, isClosed : {"open", "closed", "undefined"}]
    \cup [op : {"deleteCourse", "removeConfig"}, pc : {"write"}]
    \cup [op : {"createConfig"}, pc : {"write"}, password : Passwords,
         complete : BOOLEAN, kinds : {{}, {"criteria", "template"}}]
    \cup [op : {"updateConfig"}, pc : {"write"}, password : Passwords]
    \cup [op : {"createPart"}, pc : {"write"}, kind : {"criteria", "template"},
          config : {c.id : c \in configs}]
    \cup [op : {"removeTemplate"}, pc : {"write"}, id : {x.id : x \in parts}]
    \cup [op : {"updateCriteria", "removeCriteria"}, pc : {"load"}]
    \cup [op : {"setPrevious"}, pc : {"read"}, config : {0}, existing : {-1}]
    \cup [op : {"updateSettings"}, pc : {"load"},
          patch : Patch]
    \cup [op : {"updateRole"}, pc : {"load"}, user : Users, role : {"student", "lecturer"}]

Begin(r, q) ==
    /\ req[r] = Idle /\ q.op \in Ops
    /\ started < MaxRequests /\ started' = started + 1
    /\ req' = [req EXCEPT ![r] = q]
    /\ overlapped' = overlapped \ {r}
    /\ UNCHANGED <<tables>>

\* CourseMemberGuard and TeachingStaffGuard have read the participant of the user.
StartByStaff(r, u) == IsStaff(u) /\ \E q \in StaffRequests : Begin(r, q)

\* ParticipantIdentityGuard: the staff may remove anyone, a student himself.
StartRemoveUser(r, by, u) ==
    /\ IsMember(by) /\ (IsStaff(by) \/ by = u)
    /\ Begin(r, [op |-> "removeUser", pc |-> "load", user |-> u])

StartJoin(r, u, password) ==
    Begin(r, [op |-> "join", pc |-> "load", user |-> u, password |-> password])

\* Administrators create courses: RoleGuard.
StartCreateCourse(r, isClosed, password, complete, kinds, lecturers) ==
    Begin(r, [op |-> "createCourse", pc |-> "write", isClosed |-> isClosed,
              password |-> password, complete |-> complete, kinds |-> kinds,
              lecturers |-> lecturers])

At(r, op, pc) == req[r].op = op /\ req[r].pc = pc
Advance(r, next) == req' = [req EXCEPT ![r] = next] /\ UNCHANGED started
GoOn(r, next) == Advance(r, next) /\ UNCHANGED <<tables, overlapped>>
Finish(r) == Advance(r, Idle)
NoChange(r) == GoOn(r, Idle)  \* refused, failed, or nothing to write

-----------------------------------------------------------------------------
(* Courses *)

NewId == nextId <= MaxId /\ nextId' = nextId + 1

\* The rows that saving a config inserts with its cascades.
NewSettings(q) ==
    {[id |-> nextId, config |-> nextId, columns |-> [size |-> 1, selfmanaged |-> FALSE]] :
        x \in {TRUE} \cap {q.complete}}
NewParts(q) == [id : {nextId}, config : {nextId}, kind : q.kinds]

InsertConfig(q) ==
    /\ NewId
    /\ configs' = configs \cup {[id |-> nextId, password |-> q.password]}
    /\ settings' = settings \cup NewSettings(q)
    /\ parts' = parts \cup NewParts(q)

\* A course without config or group settings is refused.  The id of a course is
\* given by the client: saving a course that exists updates it,
\* and fails if it has a config or participants to be replaced.
CreateCourse(r) ==
    LET q == req[r] IN
    /\ At(r, "createCourse", "write")
    /\ \/ /\ q.complete /\ configs = {} /\ (q.lecturers = {} \/ participants = {})
          /\ course' = q.isClosed
          /\ InsertConfig(q)
          /\ participants' = participants \cup
                 {[id |-> nextId, user |-> u, role |-> "lecturer"] : u \in q.lecturers}
          /\ Finish(r)
          /\ UNCHANGED overlapped
       \/ /\ ~(q.complete /\ configs = {} /\ (q.lecturers = {} \/ participants = {}))
          /\ NoChange(r)

LoadCourse(r) ==
    /\ At(r, "updateCourse", "load")
    /\ IF course = "none" THEN NoChange(r) ELSE GoOn(r, [req[r] EXCEPT !.pc = "save"])

\* save leaves out an undefined column; it inserts the course again if it is
\* gone, which isClosed must not be undefined for.
SaveCourse(r) ==
    LET q == req[r] IN
    /\ At(r, "updateCourse", "save")
    /\ IF q.isClosed = "undefined"
       THEN UNCHANGED course
       ELSE course' = q.isClosed
    /\ Finish(r)
    /\ UNCHANGED <<configs, settings, parts, participants, nextId, overlapped>>

DeleteCourse(r) ==
    /\ At(r, "deleteCourse", "write")
    /\ course' = "none"
    /\ configs' = {} /\ settings' = {} /\ parts' = {} /\ participants' = {}
    /\ Finish(r)
    /\ UNCHANGED <<nextId, overlapped>>

-----------------------------------------------------------------------------
(* The config and its parts *)

CreateConfig(r) ==
    /\ At(r, "createConfig", "write")
    /\ \/ /\ course # "none" /\ configs = {}
          /\ InsertConfig(req[r])
          /\ Finish(r)
          /\ UNCHANGED <<course, participants, overlapped>>
       \/ (course = "none" \/ configs # {}) /\ NoChange(r)

\* The password is written for any config; without one, nothing is found afterwards.
UpdateConfig(r) ==
    /\ At(r, "updateConfig", "write")
    /\ configs' = {[c EXCEPT !.password = req[r].password] : c \in configs}
    /\ Finish(r)
    /\ UNCHANGED <<course, settings, parts, participants, nextId, overlapped>>

RemoveConfig(r) ==
    /\ At(r, "removeConfig", "write")
    /\ configs' = {} /\ settings' = {} /\ parts' = {}
    /\ Finish(r)
    /\ UNCHANGED <<course, participants, nextId, overlapped>>

\* Mutant: only a part of the same id is in the way.
FitsById(x) == ConfigLives(x.config) /\ \A y \in parts : y.kind = x.kind => y.id # x.id

\* The foreign key, and the unique index of the one-to-one relations.
Fits(x) ==
    /\ ConfigLives(x.config)
    /\ x.kind # "template" => {y \in parts : y.config = x.config /\ y.kind = x.kind} = {}

\* createAdmissionCriteria, createAssignmentTemplate: the client names the config.
CreatePart(r) ==
    LET q == req[r]
        new == [id |-> nextId, config |-> q.config, kind |-> q.kind] IN
    /\ At(r, "createPart", "write")
    /\ \/ /\ Fits(new) /\ NewId
          /\ parts' = parts \cup {new}
          /\ Finish(r)
          /\ UNCHANGED <<course, configs, settings, participants, overlapped>>
       \/ ~Fits(new) /\ NoChange(r)

RemoveTemplate(r) ==
    /\ At(r, "removeTemplate", "write")
    /\ parts' = {x \in parts : x.kind # "template" \/ x.id # req[r].id}
    /\ Finish(r)
    /\ UNCHANGED <<course, configs, settings, participants, nextId, overlapped>>

LoadCriteria(r) ==
    /\ \E op \in {"updateCriteria", "removeCriteria"} : At(r, op, "load")
    /\ \/ \E c \in configs : \E x \in PartsOf(c, "criteria") :
             GoOn(r, [op |-> req[r].op, pc |-> "save", row |-> x])
       \/ {x \in parts : x.kind = "criteria"} = {} /\ NoChange(r)

\* A row that is there is updated; one that is gone is inserted again.
SavePart(r, x) ==
    \/ x \in parts /\ NoChange(r)
    \/ /\ x \notin parts /\ Fits(x)
       /\ parts' = parts \cup {x}
       /\ Finish(r)
       /\ UNCHANGED <<course, configs, settings, participants, nextId, overlapped>>
    \/ x \notin parts /\ ~Fits(x) /\ NoChange(r)

SaveCriteria(r) == At(r, "updateCriteria", "save") /\ SavePart(r, req[r].row)

RemoveCriteria(r) ==
    /\ At(r, "removeCriteria", "save")
    /\ parts' = parts \ {req[r].row}
    /\ Finish(r)
    /\ UNCHANGED <<course, configs, settings, participants, nextId, overlapped>>

\* setAdmissionFromPreviousSemester reads the config and the existing row in parallel.
ReadConfig(r) ==
    LET q == req[r] IN
    /\ At(r, "setPrevious", "read") /\ q.config = 0
    /\ \/ \E c \in configs : GoOn(r, [q EXCEPT !.config = c.id])
       \/ configs = {} /\ NoChange(r)

ReadExisting(r) ==
    LET q == req[r]
        found == {x.id : x \in {y \in parts : y.kind = "previous"}} IN
    /\ At(r, "setPrevious", "read") /\ q.existing = -1
    /\ \/ \E id \in found : GoOn(r, [q EXCEPT !.existing = id])
       \/ found = {} /\ GoOn(r, [q EXCEPT !.existing = 0])

SavePrevious(r) ==
    LET q == req[r]
        row(id) == [id |-> id, config |-> q.config, kind |-> "previous"] IN
    /\ At(r, "setPrevious", "read") /\ q.config # 0 /\ q.existing # -1
    /\ \/ q.existing # 0 /\ SavePart(r, row(q.existing))
       \/ /\ q.existing = 0 /\ Fits(row(nextId)) /\ NewId
          /\ parts' = parts \cup {row(nextId)}
          /\ Finish(r)
          /\ UNCHANGED <<course, configs, settings, participants, overlapped>>
       \/ q.existing = 0 /\ ~Fits(row(nextId)) /\ NoChange(r)

LoadSettings(r) ==
    /\ At(r, "updateSettings", "load")
    /\ \/ \E x \in settings :
             GoOn(r, [op |-> "updateSettings", pc |-> "save", row |-> x, patch |-> req[r].patch])
       \/ settings = {} /\ NoChange(r)

\* Mutant: what the client leaves out gets its default.
PatchedDefaults(columns, patch) ==
    [k \in DOMAIN columns |-> IF k \in DOMAIN patch THEN patch[k]
                              ELSE IF k = "size" THEN 1 ELSE FALSE]

\* create({ ...settings, ...partial })
Patched(columns, patch) ==
    [k \in DOMAIN columns |-> IF k \in DOMAIN patch THEN patch[k] ELSE columns[k]]

\* save writes every column of the row that was loaded; a row that is gone
\* cannot be inserted again, as its config is gone with it.
SaveSettings(r) ==
    LET q == req[r]
        changed == [q.row EXCEPT !.columns = Patched(@, q.patch)] IN
    /\ At(r, "updateSettings", "save")
    /\ settings' = {IF x.id = q.row.id THEN changed ELSE x : x \in settings}
    /\ overlapped' = overlapped \cup
           {s \in Requests \ {r} : At(s, "updateSettings", "save") /\ settings' # settings}
    /\ Finish(r)
    /\ UNCHANGED <<course, configs, parts, participants, nextId>>

-----------------------------------------------------------------------------
(* Participants *)

PasswordFits(c, password) == c.password = NoPassword \/ c.password = password

\* Mutant: the password is compared the wrong way round.
AdmitsAnyPassword(status, config, password) == status = "open" /\ \E c \in config : TRUE

\* addParticipant: a course without config ends in a TypeError.
Admits(status, config, password) ==
    status = "open" /\ \E c \in config : PasswordFits(c, password)

LoadForJoin(r) ==
    /\ At(r, "join", "load")
    /\ IF Admits(course, configs, req[r].password)
       THEN GoOn(r, [req[r] EXCEPT !.pc = "insert"])
       ELSE NoChange(r)

\* A user who is a member already is a conflict; without the course, the
\* foreign key fails and the participant is not found afterwards.
CanInsert(u) == course # "none" /\ ~IsMember(u)

InsertParticipant(r) ==
    LET u == req[r].user IN
    /\ At(r, "join", "insert")
    /\ \/ /\ CanInsert(u) /\ NewId
          /\ participants' = participants \cup {[id |-> nextId, user |-> u, role |-> "student"]}
          /\ Finish(r)
          /\ UNCHANGED <<course, configs, settings, parts, overlapped>>
       \/ ~CanInsert(u) /\ NoChange(r)

\* removeUser, updateRole: findOneOrFail
FindParticipant(r) ==
    LET q == req[r] IN
    /\ \E op \in {"removeUser", "updateRole"} : At(r, op, "load")
    /\ \/ \E x \in RowOf(q.user) :
             GoOn(r, [op |-> q.op, pc |-> "save",
                      row |-> IF q.op = "updateRole" THEN [x EXCEPT !.role = q.role] ELSE x])
       \/ ~IsMember(q.user) /\ NoChange(r)

RemoveUser(r) ==
    /\ At(r, "removeUser", "save")
    /\ participants' = {x \in participants : x.id # req[r].row.id}
    /\ Finish(r)
    /\ UNCHANGED <<course, configs, settings, parts, nextId, overlapped>>

\* A row that was removed meanwhile is inserted again with its id, unless the
\* course is gone or the user has a new one.
RoleFits(x) == course # "none" /\ \A y \in RowOf(x.user) : y.id = x.id

SaveRole(r) ==
    LET x == req[r].row IN
    /\ At(r, "updateRole", "save")
    /\ \/ /\ RoleFits(x)
          /\ participants' = {y \in participants : y.id # x.id} \cup {x}
          /\ Finish(r)
          /\ UNCHANGED <<course, configs, settings, parts, nextId, overlapped>>
       \/ ~RoleFits(x) /\ NoChange(r)

\* Mutant: the query does not look at isClosed.
CanJoinOpenOrClosed(u) == course # "none" /\ configs # {} /\ ~IsMember(u)

\* CanJoinCourseHandler: the config is joined inner.
CanJoin(u) == course # "none" /\ configs # {} /\ ~IsMember(u) /\ course # "closed"

-----------------------------------------------------------------------------
(* Specification *)

\* The course has just been created with group settings and its lecturer.
Init ==
    /\ course = "open"
    /\ \E p \in Passwords : configs = {[id |-> 1, password |-> p]}
    /\ settings = {[id |-> 1, config |-> 1, columns |-> [size |-> 1, selfmanaged |-> FALSE]]}
    /\ parts = {}
    /\ participants = {[id |-> 1, user |-> Lecturer, role |-> "lecturer"]}
    /\ nextId = 2
    /\ req = [r \in Requests |-> Idle]
    /\ started = 0
    /\ welcome = [r \in Requests |-> FALSE]
    /\ overlapped = {}

Start(r) ==
    \/ \E u \in Users : StartByStaff(r, u)
    \/ \E by, u \in Users : StartRemoveUser(r, by, u)
    \/ \E u \in Users, p \in Passwords : StartJoin(r, u, p)
    \/ \E s \in {"open", "closed"}, p \in Passwords, complete \in BOOLEAN,
          kinds \in {{}, {"criteria", "template"}}, lecturers \in {{}, {Lecturer}} :
             StartCreateCourse(r, s, p, complete, kinds, lecturers)

Course(r) == CreateCourse(r) \/ LoadCourse(r) \/ SaveCourse(r) \/ DeleteCourse(r)
CourseConfig(r) ==
    \/ CreateConfig(r) \/ UpdateConfig(r) \/ RemoveConfig(r)
    \/ CreatePart(r) \/ RemoveTemplate(r)
    \/ LoadCriteria(r) \/ SaveCriteria(r) \/ RemoveCriteria(r)
    \/ ReadConfig(r) \/ ReadExisting(r) \/ SavePrevious(r)
    \/ LoadSettings(r) \/ SaveSettings(r)
CourseParticipants(r) ==
    \/ LoadForJoin(r) \/ InsertParticipant(r)
    \/ FindParticipant(r) \/ RemoveUser(r) \/ SaveRole(r)

\* A join is welcome from the moment at which the course would let it in.
Welcome ==
    welcome' = [r \in Requests |->
        /\ req'[r].op = "join"
        /\ welcome[r] \/ (course' = "open" /\ \E c \in configs' : PasswordFits(c, req'[r].password))]

Next ==
    /\ \E r \in Requests : Start(r) \/ Course(r) \/ CourseConfig(r) \/ CourseParticipants(r)
    /\ Welcome

Spec == Init /\ [][Next]_vars

-----------------------------------------------------------------------------
(* Properties *)

\* The query says that a user can join exactly if a join with the right
\* password, made alone, lets him in ("A user can join a course, if he's not
\* already a member and the course is not closed").
CanJoinTellsTheTruth ==
    \A u \in Users :
        CanJoin(u) <=> CanInsert(u) /\ \E p \in Passwords : Admits(course, configs, p)

\* A user becomes a participant only by a join for him - which anybody who is
\* logged in may send - that the course would have let in at some moment since
\* it began, as lecturer of a new course, or because a change of his role has
\* overtaken his removal: then the old row comes back.
NobodyEntersUnasked ==
    [][\A x \in participants' : x.id \notin {y.id : y \in participants} =>
          \/ x.id < nextId /\ \E r \in Requests :
                At(r, "updateRole", "save") /\ req[r].row = x
          \/ \E r \in Requests : At(r, "join", "insert") /\ req[r].user = x.user /\ welcome[r]
          \/ \E r \in Requests : At(r, "createCourse", "write") /\ x.user \in req[r].lecturers]_vars

\* A change of the group settings that no other one has overlapped leaves every
\* column alone that the client has not sent.
SettingsKeepOtherChanges ==
    [][\A r \in Requests : At(r, "updateSettings", "save") /\ req'[r] = Idle /\ r \notin overlapped =>
          \A x \in settings, y \in settings' : x.id = y.id =>
              \A k \in DOMAIN x.columns \ DOMAIN req[r].patch : x.columns[k] = y.columns[k]]_vars

-----------------------------------------------------------------------------
(* The inductive strengthening *)

\* Ids of participants and settings are not used twice.
IdsAreFresh == \A x \in participants \cup settings : x.id < nextId

OneConfig == \A c, d \in configs : c = d

\* A join past its check is welcome, a loaded row has had its id for good, and settings
\* that no other request has overlapped are still what they were when they were loaded.
RequestsConsistent ==
    \A r \in Requests :
       /\ At(r, "join", "insert") => welcome[r]
       /\ \A op \in {"updateRole", "removeUser"} : At(r, op, "save") => req[r].row.id < nextId
       /\ At(r, "updateSettings", "save") =>
             /\ req[r].row.id < nextId
             /\ \A x \in settings : x.id = req[r].row.id =>
                   /\ x.config = req[r].row.config
                   /\ r \notin overlapped => x = req[r].row

IndInv == TypeOK /\ IdsAreFresh /\ OneConfig /\ RequestsConsistent
=============================================================================
