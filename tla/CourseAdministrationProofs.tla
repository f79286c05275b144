---------------------- MODULE CourseAdministrationProofs ----------------------
(***************************************************************************)
(* Proofs about CourseAdministration, for every value of its constants.    *)
(***************************************************************************)
EXTENDS CourseAdministration, FiniteSetTheorems, TLAPS

-----------------------------------------------------------------------------
(* Lemmas about requests *)

\* What a request carries at each of its steps, by its operation.
LEMMA RequestFields ==
    ASSUME NEW q \in Request
    PROVE  /\ q # Idle
           /\ q.op = "createCourse" =>
                 /\ q.isClosed \in {"open", "closed"} /\ q.password \in Passwords
                 /\ q.complete \in BOOLEAN
                 /\ q.kinds \subseteq {"criteria", "template"} /\ q.lecturers \subseteq {Lecturer}
           /\ q.op = "updateCourse" => q.isClosed \in {"open", "closed", "undefined"}
           /\ q.op = "createConfig" =>
                 /\ q.password \in Passwords /\ q.complete \in BOOLEAN
                 /\ q.kinds \subseteq {"criteria", "template"}
           /\ q.op = "updateConfig" => q.password \in Passwords
           /\ q.op = "createPart" => q.kind \in {"criteria", "template"} /\ q.config \in Id
           /\ q.op \in {"updateCriteria", "removeCriteria"} /\ q.pc = "save" => q.row \in Part
           /\ q.op = "setPrevious" => q.config \in 0 .. MaxId /\ q.existing \in -1 .. MaxId
           /\ q.op = "updateSettings" => q.patch \in Patch
           /\ q.op = "updateSettings" /\ q.pc = "save" => q.row \in Settings
           /\ q.op \in {"updateRole", "removeUser"} /\ q.pc = "load" => q.user \in Users
           /\ q.op = "updateRole" /\ q.pc = "load" => q.role \in {"student", "lecturer"}
           /\ q.op \in {"updateRole", "removeUser"} /\ q.pc = "save" => q.row \in Participant
           /\ q.op = "join" => q.user \in Users /\ q.password \in Passwords
  BY DEF Request, Idle

\* Steps that only move on.
LEMMA MovedOn ==
    ASSUME NEW q \in Request
    PROVE  /\ q.op = "updateCourse" =>
                 /\ [q EXCEPT !.pc = "save"] \in Request
                 /\ [q EXCEPT !.pc = "save"].op = "updateCourse"
           /\ q.op = "join" =>
                 /\ [q EXCEPT !.pc = "insert"] \in Request
                 /\ [q EXCEPT !.pc = "insert"].op = "join"
                 /\ [q EXCEPT !.pc = "insert"].pc = "insert"
                 /\ [q EXCEPT !.pc = "insert"].password = q.password
           /\ q.op = "setPrevious" =>
                 /\ \A id \in Id : /\ [q EXCEPT !.config = id] \in Request
                                   /\ [q EXCEPT !.config = id].op = "setPrevious"
                 /\ \A id \in Id \cup {0} : /\ [q EXCEPT !.existing = id] \in Request
                                            /\ [q EXCEPT !.existing = id].op = "setPrevious"
  BY AdministrationAssumption DEF Request, Id

\* A slot that is at some step of a handler holds a request.
LEMMA BusySlot ==
    ASSUME TypeOK, NEW r \in Requests, NEW op, NEW pc, At(r, op, pc), op # "none"
    PROVE  req[r] \in Request /\ req[r].op = op /\ req[r].pc = pc
  BY DEF TypeOK, At, Idle

\* Only joins become welcome, each when the course would let it in.
LEMMA WelcomeType ==
    ASSUME TypeOK, Welcome
    PROVE  welcome' \in [Requests -> BOOLEAN]
  BY DEF Welcome

\* A set without two different elements has at most one.
LEMMA AtMostOne ==
    ASSUME NEW S, \A x, y \in S : x = y
    PROVE  Cardinality(S) <= 1
  <1>1. CASE S = {}
    BY <1>1, FS_EmptySet
  <1>2. ASSUME NEW x \in S
        PROVE  Cardinality(S) <= 1
    <2>1. S = {x}
      OBVIOUS
    <2> QED
      BY <2>1, FS_Singleton
  <1> QED
    BY <1>1, <1>2

\* What a request has loaded belongs to the rows that it has loaded it from.
Loaded(r, q) ==
    /\ q.op = "join" /\ q.pc = "insert" =>
          welcome[r] \/ Admits(course, configs, q.password)
    /\ q.op \in {"updateRole", "removeUser"} /\ q.pc = "save" => q.row.id < nextId
    /\ q.op = "updateSettings" /\ q.pc = "save" => q.row \in settings

\* A slot that is filled, emptied or moved on while the tables stay.
LEMMA SlotStep ==
    ASSUME IndInv, NEW r \in Requests, NEW request \in {Idle} \cup Request,
           request \in Request => Loaded(r, request),
           req' = [req EXCEPT ![r] = request], UNCHANGED tables, Welcome,
           overlapped \ {r} \subseteq overlapped', overlapped' \subseteq Requests
    PROVE  IndInv'
  <1> USE DEF tables
  <1>1. TypeOK'
    <2>1. TablesOK'
      BY DEF IndInv, TypeOK, TablesOK
    <2>2. req' \in [Requests -> {Idle} \cup Request]
      BY DEF IndInv, TypeOK
    <2> QED
      BY <2>1, <2>2, WelcomeType DEF IndInv, TypeOK
  <1>2. IdsAreFresh' /\ OneConfig'
    BY DEF IndInv, IdsAreFresh, OneConfig
  <1>3. RequestsConsistent'
    <2>0. \A s \in Requests : req'[s] = IF s = r THEN request ELSE req[s]
      BY DEF IndInv, TypeOK
    <2>1. ASSUME NEW s \in Requests, At(s, "join", "insert")'
          PROVE  welcome'[s]
      <3>1. CASE s = r
        <4>1. request \in Request /\ request.op = "join" /\ request.pc = "insert"
          BY <2>0, <2>1, <3>1 DEF At, Idle
        <4>2. welcome[r] \/ (course' = "open" /\ \E c \in configs' : PasswordFits(c, req'[r].password))
          BY <2>0, <4>1 DEF Loaded, Admits
        <4> QED
          BY <2>0, <3>1, <4>1, <4>2 DEF Welcome
      <3>2. CASE s # r
        BY <2>0, <2>1, <3>2 DEF Welcome, At, IndInv, RequestsConsistent
      <3> QED
        BY <3>1, <3>2
    <2>2. ASSUME NEW s \in Requests, NEW op \in {"updateRole", "removeUser"}, At(s, op, "save")'
          PROVE  req'[s].row.id < nextId'
      <3>1. CASE s = r
        BY <2>0, <2>2, <3>1 DEF At, Idle, Loaded
      <3>2. CASE s # r
        BY <2>0, <2>2, <3>2 DEF At, IndInv, RequestsConsistent
      <3> QED
        BY <3>1, <3>2
    <2>3. ASSUME NEW s \in Requests, At(s, "updateSettings", "save")'
          PROVE  /\ req'[s].row.id < nextId'
                 /\ \A x \in settings' : x.id = req'[s].row.id =>
                       /\ x.config = req'[s].row.config
                       /\ s \notin overlapped' => x = req'[s].row
      <3>1. CASE s = r
        <4>1. req'[s].row \in settings
          BY <2>0, <2>3, <3>1 DEF At, Idle, Loaded
        <4>2. \A x, y \in settings : x = y
          BY DEF IndInv, TypeOK, TablesOK, OneConfig
        <4> QED
          BY <4>1, <4>2 DEF IndInv, IdsAreFresh
      <3>2. CASE s # r
        BY <2>0, <2>3, <3>2 DEF At, IndInv, RequestsConsistent
      <3> QED
        BY <3>1, <3>2
    <2> QED
      BY <2>1, <2>2, <2>3 DEF RequestsConsistent
  <1> QED
    BY <1>1, <1>2, <1>3 DEF IndInv

\* A handler that ends with a change of the tables: rows keep their ids, new ones get
\* new ids, and settings are not changed.
LEMMA TablesStep ==
    ASSUME IndInv, NEW r \in Requests, Finish(r), Welcome, overlapped' = overlapped,
           TablesOK', IdsAreFresh', OneConfig',
           nextId' >= nextId, \A x \in settings' : x \in settings \/ x.id >= nextId
    PROVE  IndInv'
  <1>0. \A s \in Requests : req'[s] = IF s = r THEN Idle ELSE req[s]
    BY DEF IndInv, TypeOK, Finish, Advance
  <1>1. TypeOK'
    BY WelcomeType DEF IndInv, TypeOK, Finish, Advance
  <1>2. RequestsConsistent'
    <2>1. ASSUME NEW s \in Requests, At(s, "join", "insert")'
          PROVE  welcome'[s]
      BY <1>0, <2>1 DEF Welcome, At, Idle, IndInv, RequestsConsistent
    <2>2. nextId \in Nat /\ nextId' \in Nat
      BY AdministrationAssumption DEF IndInv, TypeOK, TablesOK
    <2>3. ASSUME NEW s \in Requests, NEW op \in {"updateRole", "removeUser"}, At(s, op, "save")'
          PROVE  req'[s].row.id < nextId'
      <3>1. At(s, op, "save") /\ req'[s] = req[s]
        BY <1>0, <2>3 DEF At, Idle
      <3>2. req[s].row.id < nextId /\ req[s].row.id \in Nat
        <4>1. req[s].row \in Participant
          BY <3>1, BusySlot, RequestFields DEF IndInv
        <4> QED
          BY <3>1, <4>1, AdministrationAssumption DEF IndInv, RequestsConsistent, Participant, Id
      <3> QED
        BY <2>2, <3>1, <3>2
    <2>4. ASSUME NEW s \in Requests, At(s, "updateSettings", "save")'
          PROVE  /\ req'[s].row.id < nextId'
                 /\ \A x \in settings' : x.id = req'[s].row.id =>
                       /\ x.config = req'[s].row.config
                       /\ s \notin overlapped' => x = req'[s].row
      <3>1. At(s, "updateSettings", "save") /\ req'[s] = req[s]
        BY <1>0, <2>4 DEF At, Idle
      <3>2. req[s].row.id < nextId /\ req[s].row.id \in Nat
        <4>1. req[s].row \in Settings
          BY <3>1, BusySlot, RequestFields DEF IndInv
        <4> QED
          BY <3>1, <4>1, AdministrationAssumption DEF IndInv, RequestsConsistent, Settings, Id
      <3>3. \A x \in settings' : x.id = req[s].row.id => x \in settings
        BY <2>2, <3>2
      <3> QED
        BY <2>2, <3>1, <3>2, <3>3 DEF IndInv, RequestsConsistent
    <2> QED
      BY <2>1, <2>3, <2>4 DEF RequestsConsistent
  <1> QED
    BY <1>1, <1>2 DEF IndInv

-----------------------------------------------------------------------------
(* The inductive invariant: requests that begin, go on and are refused *)

\* A request that begins has loaded nothing.
LEMMA BeginStep ==
    ASSUME IndInv, NEW r \in Requests, NEW q \in Request, Begin(r, q), Welcome,
           q.pc \notin {"insert", "save"}
    PROVE  IndInv'
  <1>1. Loaded(r, q)
    BY DEF Loaded
  <1> QED
    BY <1>1, SlotStep DEF Begin, IndInv, TypeOK

\* The requests of the staff.
LEMMA StaffRequestType ==
    ASSUME TypeOK, NEW q \in StaffRequests
    PROVE  q \in Request /\ q.pc \notin {"insert", "save"}
  <1>1. \A c \in configs : c.id \in Id
    BY DEF TypeOK, TablesOK, Config
  <1>2. \A x \in parts : x.id \in Id
    BY DEF TypeOK, TablesOK, Part
  <1>3. CASE q \in [op : {"createPart"}, pc : {"write"}, kind : {"criteria", "template"},
                    config : {c.id : c \in configs}]
    BY <1>1, <1>3 DEF Request
  <1>4. CASE q \in [op : {"removeTemplate"}, pc : {"write"}, id : {x.id : x \in parts}]
    BY <1>2, <1>4 DEF Request
  <1>5. CASE q \in [op : {"setPrevious"}, pc : {"read"}, config : {0}, existing : {-1}]
    BY <1>5, AdministrationAssumption DEF Request
  <1> QED
    BY <1>3, <1>4, <1>5 DEF StaffRequests, Request, Patch

\* Every kind of request begins well-typed.
LEMMA StartStep ==
    ASSUME IndInv, NEW r \in Requests, Start(r), Welcome
    PROVE  IndInv'
  <1>1. CASE \E u \in Users : StartByStaff(r, u)
    BY <1>1, StaffRequestType, BeginStep DEF StartByStaff, IndInv
  <1>2. ASSUME NEW by \in Users, NEW u \in Users, StartRemoveUser(r, by, u)
        PROVE  IndInv'
    <2> DEFINE q == [op |-> "removeUser", pc |-> "load", user |-> u]
    <2>1. q \in Request /\ q.pc = "load"
      BY DEF Request
    <2> QED
      BY <1>2, <2>1, BeginStep DEF StartRemoveUser
  <1>3. ASSUME NEW u \in Users, NEW p \in Passwords, StartJoin(r, u, p)
        PROVE  IndInv'
    <2> DEFINE q == [op |-> "join", pc |-> "load", user |-> u, password |-> p]
    <2>1. q \in Request /\ q.pc = "load"
      BY DEF Request
    <2> QED
      BY <1>3, <2>1, BeginStep DEF StartJoin
  <1>4. ASSUME NEW s \in {"open", "closed"}, NEW p \in Passwords, NEW complete \in BOOLEAN,
               NEW kinds \in {{}, {"criteria", "template"}}, NEW lecturers \in {{}, {Lecturer}},
               StartCreateCourse(r, s, p, complete, kinds, lecturers)
        PROVE  IndInv'
    <2> DEFINE q == [op |-> "createCourse", pc |-> "write", isClosed |-> s, password |-> p,
                     complete |-> complete, kinds |-> kinds, lecturers |-> lecturers]
    <2>1. q \in Request /\ q.pc = "write"
      BY DEF Request
    <2> QED
      BY <1>4, <2>1, BeginStep DEF StartCreateCourse
  <1> QED
    BY <1>1, <1>2, <1>3, <1>4 DEF Start

\* A handler that goes on with what it has loaded.
LEMMA GoOnStep ==
    ASSUME IndInv, NEW r \in Requests, NEW q \in Request, GoOn(r, q), Loaded(r, q), Welcome
    PROVE  IndInv'
  BY SlotStep DEF GoOn, Advance, IndInv, TypeOK

\* A request that ends without a change.
LEMMA NoChangeStep ==
    ASSUME IndInv, NEW r \in Requests, NoChange(r), Welcome
    PROVE  IndInv'
  <1>1. Idle \notin Request
    BY RequestFields
  <1> QED
    BY <1>1, SlotStep DEF NoChange, GoOn, Advance, IndInv, TypeOK

\* Reading before writing.
LEMMA LoadStep ==
    ASSUME IndInv, NEW r \in Requests, Welcome,
           \/ LoadCourse(r) \/ LoadCriteria(r) \/ ReadConfig(r) \/ ReadExisting(r)
           \/ LoadSettings(r) \/ LoadForJoin(r) \/ FindParticipant(r)
    PROVE  IndInv'
  <1>0. CASE NoChange(r)
    BY <1>0, NoChangeStep
  <1>1. CASE LoadCourse(r)
    <2>1. req[r] \in Request /\ req[r].op = "updateCourse"
      BY <1>1, BusySlot DEF LoadCourse, IndInv
    <2>2. [req[r] EXCEPT !.pc = "save"] \in Request
          /\ [req[r] EXCEPT !.pc = "save"].op = "updateCourse"
      BY <2>1, MovedOn
    <2> QED
      BY <1>0, <1>1, <2>2, GoOnStep DEF LoadCourse, Loaded
  <1>2. CASE LoadCriteria(r)
    <2>1. req[r].op \in {"updateCriteria", "removeCriteria"}
      BY <1>2 DEF LoadCriteria, At
    <2>2. ASSUME NEW x \in parts, GoOn(r, [op |-> req[r].op, pc |-> "save", row |-> x])
          PROVE  IndInv'
      <3> DEFINE q == [op |-> req[r].op, pc |-> "save", row |-> x]
      <3>1. q \in Request /\ q.op = req[r].op
        BY <2>1 DEF Request, IndInv, TypeOK, TablesOK
      <3>2. Loaded(r, q)
        BY <2>1, <3>1 DEF Loaded
      <3> QED
        BY <2>2, <3>1, <3>2, GoOnStep
    <2> QED
      BY <1>0, <1>2, <2>2 DEF LoadCriteria, PartsOf
  <1>3. CASE ReadConfig(r) \/ ReadExisting(r)
    <2>1. req[r] \in Request /\ req[r].op = "setPrevious"
      BY <1>3, BusySlot DEF ReadConfig, ReadExisting, IndInv
    <2>2. /\ \A c \in configs : c.id \in Id
          /\ \A x \in parts : x.id \in Id
      BY DEF IndInv, TypeOK, TablesOK, Config, Part
    <2>3. ASSUME NEW id \in Id \cup {0},
                 \/ id \in Id /\ GoOn(r, [req[r] EXCEPT !.config = id])
                 \/ GoOn(r, [req[r] EXCEPT !.existing = id])
          PROVE  IndInv'
      BY <2>1, <2>3, MovedOn, GoOnStep DEF Loaded
    <2> QED
      BY <1>0, <1>3, <2>2, <2>3 DEF ReadConfig, ReadExisting
  <1>4. CASE LoadSettings(r)
    <2>1. req[r] \in Request /\ req[r].op = "updateSettings"
      BY <1>4, BusySlot DEF LoadSettings, IndInv
    <2>2. ASSUME NEW x \in settings,
                 GoOn(r, [op |-> "updateSettings", pc |-> "save", row |-> x,
                          patch |-> req[r].patch])
          PROVE  IndInv'
      <3> DEFINE q == [op |-> "updateSettings", pc |-> "save", row |-> x, patch |-> req[r].patch]
      <3>1. req[r].patch \in Patch /\ x \in Settings
        BY <2>1, RequestFields DEF IndInv, TypeOK, TablesOK
      <3>2. q \in Request /\ q.op = "updateSettings" /\ q.row = x
        BY <3>1 DEF Request
      <3>3. Loaded(r, q)
        BY <3>2 DEF Loaded
      <3> QED
        BY <2>2, <3>2, <3>3, GoOnStep
    <2> QED
      BY <1>0, <1>4, <2>2 DEF LoadSettings
  <1>5. CASE LoadForJoin(r)
    <2>1. req[r] \in Request /\ req[r].op = "join"
      BY <1>5, BusySlot DEF LoadForJoin, IndInv
    <2> DEFINE q == [req[r] EXCEPT !.pc = "insert"]
    <2>2. q \in Request /\ q.op = "join" /\ q.password = req[r].password
      BY <2>1, MovedOn
    <2>3. ASSUME Admits(course, configs, req[r].password), GoOn(r, q)
          PROVE  IndInv'
      <3>1. Loaded(r, q)
        BY <2>2, <2>3 DEF Loaded
      <3> QED
        BY <2>2, <2>3, <3>1, GoOnStep
    <2> QED
      BY <1>0, <1>5, <2>3 DEF LoadForJoin
  <1>6. CASE FindParticipant(r)
    <2>1. req[r] \in Request /\ req[r].op \in {"removeUser", "updateRole"} /\ req[r].pc = "load"
      BY <1>6, BusySlot DEF FindParticipant, IndInv
    <2>2. ASSUME NEW x \in participants,
                 GoOn(r, [op |-> req[r].op, pc |-> "save",
                          row |-> IF req[r].op = "updateRole" THEN [x EXCEPT !.role = req[r].role]
                                                              ELSE x])
          PROVE  IndInv'
      <3> DEFINE y == IF req[r].op = "updateRole" THEN [x EXCEPT !.role = req[r].role] ELSE x
                 q == [op |-> req[r].op, pc |-> "save", row |-> y]
      <3>1. y \in Participant /\ y.id = x.id
        BY <2>1, RequestFields DEF IndInv, TypeOK, TablesOK, Participant
      <3>2. x.id < nextId
        BY DEF IndInv, IdsAreFresh
      <3> HIDE DEF y
      <3>3. q \in Request /\ q.op = req[r].op /\ q.row = y
        BY <2>1, <3>1 DEF Request
      <3>4. Loaded(r, q)
        BY <2>1, <3>1, <3>2, <3>3 DEF Loaded
      <3>5. GoOn(r, q)
        BY <2>2 DEF y
      <3> QED
        BY <3>3, <3>4, <3>5, GoOnStep
    <2> QED
      BY <1>0, <1>6, <2>2 DEF FindParticipant, RowOf
  <1> QED
    BY <1>1, <1>2, <1>3, <1>4, <1>5, <1>6

-----------------------------------------------------------------------------
(* The inductive invariant: writing *)

\* What is said about a config and the rows that refer to it.
ConfigTables ==
    /\ configs \subseteq Config /\ OneConfig
    /\ settings \subseteq Settings /\ parts \subseteq Part
    /\ \A x \in settings \cup parts : ConfigLives(x.config)
    /\ \A x, y \in settings : x.config = y.config => x = y
    /\ \A x, y \in parts : x.config = y.config /\ x.kind = y.kind /\ x.kind # "template" => x = y

\* What is said about the participants.
ParticipantTable ==
    /\ participants \subseteq Participant
    /\ \A x, y \in participants : x.user = y.user \/ x.id = y.id => x = y
    /\ \A x \in participants : x.id < nextId

\* The tables, one by one.
LEMMA TablesApart ==
    ASSUME IndInv
    PROVE  /\ ConfigTables /\ ParticipantTable
           /\ nextId \in Nat /\ nextId \in 1 .. MaxId + 1
           /\ \A x \in settings : x.id < nextId
           /\ course \in {"none", "open", "closed"}
           /\ course = "none" => configs = {} /\ participants = {}
  BY AdministrationAssumption
     DEF IndInv, TypeOK, TablesOK, IdsAreFresh, ConfigTables, ParticipantTable, ConfigLives

\* A handler that has written its tables and ends.
LEMMA WriteStep ==
    ASSUME IndInv, NEW r \in Requests, Finish(r), Welcome, overlapped' = overlapped,
           ConfigTables', ParticipantTable', nextId' \in {nextId, nextId + 1},
           nextId' \in 1 .. MaxId + 1,
           \A x \in settings' : x \in settings \/ (x.id = nextId /\ nextId' = nextId + 1),
           course' \in {"none", "open", "closed"},
           course' = "none" => configs' = {} /\ participants' = {}
    PROVE  IndInv'
  <1>1. OneConfig'
    BY DEF ConfigTables
  <1>2. TablesOK'
    <2>1. Cardinality(configs') <= 1
      BY <1>1, AtMostOne DEF OneConfig
    <2> QED
      BY <2>1 DEF TablesOK, ConfigTables, ParticipantTable, ConfigLives
  <1>3. nextId \in Nat /\ nextId' >= nextId
    BY TablesApart
  <1>4. IdsAreFresh'
    <2>1. \A x \in settings : x.id < nextId /\ x.id \in Nat
      BY TablesApart, AdministrationAssumption DEF ConfigTables, Settings, Id
    <2> QED
      BY <1>3, <2>1 DEF IdsAreFresh, ParticipantTable
  <1>5. \A x \in settings' : x \in settings \/ x.id >= nextId
    BY <1>3
  <1> QED
    BY <1>1, <1>2, <1>3, <1>4, <1>5, TablesStep

\* A config is inserted only where there is none, so that nothing refers to it but the
\* rows that are inserted with it.
LEMMA InsertConfigTables ==
    ASSUME IndInv, configs = {}, NEW q, InsertConfig(q),
           q.password \in Passwords, q.kinds \subseteq {"criteria", "template"}
    PROVE  /\ ConfigTables'
           /\ nextId' = nextId + 1 /\ nextId' \in 1 .. MaxId + 1
           /\ \A x \in settings' : x.id = nextId
  <1>1. nextId \in Id /\ nextId' = nextId + 1 /\ nextId' \in 1 .. MaxId + 1
    BY TablesApart, AdministrationAssumption DEF InsertConfig, NewId, Id
  <1>2. settings = {} /\ parts = {}
    BY TablesApart DEF ConfigTables, ConfigLives
  <1> DEFINE c == [id |-> nextId, password |-> q.password]
             s == [id |-> nextId, config |-> nextId,
                   columns |-> [size |-> 1, selfmanaged |-> FALSE]]
  <1>3. configs' = {c} /\ c \in Config /\ c.id = nextId
    BY <1>1 DEF InsertConfig, Config
  <1>4. settings' \subseteq {s} /\ s \in Settings /\ s.id = nextId /\ s.config = nextId
    BY <1>1, <1>2 DEF InsertConfig, NewSettings, Settings, Columns
  <1> HIDE DEF c, s
  <1>5. \A x \in parts' : x \in Part /\ x.id = nextId /\ x.config = nextId
    BY <1>1, <1>2 DEF InsertConfig, NewParts, Part
  <1>6. \A x, y \in parts' : x.kind = y.kind => x = y
    BY <1>1, <1>2 DEF InsertConfig, NewParts
  <1> QED
    BY <1>1, <1>3, <1>4, <1>5, <1>6 DEF ConfigTables, OneConfig, ConfigLives

\* Creating a course with its lecturers, or its config.
LEMMA CreateStep ==
    ASSUME IndInv, NEW r \in Requests, CreateCourse(r) \/ CreateConfig(r), Welcome
    PROVE  IndInv'
  <1>0. CASE NoChange(r)
    BY <1>0, NoChangeStep
  <1>1. CASE CreateCourse(r) /\ ~NoChange(r)
    <2> DEFINE q == req[r]
               new == {[id |-> nextId, user |-> u, role |-> "lecturer"] : u \in q.lecturers}
    <2>1. q \in Request /\ q.op = "createCourse"
      BY <1>1, BusySlot DEF CreateCourse, IndInv
    <2>2. /\ q.isClosed \in {"open", "closed"} /\ q.password \in Passwords
          /\ q.kinds \subseteq {"criteria", "template"} /\ q.lecturers \subseteq {Lecturer}
      BY <2>1, RequestFields
    <2>3. /\ configs = {} /\ (q.lecturers = {} \/ participants = {})
          /\ course' = q.isClosed /\ InsertConfig(q)
          /\ participants' = participants \cup new
          /\ Finish(r) /\ overlapped' = overlapped
      BY <1>1 DEF CreateCourse
    <2>4. /\ ConfigTables' /\ nextId' = nextId + 1 /\ nextId' \in 1 .. MaxId + 1
          /\ \A x \in settings' : x.id = nextId
      BY <2>2, <2>3, InsertConfigTables
    <2>5. nextId \in Id
      BY <2>3, TablesApart DEF InsertConfig, NewId, Id
    <2>6. /\ \A x \in new : x \in Participant /\ x.id = nextId
          /\ \A x, y \in new : x = y
      BY <2>2, <2>5, AdministrationAssumption DEF Participant
    <2>7. ParticipantTable'
      <3> HIDE DEF new, q
      <3>1. new = {} \/ participants = {}
        BY <2>3 DEF new
      <3>2. \A x \in participants : x.id \in Nat /\ x.id < nextId
        BY TablesApart, AdministrationAssumption DEF ParticipantTable, Participant, Id
      <3> QED
        BY <2>3, <2>4, <2>5, <2>6, <3>1, <3>2, TablesApart DEF ParticipantTable, Id
    <2> QED
      BY <2>2, <2>3, <2>4, <2>7, WriteStep
  <1>2. CASE CreateConfig(r) /\ ~NoChange(r)
    <2> DEFINE q == req[r]
    <2>1. q \in Request /\ q.op = "createConfig"
      BY <1>2, BusySlot DEF CreateConfig, IndInv
    <2>2. q.password \in Passwords /\ q.kinds \subseteq {"criteria", "template"}
      BY <2>1, RequestFields
    <2>3. /\ configs = {} /\ course # "none" /\ InsertConfig(q) /\ Finish(r)
          /\ UNCHANGED <<course, participants, overlapped>>
      BY <1>2 DEF CreateConfig
    <2>4. /\ ConfigTables' /\ nextId' = nextId + 1 /\ nextId' \in 1 .. MaxId + 1
          /\ \A x \in settings' : x.id = nextId
      BY <2>2, <2>3, InsertConfigTables
    <2>5. ParticipantTable'
      <3>1. \A x \in participants : x.id \in Nat /\ x.id < nextId
        BY TablesApart, AdministrationAssumption DEF ParticipantTable, Participant, Id
      <3> QED
        BY <2>3, <2>4, <3>1, TablesApart DEF ParticipantTable
    <2> QED
      BY <2>3, <2>4, <2>5, TablesApart, WriteStep
  <1> QED
    BY <1>0, <1>1, <1>2

\* A part that fits is inserted.
LEMMA PartFits ==
    ASSUME IndInv, NEW x \in Part, Fits(x), parts' = parts \cup {x},
           UNCHANGED <<configs, settings>>
    PROVE  ConfigTables'
  BY TablesApart DEF ConfigTables, ConfigLives, OneConfig, Fits

\* Only the parts of a config have been written.
LEMMA PartsStep ==
    ASSUME IndInv, NEW r \in Requests, Finish(r), Welcome, ConfigTables',
           UNCHANGED <<course, configs, settings, participants, overlapped>>,
           nextId' = nextId \/ NewId
    PROVE  IndInv'
  <1>1. nextId' \in {nextId, nextId + 1} /\ nextId' \in 1 .. MaxId + 1
    BY TablesApart, AdministrationAssumption DEF NewId
  <1>2. ParticipantTable'
    <2>1. \A x \in participants : x.id \in Nat /\ x.id < nextId
      BY TablesApart, AdministrationAssumption DEF ParticipantTable, Participant, Id
    <2> QED
      BY <1>1, <2>1, TablesApart DEF ParticipantTable
  <1>3. /\ course' \in {"none", "open", "closed"}
        /\ course' = "none" => configs' = {} /\ participants' = {}
    BY TablesApart
  <1> QED
    BY <1>1, <1>2, <1>3, WriteStep

\* A loaded part is written again, if it fits.
LEMMA SavePartStep ==
    ASSUME IndInv, NEW r \in Requests, NEW x \in Part, SavePart(r, x), Welcome
    PROVE  IndInv'
  BY PartFits, PartsStep, NoChangeStep DEF SavePart

\* Criteria, templates and the admission from the previous semester.
LEMMA WritePartStep ==
    ASSUME IndInv, NEW r \in Requests, Welcome,
           \/ CreatePart(r) \/ RemoveTemplate(r) \/ SaveCriteria(r) \/ RemoveCriteria(r)
           \/ SavePrevious(r)
    PROVE  IndInv'
  <1>0. CASE NoChange(r)
    BY <1>0, NoChangeStep
  <1>1. CASE CreatePart(r) /\ ~NoChange(r)
    <2> DEFINE new == [id |-> nextId, config |-> req[r].config, kind |-> req[r].kind]
    <2>1. req[r] \in Request /\ req[r].op = "createPart"
      BY <1>1, BusySlot DEF CreatePart, IndInv
    <2>2. /\ Fits(new) /\ NewId /\ parts' = parts \cup {new} /\ Finish(r)
          /\ UNCHANGED <<course, configs, settings, participants, overlapped>>
      BY <1>1 DEF CreatePart
    <2>3. new \in Part
      BY <2>1, <2>2, RequestFields, TablesApart DEF Part, Id, NewId
    <2> QED
      BY <2>2, <2>3, PartFits, PartsStep
  <1>2. CASE RemoveTemplate(r) \/ RemoveCriteria(r)
    <2>1. /\ parts' \subseteq parts /\ Finish(r)
          /\ UNCHANGED <<course, configs, settings, participants, nextId, overlapped>>
      BY <1>2 DEF RemoveTemplate, RemoveCriteria
    <2>2. ConfigTables'
      BY <2>1, TablesApart DEF ConfigTables, ConfigLives, OneConfig
    <2> QED
      BY <2>1, <2>2, PartsStep
  <1>3. CASE SaveCriteria(r)
    BY <1>3, BusySlot, RequestFields, SavePartStep DEF SaveCriteria, IndInv
  <1>4. CASE SavePrevious(r) /\ ~NoChange(r)
    <2> DEFINE row(id) == [id |-> id, config |-> req[r].config, kind |-> "previous"]
    <2>1. req[r] \in Request /\ req[r].op = "setPrevious"
      BY <1>4, BusySlot DEF SavePrevious, IndInv
    <2>2. req[r].config \in Id /\ req[r].existing \in Id \cup {0}
      BY <1>4, <2>1, RequestFields, AdministrationAssumption DEF SavePrevious, Id
    <2>3. \A id \in Id : row(id) \in Part
      BY <2>2 DEF Part
    <2>4. CASE req[r].existing # 0 /\ SavePart(r, row(req[r].existing))
      BY <2>2, <2>3, <2>4, SavePartStep
    <2>5. CASE /\ Fits(row(nextId)) /\ NewId /\ parts' = parts \cup {row(nextId)} /\ Finish(r)
               /\ UNCHANGED <<course, configs, settings, participants, overlapped>>
      <3>1. nextId \in Id
        BY <2>5, TablesApart DEF Id, NewId
      <3> QED
        BY <2>3, <2>5, <3>1, PartFits, PartsStep
    <2> QED
      BY <1>4, <2>4, <2>5 DEF SavePrevious
  <1> QED
    BY <1>0, <1>1, <1>2, <1>3, <1>4

\* Changing or removing the course or its config.
LEMMA CourseWriteStep ==
    ASSUME IndInv, NEW r \in Requests, Welcome,
           SaveCourse(r) \/ DeleteCourse(r) \/ UpdateConfig(r) \/ RemoveConfig(r)
    PROVE  IndInv'
  <1>1. Finish(r) /\ UNCHANGED <<nextId, overlapped>> /\ nextId' \in 1 .. MaxId + 1
    BY TablesApart DEF SaveCourse, DeleteCourse, UpdateConfig, RemoveConfig
  <1>2. CASE SaveCourse(r)
    <2>1. req[r] \in Request /\ req[r].op = "updateCourse"
      BY <1>2, BusySlot DEF SaveCourse, IndInv
    <2>2. /\ course' \in {course, "open", "closed"}
          /\ UNCHANGED <<configs, settings, parts, participants>>
      BY <1>2, <2>1, RequestFields DEF SaveCourse
    <2>3. ConfigTables' /\ ParticipantTable'
      BY <1>1, <2>2, TablesApart DEF ConfigTables, ConfigLives, OneConfig, ParticipantTable
    <2> QED
      BY <1>1, <2>2, <2>3, TablesApart, WriteStep
  <1>3. CASE DeleteCourse(r) \/ RemoveConfig(r)
    <2>1. /\ configs' = {} /\ settings' = {} /\ parts' = {}
          /\ \/ course' = course /\ participants' = participants
             \/ course' = "none" /\ participants' = {}
      BY <1>3 DEF DeleteCourse, RemoveConfig
    <2>2. ConfigTables' /\ ParticipantTable'
      BY <1>1, <2>1, TablesApart DEF ConfigTables, OneConfig, ParticipantTable
    <2> QED
      BY <1>1, <2>1, <2>2, TablesApart, WriteStep
  <1>4. CASE UpdateConfig(r)
    <2> DEFINE p == req[r].password
    <2>1. p \in Passwords
      BY <1>4, BusySlot, RequestFields DEF UpdateConfig, IndInv
    <2>2. /\ configs' = {[c EXCEPT !.password = p] : c \in configs}
          /\ UNCHANGED <<course, settings, parts, participants>>
      BY <1>4 DEF UpdateConfig
    <2>3. \A c \in configs : [c EXCEPT !.password = p] \in Config
                             /\ [c EXCEPT !.password = p].id = c.id
      BY <2>1, TablesApart DEF ConfigTables, Config
    <2>4. /\ \A d \in configs' : d \in Config /\ \E c \in configs : d = [c EXCEPT !.password = p]
          /\ \A c \in configs : \E d \in configs' : d.id = c.id
          /\ configs = {} => configs' = {}
      BY <2>2, <2>3
    <2> HIDE DEF p
    <2>5. ConfigTables'
      <3>1. \A c, d \in configs : c = d
        BY TablesApart DEF ConfigTables, OneConfig
      <3>2. \A c, d \in configs' : c = d
        BY <2>4, <3>1
      <3>3. \A x \in settings \cup parts : \E d \in configs' : d.id = x.config
        BY <2>4, TablesApart DEF ConfigTables, ConfigLives
      <3> QED
        BY <2>2, <2>4, <3>2, <3>3, TablesApart DEF ConfigTables, ConfigLives, OneConfig
    <2>6. ParticipantTable'
      BY <1>1, <2>2, TablesApart DEF ParticipantTable
    <2> QED
      BY <1>1, <2>2, <2>4, <2>5, <2>6, TablesApart, WriteStep
  <1> QED
    BY <1>2, <1>3, <1>4

\* Inserting, removing and changing participants.
LEMMA ParticipantsStep ==
    ASSUME IndInv, NEW r \in Requests, Welcome,
           InsertParticipant(r) \/ RemoveUser(r) \/ SaveRole(r)
    PROVE  IndInv'
  <1>0. CASE NoChange(r)
    BY <1>0, NoChangeStep
  <1>1. ASSUME Finish(r), ParticipantTable', participants' = {} \/ course # "none",
               UNCHANGED <<course, configs, settings, parts, overlapped>>,
               nextId' = nextId \/ NewId
        PROVE  IndInv'
    <2>1. nextId' \in {nextId, nextId + 1} /\ nextId' \in 1 .. MaxId + 1
      BY <1>1, TablesApart, AdministrationAssumption DEF NewId
    <2>2. ConfigTables'
      BY <1>1, TablesApart DEF ConfigTables, ConfigLives, OneConfig
    <2> QED
      BY <1>1, <2>1, <2>2, TablesApart, WriteStep
  <1>2. \A x \in participants : x.id \in Nat /\ x.id < nextId
    BY TablesApart, AdministrationAssumption DEF ParticipantTable, Participant, Id
  <1>3. CASE InsertParticipant(r) /\ ~NoChange(r)
    <2> DEFINE u == req[r].user
               new == [id |-> nextId, user |-> u, role |-> "student"]
    <2>1. u \in Users
      BY <1>3, BusySlot, RequestFields DEF InsertParticipant, IndInv
    <2>2. /\ CanInsert(u) /\ NewId /\ participants' = participants \cup {new} /\ Finish(r)
          /\ UNCHANGED <<course, configs, settings, parts, overlapped>>
      BY <1>3 DEF InsertParticipant
    <2>3. nextId \in Id /\ nextId' = nextId + 1
      BY <2>2, TablesApart DEF NewId, Id
    <2>4. new \in Participant /\ new.user = u /\ new.id = nextId
      BY <2>1, <2>3 DEF Participant
    <2>5. course # "none" /\ \A x \in participants : x.user # u
      BY <2>2 DEF CanInsert, IsMember, RowOf
    <2> HIDE DEF u, new
    <2>6. ParticipantTable'
      BY <1>2, <2>2, <2>3, <2>4, <2>5, TablesApart DEF ParticipantTable, Id
    <2> QED
      BY <1>1, <2>2, <2>5, <2>6
  <1>4. CASE RemoveUser(r)
    <2>1. /\ participants' \subseteq participants /\ Finish(r)
          /\ UNCHANGED <<course, configs, settings, parts, nextId, overlapped>>
      BY <1>4 DEF RemoveUser
    <2>2. ParticipantTable'
      BY <2>1, TablesApart DEF ParticipantTable
    <2> QED
      BY <1>1, <2>1, <2>2, TablesApart
  <1>5. CASE SaveRole(r) /\ ~NoChange(r)
    <2> DEFINE x == req[r].row
    <2>1. x \in Participant /\ x.id < nextId
      BY <1>5, BusySlot, RequestFields DEF SaveRole, IndInv, RequestsConsistent
    <2>2. /\ RoleFits(x) /\ participants' = {y \in participants : y.id # x.id} \cup {x}
          /\ Finish(r)
          /\ UNCHANGED <<course, configs, settings, parts, nextId, overlapped>>
      BY <1>5 DEF SaveRole
    <2> HIDE DEF x
    <2>3. course # "none" /\ \A y \in participants : y.user = x.user => y.id = x.id
      BY <2>2 DEF RoleFits, RowOf
    <2>4. ParticipantTable'
      BY <2>1, <2>2, <2>3, TablesApart DEF ParticipantTable
    <2> QED
      BY <1>1, <2>2, <2>3, <2>4
  <1> QED
    BY <1>0, <1>3, <1>4, <1>5

-----------------------------------------------------------------------------
(* The inductive invariant: the group settings *)

\* What the client has sent replaces columns; the others stay.
LEMMA PatchedColumns ==
    ASSUME NEW columns \in Columns, NEW patch \in Patch
    PROVE  /\ Patched(columns, patch) \in Columns
           /\ \A k \in DOMAIN columns \ DOMAIN patch : Patched(columns, patch)[k] = columns[k]
  <1>1. DOMAIN columns = {"size", "selfmanaged"}
    BY DEF Columns
  <1>2. columns = [size |-> columns.size, selfmanaged |-> columns.selfmanaged]
        /\ columns.size \in {1, 2} /\ columns.selfmanaged \in BOOLEAN
    BY DEF Columns
  <1> DEFINE new == Patched(columns, patch)
  <1>3. /\ new = [k \in {"size", "selfmanaged"} |-> IF k \in DOMAIN patch THEN patch[k]
                                                    ELSE columns[k]]
        /\ \A k \in DOMAIN columns \ DOMAIN patch : new[k] = columns[k]
    BY <1>1 DEF Patched
  <1>4. CASE patch \in [{"size"} -> {1, 2}]
    <2>1. new.size = patch["size"] /\ new.selfmanaged = columns.selfmanaged
      BY <1>3, <1>4
    <2>2. new = [size |-> patch["size"], selfmanaged |-> columns.selfmanaged]
      BY <1>3, <2>1
    <2> QED
      BY <1>2, <1>3, <1>4, <2>2 DEF Columns
  <1>5. CASE patch \in [{"selfmanaged"} -> BOOLEAN]
    <2>1. new.size = columns.size /\ new.selfmanaged = patch["selfmanaged"]
      BY <1>3, <1>5
    <2>2. new = [size |-> columns.size, selfmanaged |-> patch["selfmanaged"]]
      BY <1>3, <2>1
    <2> QED
      BY <1>2, <1>3, <1>5, <2>2 DEF Columns
  <1> QED
    BY <1>4, <1>5 DEF Patch

\* There is one row of settings at most.
LEMMA OneSettings ==
    ASSUME IndInv, NEW x \in settings, NEW y \in settings
    PROVE  x = y
  BY TablesApart DEF ConfigTables, ConfigLives, OneConfig

\* The row that a request writes is the row of the settings, if they are still those that
\* it has loaded; it stays with its config and gets new columns.
LEMMA WrittenSettings ==
    ASSUME IndInv, NEW r \in Requests, SaveSettings(r)
    PROVE  /\ \A y \in settings' : /\ y \in Settings
                                   /\ \E x \in settings : x.id = y.id /\ x.config = y.config
           /\ \A x \in settings : x.id = req[r].row.id =>
                 \A y \in settings' : y.columns = Patched(req[r].row.columns, req[r].patch)
           /\ \A x \in settings : x.id # req[r].row.id => settings' = settings
           /\ settings = {} => settings' = {}
           /\ req[r] \in Request /\ req[r].row \in Settings /\ req[r].patch \in Patch
  <1> DEFINE row == req[r].row
             patch == req[r].patch
             changed == [row EXCEPT !.columns = Patched(@, patch)]
             to(x) == IF x.id = row.id THEN changed ELSE x
  <1>1. /\ req[r] \in Request /\ row \in Settings /\ patch \in Patch
        /\ At(r, "updateSettings", "save")
    BY BusySlot, RequestFields DEF SaveSettings, IndInv
  <1>2. row.columns \in Columns
    BY <1>1 DEF Settings
  <1>3. Patched(row.columns, patch) \in Columns
    BY <1>1, <1>2, PatchedColumns
  <1>4. /\ changed \in Settings /\ changed.id = row.id /\ changed.config = row.config
        /\ changed.columns = Patched(row.columns, patch)
    BY <1>1, <1>3 DEF Settings
  <1>5. settings' = {to(x) : x \in settings}
    BY DEF SaveSettings
  <1>6. \A x \in settings : x.id = row.id => x.config = row.config
    BY <1>1 DEF IndInv, RequestsConsistent
  <1>7. settings \subseteq Settings
    BY TablesApart DEF ConfigTables
  <1> HIDE DEF row, patch, changed
  <1>8. \A y \in settings' : \E x \in settings : y = to(x)
    BY <1>5
  <1>9. \A y \in settings' : /\ y \in Settings
                             /\ \E x \in settings : x.id = y.id /\ x.config = y.config
    BY <1>4, <1>6, <1>7, <1>8
  <1>10. \A x \in settings : x.id = row.id =>
            \A y \in settings' : y.columns = Patched(row.columns, patch)
    BY <1>4, <1>8, OneSettings
  <1>11. ASSUME NEW x \in settings, x.id # row.id
         PROVE  settings' = settings
    <2>1. settings = {x}
      BY OneSettings
    <2> QED
      BY <1>5, <1>11, <2>1
  <1>12. settings = {} => settings' = {}
    BY <1>5
  <1> QED
    BY <1>1, <1>9, <1>10, <1>11, <1>12 DEF row, patch

\* Writing the settings overlaps every other request that has loaded them.
LEMMA SettingsStep ==
    ASSUME IndInv, NEW r \in Requests, SaveSettings(r), Welcome
    PROVE  IndInv'
  <1>1. /\ Finish(r) /\ UNCHANGED <<course, configs, parts, participants, nextId>>
        /\ overlapped' = overlapped \cup
              {s \in Requests \ {r} : At(s, "updateSettings", "save") /\ settings' # settings}
    BY DEF SaveSettings
  <1>2. \A y \in settings' : /\ y \in Settings
                             /\ \E x \in settings : x.id = y.id /\ x.config = y.config
    BY WrittenSettings
  <1>3. \A x, y \in settings' : x = y
    <2> DEFINE to(x) == IF x.id = req[r].row.id
                        THEN [req[r].row EXCEPT !.columns = Patched(@, req[r].patch)] ELSE x
    <2>1. settings' = {to(x) : x \in settings}
      BY DEF SaveSettings
    <2> HIDE DEF to
    <2> QED
      BY <2>1, OneSettings
  <1>4. TablesOK' /\ IdsAreFresh' /\ OneConfig'
    <2>1. ConfigTables'
      BY <1>1, <1>2, <1>3, TablesApart DEF ConfigTables, ConfigLives, OneConfig
    <2>2. ParticipantTable' /\ \A x \in settings' : x.id < nextId'
      BY <1>1, <1>2, TablesApart DEF ParticipantTable
    <2>3. Cardinality(configs') <= 1
      BY <2>1, AtMostOne DEF ConfigTables, OneConfig
    <2> QED
      BY <1>1, <2>1, <2>2, <2>3, TablesApart
         DEF TablesOK, ConfigTables, ParticipantTable, ConfigLives, IdsAreFresh
  <1>5. \A s \in Requests : req'[s] = IF s = r THEN Idle ELSE req[s]
    BY <1>1 DEF IndInv, TypeOK, Finish, Advance
  <1>6. TypeOK'
    BY <1>1, <1>4, WelcomeType DEF IndInv, TypeOK, Finish, Advance
  <1>7. RequestsConsistent'
    <2>1. ASSUME NEW s \in Requests, At(s, "join", "insert")'
          PROVE  welcome'[s]
      BY <1>5, <2>1 DEF Welcome, At, Idle, IndInv, RequestsConsistent
    <2>2. ASSUME NEW s \in Requests, NEW op \in {"updateRole", "removeUser"}, At(s, op, "save")'
          PROVE  req'[s].row.id < nextId'
      BY <1>1, <1>5, <2>2 DEF At, Idle, IndInv, RequestsConsistent
    <2>3. ASSUME NEW s \in Requests, At(s, "updateSettings", "save")'
          PROVE  /\ req'[s].row.id < nextId'
                 /\ \A x \in settings' : x.id = req'[s].row.id =>
                       /\ x.config = req'[s].row.config
                       /\ s \notin overlapped' => x = req'[s].row
      <3>1. s # r /\ At(s, "updateSettings", "save") /\ req'[s] = req[s]
        BY <1>5, <2>3 DEF At, Idle
      <3>2. s \notin overlapped' => settings' = settings /\ s \notin overlapped
        BY <1>1, <3>1
      <3> QED
        BY <1>1, <1>2, <3>1, <3>2 DEF IndInv, RequestsConsistent
    <2> QED
      BY <2>1, <2>2, <2>3 DEF RequestsConsistent
  <1> QED
    BY <1>4, <1>6, <1>7 DEF IndInv

-----------------------------------------------------------------------------
(* The inductive invariant *)

\* The course that has just been created.
LEMMA InitIndInv == Init => IndInv
  <1> SUFFICES ASSUME Init PROVE IndInv
    OBVIOUS
  <1> USE DEF Init
  <1>1. PICK p \in Passwords : configs = {[id |-> 1, password |-> p]}
    OBVIOUS
  <1>2. 1 \in Id /\ 2 \in 1 .. MaxId + 1 /\ Lecturer \in Users
    BY AdministrationAssumption DEF Id
  <1>3. configs \subseteq Config /\ OneConfig /\ \A c \in configs : c.id = 1
    BY <1>1, <1>2 DEF Config, OneConfig
  <1>4. settings \subseteq Settings /\ \A x \in settings : x.id = 1 /\ x.config = 1
    BY <1>2 DEF Settings, Columns
  <1>5. participants \subseteq Participant /\ \A x \in participants : x.id = 1
    BY <1>2 DEF Participant
  <1>6. TablesOK
    <2>1. Cardinality(configs) <= 1
      BY <1>3, AtMostOne DEF OneConfig
    <2>2. \A x \in settings \cup parts : \E c \in configs : c.id = x.config
      BY <1>1, <1>3, <1>4
    <2> QED
      BY <1>2, <1>3, <1>4, <1>5, <2>1, <2>2 DEF TablesOK
  <1>7. TypeOK
    BY <1>6 DEF TypeOK
  <1>8. IdsAreFresh
    BY <1>4, <1>5 DEF IdsAreFresh
  <1>9. RequestsConsistent
    BY DEF RequestsConsistent, At, Idle
  <1> QED
    BY <1>3, <1>7, <1>8, <1>9 DEF IndInv

\* Every step keeps the invariant.
LEMMA NextIndInv == IndInv /\ [Next]_vars => IndInv'
  <1> SUFFICES ASSUME IndInv, [Next]_vars PROVE IndInv'
    OBVIOUS
  <1>1. CASE Next
    <2>1. Welcome
      BY <1>1 DEF Next
    <2>2. PICK r \in Requests : Start(r) \/ Course(r) \/ CourseConfig(r) \/ CourseParticipants(r)
      BY <1>1 DEF Next
    <2>3. CASE Start(r)
      BY <2>1, <2>3, StartStep
    <2>4. CASE Course(r)
      BY <2>1, <2>4, CreateStep, LoadStep, CourseWriteStep DEF Course
    <2>5. CASE CourseConfig(r)
      BY <2>1, <2>5, CreateStep, LoadStep, CourseWriteStep, WritePartStep, SettingsStep
         DEF CourseConfig
    <2>6. CASE CourseParticipants(r)
      BY <2>1, <2>6, LoadStep, ParticipantsStep DEF CourseParticipants
    <2> QED
      BY <2>2, <2>3, <2>4, <2>5, <2>6
  <1>2. CASE UNCHANGED vars
    BY <1>2 DEF vars, tables, history, IndInv, TypeOK, TablesOK, IdsAreFresh, OneConfig,
                RequestsConsistent, At
  <1> QED
    BY <1>1, <1>2

\* The tables stay consistent, a join past its check has been welcome, and settings that
\* nobody has overlapped are what they were: the inductive invariant.
THEOREM Consistency == Spec => []IndInv
  BY InitIndInv, NextIndInv, PTL DEF Spec

\* Type correctness: one config at most, no row without its config, one row for each
\* one-to-one relation, one participant for each user.
THEOREM TypeCorrectness == Spec => []TypeOK
  BY Consistency, PTL DEF IndInv

-----------------------------------------------------------------------------
(* The properties *)

\* The query whether a user can join says what a join would do.
THEOREM QueryTellsTheTruth == Spec => []CanJoinTellsTheTruth
  <1>1. TypeOK => CanJoinTellsTheTruth
    <2> SUFFICES ASSUME TypeOK, NEW u \in Users
                 PROVE  CanJoin(u) <=> CanInsert(u) /\ \E p \in Passwords : Admits(course, configs, p)
      BY DEF CanJoinTellsTheTruth
    <2>1. course \in {"none", "open", "closed"} /\ \A c \in configs : c.password \in Passwords
      BY DEF TypeOK, TablesOK, Config
    <2> QED
      BY <2>1 DEF CanJoin, CanInsert, Admits, PasswordFits
  <1> QED
    BY <1>1, TypeCorrectness, PTL

\* Participants with ids that were not there are written by three operations only.
LEMMA WhoEnters ==
    ASSUME IndInv, NEW r \in Requests,
           Start(r) \/ Course(r) \/ CourseConfig(r) \/ CourseParticipants(r),
           NEW x \in participants', x.id \notin {y.id : y \in participants}
    PROVE  \/ At(r, "updateRole", "save") /\ req[r].row = x
           \/ At(r, "join", "insert") /\ req[r].user = x.user
           \/ At(r, "createCourse", "write") /\ x.user \in req[r].lecturers
  <1>0. x \notin participants
    OBVIOUS
  <1>1. CASE participants' \subseteq participants
    BY <1>0, <1>1
  <1>2. CASE CreateCourse(r)
    BY <1>0, <1>1, <1>2 DEF CreateCourse, NoChange, GoOn, tables
  <1>3. CASE InsertParticipant(r)
    BY <1>0, <1>1, <1>3 DEF InsertParticipant, NoChange, GoOn, tables
  <1>4. CASE SaveRole(r)
    BY <1>0, <1>1, <1>4 DEF SaveRole, NoChange, GoOn, tables
  <1>5. CASE RemoveUser(r) \/ DeleteCourse(r)
    BY <1>0, <1>5 DEF RemoveUser, DeleteCourse
  <1>6. CASE Start(r)
    BY <1>1, <1>6 DEF Start, StartByStaff, StartRemoveUser, StartJoin, StartCreateCourse, Begin,
                      tables
  <1>7. CASE LoadCourse(r) \/ SaveCourse(r) \/ LoadForJoin(r) \/ FindParticipant(r)
    BY <1>1, <1>7 DEF LoadCourse, SaveCourse, LoadForJoin, FindParticipant, NoChange, GoOn, tables
  <1>8. CASE CourseConfig(r)
    BY <1>1, <1>8 DEF CourseConfig, CreateConfig, UpdateConfig, RemoveConfig, CreatePart,
            RemoveTemplate, LoadCriteria, SaveCriteria, RemoveCriteria, ReadConfig, ReadExisting,
            SavePrevious, SavePart, LoadSettings, SaveSettings, NoChange, GoOn, tables
  <1> QED
    BY <1>2, <1>3, <1>4, <1>5, <1>6, <1>7, <1>8 DEF Course, CourseParticipants

\* Nobody becomes a participant without a join for him, his own or one that another user has
\* sent, that the course admitted at some moment since it began, except as the lecturer of a
\* new course or when a change of his role brings his old row back.
THEOREM EntriesAdmitted == Spec => NobodyEntersUnasked
  <1>1. ASSUME IndInv, [Next]_vars
        PROVE  [\A x \in participants' : x.id \notin {y.id : y \in participants} =>
                  \/ x.id < nextId /\ \E r \in Requests :
                        At(r, "updateRole", "save") /\ req[r].row = x
                  \/ \E r \in Requests :
                        At(r, "join", "insert") /\ req[r].user = x.user /\ welcome[r]
                  \/ \E r \in Requests :
                        At(r, "createCourse", "write") /\ x.user \in req[r].lecturers]_vars
    <2> SUFFICES ASSUME Next, NEW x \in participants', x.id \notin {y.id : y \in participants}
                 PROVE  \/ x.id < nextId /\ \E r \in Requests :
                              At(r, "updateRole", "save") /\ req[r].row = x
                        \/ \E r \in Requests :
                              At(r, "join", "insert") /\ req[r].user = x.user /\ welcome[r]
                        \/ \E r \in Requests :
                              At(r, "createCourse", "write") /\ x.user \in req[r].lecturers
      BY <1>1
    <2>1. PICK r \in Requests : Start(r) \/ Course(r) \/ CourseConfig(r) \/ CourseParticipants(r)
      BY DEF Next
    <2>2. \/ At(r, "updateRole", "save") /\ req[r].row = x
          \/ At(r, "join", "insert") /\ req[r].user = x.user
          \/ At(r, "createCourse", "write") /\ x.user \in req[r].lecturers
      BY <1>1, <2>1, WhoEnters
    <2> QED
      BY <1>1, <2>2 DEF IndInv, RequestsConsistent
  <1> QED
    BY <1>1, Consistency, PTL DEF Spec, NobodyEntersUnasked

\* A step of one request leaves the slots of the others alone, and a request that has
\* loaded the settings can only write them.
LEMMA WhoWritesSettings ==
    ASSUME TypeOK, NEW s \in Requests,
           Start(s) \/ Course(s) \/ CourseConfig(s) \/ CourseParticipants(s),
           NEW r \in Requests, At(r, "updateSettings", "save"), req'[r] = Idle
    PROVE  SaveSettings(r)
  <1>1. req[r] # Idle /\ req \in [Requests -> {Idle} \cup Request]
    BY DEF At, Idle, TypeOK
  <1>2. CASE SaveSettings(s)
    <2>1. req' = [req EXCEPT ![s] = Idle]
      BY <1>2 DEF SaveSettings, Finish, Advance
    <2>2. s = r
      BY <1>1, <2>1
    <2> QED
      BY <1>2, <2>2
  <1>3. CASE ~SaveSettings(s)
    <2>1. s # r
      <3> SUFFICES ASSUME s = r PROVE FALSE
        OBVIOUS
      <3> QED
        BY <1>1, <1>3 DEF At, Idle, Start, StartByStaff, StartRemoveUser, StartJoin,
           StartCreateCourse, Begin, Course, CreateCourse, LoadCourse, SaveCourse, DeleteCourse,
           CourseConfig, CreateConfig, UpdateConfig, RemoveConfig, CreatePart,
           RemoveTemplate, LoadCriteria, SaveCriteria, RemoveCriteria, ReadConfig, ReadExisting,
           SavePrevious, LoadSettings, CourseParticipants, LoadForJoin, InsertParticipant,
           FindParticipant, RemoveUser, SaveRole
    <2>2. \E q : req' = [req EXCEPT ![s] = q]
      BY DEF Start, StartByStaff, StartRemoveUser, StartJoin,
           StartCreateCourse, Begin, Course, CreateCourse, LoadCourse, SaveCourse, DeleteCourse,
           CourseConfig, CreateConfig, UpdateConfig, RemoveConfig, CreatePart,
           RemoveTemplate, LoadCriteria, SaveCriteria, SavePart, RemoveCriteria, ReadConfig,
           ReadExisting, SavePrevious, LoadSettings, SaveSettings, CourseParticipants, LoadForJoin,
           InsertParticipant, FindParticipant, RemoveUser, SaveRole, NoChange, GoOn, Finish, Advance
    <2> QED
      BY <1>1, <2>1, <2>2
  <1> QED
    BY <1>2, <1>3

\* A change of the group settings that no other one has overlapped keeps the columns that
\* the client has not sent.
THEOREM NothingLostFromSettings == Spec => SettingsKeepOtherChanges
  <1>1. ASSUME IndInv, [Next]_vars
        PROVE  [\A r \in Requests :
                  At(r, "updateSettings", "save") /\ req'[r] = Idle /\ r \notin overlapped =>
                     \A x \in settings, y \in settings' : x.id = y.id =>
                        \A k \in DOMAIN x.columns \ DOMAIN req[r].patch :
                           x.columns[k] = y.columns[k]]_vars
    <2> SUFFICES ASSUME Next, NEW r \in Requests, At(r, "updateSettings", "save"),
                        req'[r] = Idle, r \notin overlapped,
                        NEW x \in settings, NEW y \in settings', x.id = y.id,
                        NEW k \in DOMAIN x.columns \ DOMAIN req[r].patch
                 PROVE  x.columns[k] = y.columns[k]
      BY <1>1
    <2>1. PICK s \in Requests : Start(s) \/ Course(s) \/ CourseConfig(s) \/ CourseParticipants(s)
      BY DEF Next
    <2>2. SaveSettings(r)
      BY <1>1, <2>1, WhoWritesSettings DEF IndInv
    <2>3. x.columns \in Columns /\ req[r].patch \in Patch
      BY <1>1, <2>2, WrittenSettings DEF IndInv, TypeOK, TablesOK, Settings
    <2>4. CASE x.id = req[r].row.id
      <3>1. x = req[r].row
        BY <1>1, <2>4 DEF IndInv, RequestsConsistent
      <3>2. y.columns = Patched(x.columns, req[r].patch)
        BY <1>1, <2>2, <2>4, <3>1, WrittenSettings
      <3> QED
        BY <2>3, <3>2, PatchedColumns
    <2>5. CASE x.id # req[r].row.id
      BY <1>1, <2>2, <2>5, OneSettings, WrittenSettings
    <2> QED
      BY <2>4, <2>5
  <1> QED
    BY <1>1, Consistency, PTL DEF Spec, SettingsKeepOtherChanges

=============================================================================
