------------------------------- MODULE Accounts -------------------------------
(***************************************************************************)
(* The accounts of the users: the tables users, user_settings and (as far  *)
(* as saving an account touches it) participant, the cache of authenticated *)
(* users, SparkyAuthStrategy, and the routes of administrators and of the  *)
(* users' settings, step by step between database calls.                   *)
(*                                                                         *)
(* A user has one token here, and email and displayName are one value that *)
(* Sparkyservice knows.  Sparkyservice is external: it confirms a token or *)
(* fails.                                                                  *)
(***************************************************************************)
EXTENDS Integers, FiniteSets

CONSTANTS
    Users,          \* user names
    Infos, NoEmail, \* what Sparkyservice says of a user; NoEmail has an empty address
    Roles, Default, \* roles of accounts, and the one of a new account
    Refusals,       \* the sets of events that users blacklist
    Requests, Ops,  \* slots of requests in flight, operations in use
    MaxRequests,    \* bound: how many requests and other changes there are
    MaxId           \* bound: ids of accounts and participants

\* The keys of a blacklist.
Event == {"COURSE_JOINED", "ASSIGNMENT_CREATED", "ASSIGNMENT_REMOVED", "ASSIGNMENT_STATE_CHANGED",
          "GROUP_REGISTERED", "GROUP_UNREGISTERED", "USER_REGISTERED", "USER_UNREGISTERED",
          "USER_JOINED_GROUP", "USER_LEFT_GROUP", "REGISTRATIONS_CREATED", "REGISTRATIONS_REMOVED"}

ASSUME AccountsAssumption ==
    /\ NoEmail \in Infos /\ Default \in Roles
    /\ Refusals \subseteq SUBSET Event
    /\ MaxRequests \in Nat /\ MaxId \in Nat
    /\ IsFiniteSet(Users) /\ Cardinality(Users) <= MaxId

VARIABLES
    sparky,       \* what Sparkyservice says of each user
    accounts,     \* rows of users
    settings,     \* rows of user_settings
    participants, \* rows of participant
    nextId,
    cache,        \* the user that is cached for each token
    req, started,
    overtaken,    \* history: logins whose account was changed since they read it
    stale,        \* history: users whose account was changed since it was cached
    revived       \* history: ids of accounts that were saved after their deletion

rows == <<accounts, settings, participants, nextId>>
accountVars == <<sparky, rows, cache, req, started, overtaken, stale, revived>>

-----------------------------------------------------------------------------
(* Data *)

Id == 1 .. MaxId
Account == [id : Id, user : Users, info : Infos, role : Roles]
Settings == [id : Id, allowEmails : BOOLEAN, blacklisted : Refusals \cup {{}}]
Participant == [id : Id, account : Id]
NotCached == [id |-> 0]
Idle == [op |-> "none", pc |-> "idle"]

\* Requests in flight: what the client has sent, and what has been read.
AccountRequest ==
    [op : {"login"}, pc : {"verify"}, user : Users]
    \cup [op : {"login"}, pc : {"find", "create"}, user : Users, info : Infos]
    \cup [op : {"login"}, pc : {"cache"}, user : Users, row : Account]
    \cup [op : {"login", "update"}, pc : {"reread"}, user : Users, row : Account]
    \cup [op : {"login", "update"}, pc : {"save"}, user : Users, row : Account, courses : SUBSET Id]
    \cup [op : {"create"}, pc : {"insert"}, user : Users, info : Infos, role : Roles]

TypeOK ==
    /\ sparky \in [Users -> Infos]
    /\ accounts \subseteq Account
    /\ \A x, y \in accounts : x.id = y.id \/ x.user = y.user => x = y
    /\ settings \subseteq Settings
    /\ \A x, y \in settings : x.id = y.id => x = y
    /\ participants \subseteq Participant
    /\ \A x \in settings : \E y \in accounts : y.id = x.id
    /\ \A x \in participants : \E y \in accounts : y.id = x.account
    /\ nextId \in 1 .. MaxId + 1
    /\ cache \in [Users -> Account \cup {NotCached}]
    /\ overtaken \subseteq Requests /\ stale \subseteq Users /\ revived \subseteq Id

AccountOf(u) == {x \in accounts : x.user = u}
Others(id) == {x \in accounts : x.id # id}
CoursesOf(id) == {x.id : x \in {y \in participants : y.account = id}}

\* Logins of a user that have read his account and not cached it yet.
Reading(u) == {r \in Requests : req[r].op = "login" /\ req[r].user = u
                                /\ req[r].pc \in {"reread", "save", "cache"}}

-----------------------------------------------------------------------------
(* Requests *)

Count == started < MaxRequests /\ started' = started + 1
NewId == nextId <= MaxId /\ nextId' = nextId + 1

Begin(r, q) ==
    /\ req[r] = Idle /\ q.op \in Ops
    /\ Count
    /\ req' = [req EXCEPT ![r] = q]
    /\ overtaken' = overtaken \ {r}
    /\ UNCHANGED <<sparky, rows, cache, stale, revived>>

At(r, op, pc) == req[r].op = op /\ req[r].pc = pc
Advance(r, next) == req' = [req EXCEPT ![r] = next] /\ UNCHANGED <<started, sparky>>
GoOn(r, next) == Advance(r, next) /\ UNCHANGED <<rows, cache, overtaken, stale, revived>>
NoChange(r) == GoOn(r, Idle)

\* Request r has written the account of u.
Changed(r, u) ==
    /\ overtaken' = overtaken \cup (Reading(u) \ {r})
    /\ stale' = stale \cup {u}

-----------------------------------------------------------------------------
(* Writing accounts *)

\* Mutant: names are not unique.
NameIsFreeAlways(u) == TRUE
NameIsFree(u) == AccountOf(u) = {}

\* createUser: one transaction.  The insert of the settings is not awaited, but
\* its statement is sent before the commit.
InsertAccount(r, u, info, role) ==
    LET new == [id |-> nextId, user |-> u, info |-> info, role |-> role] IN
    /\ NewId
    /\ accounts' = accounts \cup {new}
    /\ settings' = settings \cup {[id |-> nextId, allowEmails |-> TRUE, blacklisted |-> {}]}
    /\ Changed(r, u)
    /\ UNCHANGED <<participants, cache, revived>>

\* updateUser has loaded the account x with the participants of its user: one
\* that was added since would lose its user, which the database refuses.
CanSave(x, courses) ==
    IF \E y \in accounts : y.id = x.id
    THEN CoursesOf(x.id) \subseteq courses
    ELSE NameIsFree(x.user)

\* Mutant: save is not awaited and fails.
SaveAccountNotAwaited(r, x) ==
    /\ accounts' = accounts
    /\ UNCHANGED <<settings, participants, nextId, cache, overtaken, stale, revived>>

\* save inserts an account again that was deleted meanwhile.
SaveAccount(r, x) ==
    /\ accounts' = Others(x.id) \cup {x}
    /\ revived' = IF \E y \in accounts : y.id = x.id THEN revived ELSE revived \cup {x.id}
    /\ Changed(r, x.user)
    /\ UNCHANGED <<settings, participants, nextId, cache>>

-----------------------------------------------------------------------------
(* Authentication *)

\* A cached token lets the request in at once: nothing changes.
StartLogin(r, u) ==
    /\ cache[u] = NotCached
    /\ Begin(r, [op |-> "login", pc |-> "verify", user |-> u])

\* checkAuthentication answers with the info of now, or null.
Verify(r) ==
    LET q == req[r] IN
    /\ At(r, "login", "verify")
    /\ \/ GoOn(r, [op |-> "login", pc |-> "find", user |-> q.user, info |-> sparky[q.user]])
       \/ NoChange(r)

\* getOrCreateUser
FindAccount(r) ==
    LET q == req[r] IN
    /\ At(r, "login", "find")
    /\ \/ \E x \in AccountOf(q.user) :
             IF x.info = q.info
             THEN GoOn(r, [op |-> "login", pc |-> "cache", user |-> q.user, row |-> x])
             ELSE GoOn(r, [op |-> "login", pc |-> "reread", user |-> q.user,
                           row |-> [x EXCEPT !.info = q.info]])
       \/ AccountOf(q.user) = {} /\ GoOn(r, [q EXCEPT !.pc = "create"])

CreateAccount(r) ==
    LET q == req[r] IN
    /\ At(r, "login", "create")
    /\ \/ /\ NameIsFree(q.user)
          /\ InsertAccount(r, q.user, q.info, Default)
          /\ Advance(r, [op |-> "login", pc |-> "cache", user |-> q.user,
                         row |-> [id |-> nextId, user |-> q.user, info |-> q.info,
                                  role |-> Default]])
       \/ ~NameIsFree(q.user) /\ NoChange(r)

\* updateUser of the repository reads the account and all its participants.
Reread(r) ==
    LET q == req[r] IN
    /\ \E op \in {"login", "update"} : At(r, op, "reread")
    /\ IF \E x \in accounts : x.id = q.row.id
       THEN GoOn(r, [op |-> q.op, pc |-> "save", user |-> q.user, row |-> q.row,
                     courses |-> CoursesOf(q.row.id)])
       ELSE NoChange(r)

\* Mutant: the role is taken from Sparkyservice again.
LoginColumnsWithRole(row) == [row EXCEPT !.role = Default]

\* updateUser of AuthService: { ...user, email, displayName }
LoginColumns(row) == row

SaveLogin(r) ==
    LET q == req[r] x == LoginColumns(q.row) IN
    /\ At(r, "login", "save")
    /\ \/ /\ CanSave(x, q.courses)
          /\ SaveAccount(r, x)
          /\ Advance(r, [op |-> "login", pc |-> "cache", user |-> q.user, row |-> x])
       \/ ~CanSave(x, q.courses) /\ NoChange(r)

\* cache.set, and the request is let in as this user.
CacheUser(r) ==
    LET q == req[r] IN
    /\ At(r, "login", "cache")
    /\ cache' = [cache EXCEPT ![q.user] = q.row]
    /\ stale' = IF r \in overtaken THEN stale \cup {q.user} ELSE stale \ {q.user}
    /\ Advance(r, Idle)
    /\ UNCHANGED <<rows, overtaken, revived>>

\* One hour later.  Nothing else ever removes an entry.
Expire(u) ==
    /\ cache[u] # NotCached
    /\ cache' = [cache EXCEPT ![u] = NotCached]
    /\ UNCHANGED <<sparky, rows, req, started, overtaken, stale, revived>>

SparkyChanges(u, info) ==
    /\ "sparky" \in Ops /\ sparky[u] # info
    /\ Count
    /\ sparky' = [sparky EXCEPT ![u] = info]
    /\ UNCHANGED <<rows, cache, req, overtaken, stale, revived>>

-----------------------------------------------------------------------------
(* The routes of users *)

\* createUser of an administrator, who knows what Sparkyservice knows
StartCreate(r, u, info, role) ==
    Begin(r, [op |-> "create", pc |-> "insert", user |-> u, info |-> info, role |-> role])

CreateUser(r) ==
    LET q == req[r] IN
    /\ At(r, "create", "insert")
    /\ \/ NameIsFree(q.user) /\ InsertAccount(r, q.user, q.info, q.role) /\ Advance(r, Idle)
       \/ ~NameIsFree(q.user) /\ NoChange(r)

\* An administrator sends all columns of an account that he knows.
StartUpdate(r, x, role) ==
    Begin(r, [op |-> "update", pc |-> "reread", user |-> x.user,
              row |-> [x EXCEPT !.role = role]])

SaveUpdate(r) ==
    LET q == req[r] IN
    /\ At(r, "update", "save")
    /\ \/ CanSave(q.row, q.courses) /\ SaveAccount(r, q.row) /\ Advance(r, Idle)
       \/ ~CanSave(q.row, q.courses) /\ NoChange(r)

\* remove, with the cascades; the cache keeps the user.
DeleteUser(x) ==
    /\ "delete" \in Ops /\ Count
    /\ accounts' = Others(x.id)
    /\ settings' = {y \in settings : y.id # x.id}
    /\ participants' = {y \in participants : y.account # x.id}
    /\ overtaken' = overtaken \cup Reading(x.user)
    /\ stale' = stale \cup {x.user}
    /\ UNCHANGED <<sparky, nextId, cache, req, revived>>

\* updateSettings: one statement, and the row is read again, which fails without it.
ChangeSettings(x, allow, blacklisted) ==
    /\ "settings" \in Ops /\ Count
    /\ settings' = {IF y.id = x.id THEN [y EXCEPT !.allowEmails = allow,
                                                  !.blacklisted = blacklisted]
                    ELSE y : y \in settings}
    /\ UNCHANGED <<sparky, accounts, participants, nextId, cache, req, overtaken, stale, revived>>

\* Who signs up to and leaves a course: CourseParticipantsService.
SignUp(x) ==
    /\ "course" \in Ops /\ Count
    /\ CoursesOf(x.id) = {}
    /\ NewId
    /\ participants' = participants \cup {[id |-> nextId, account |-> x.id]}
    /\ UNCHANGED <<sparky, accounts, settings, cache, req, overtaken, stale, revived>>

SignOff(p) ==
    /\ "course" \in Ops /\ Count
    /\ participants' = participants \ {p}
    /\ UNCHANGED <<sparky, accounts, settings, nextId, cache, req, overtaken, stale, revived>>

\* The process ends: its cache and its requests are gone.
Crash ==
    /\ "crash" \in Ops /\ Count
    /\ cache' = [u \in Users |-> NotCached]
    /\ req' = [r \in Requests |-> Idle]
    /\ overtaken' = {} /\ stale' = {}
    /\ UNCHANGED <<sparky, rows, revived>>

-----------------------------------------------------------------------------
(* Specification *)

\* Some users have an account and are in the course, and nobody has logged in
\* since the server was started.
InitAccounts ==
    /\ \E info \in Infos : sparky = [u \in Users |-> info]
    /\ \E known \in SUBSET Users :
          \E number \in [known -> 1 .. Cardinality(known)] :
             /\ \A u, v \in known : number[u] = number[v] => u = v
             /\ accounts = {[id |-> number[u], user |-> u, info |-> sparky[u],
                             role |-> Default] : u \in known}
             /\ participants = {[id |-> number[u], account |-> number[u]] : u \in known}
             /\ nextId = Cardinality(known) + 1
    /\ settings = {[id |-> x.id, allowEmails |-> TRUE, blacklisted |-> {}] : x \in accounts}
    /\ cache = [u \in Users |-> NotCached]
    /\ req = [r \in Requests |-> Idle]
    /\ started = 0
    /\ overtaken = {} /\ stale = {} /\ revived = {}

Login(r) ==
    \/ Verify(r) \/ FindAccount(r) \/ CreateAccount(r)
    \/ Reread(r) \/ SaveLogin(r) \/ CacheUser(r)

Administration(r) ==
    \/ \E u \in Users, role \in Roles : StartCreate(r, u, sparky[u], role)
    \/ \E x \in accounts, role \in Roles : StartUpdate(r, x, role)
    \/ CreateUser(r) \/ SaveUpdate(r)

AccountsNext ==
    \/ \E r \in Requests : (\E u \in Users : StartLogin(r, u)) \/ Login(r) \/ Administration(r)
    \/ \E u \in Users : Expire(u) \/ \E info \in Infos : SparkyChanges(u, info)
    \/ \E x \in accounts :
          \/ DeleteUser(x) \/ SignUp(x)
          \/ \E allow \in BOOLEAN, b \in Refusals :
                ChangeSettings(x, allow, b)
    \/ \E p \in participants : SignOff(p)

-----------------------------------------------------------------------------
(* Properties *)

\* The user who is cached for a token, and whom requests are let in as, is the
\* account as it is stored, unless another request has changed it since it was read.
CachedUserIsStored ==
    \A u \in Users : cache[u] # NotCached /\ u \notin stale => cache[u] \in accounts

\* A login takes over what Sparkyservice says and leaves the role alone that an
\* administrator has given, unless the administrator gave it while it ran: then
\* the role that the login has read before is written back.
RoleSurvivesLogin ==
    [][\A x \in accounts, y \in accounts' : x.id = y.id /\ x.role # y.role =>
          \E r \in Requests :
             \/ At(r, "update", "save") /\ req'[r] = Idle
             \/ At(r, "login", "save") /\ r \in overtaken]_accountVars

-----------------------------------------------------------------------------
(* The inductive strengthening *)

\* Requests that have read an account, and the accounts that may be written again.
HasRow(r) == req[r].op \in {"login", "update"} /\ req[r].pc \in {"reread", "save", "cache"}
KnownAccounts == accounts \cup {req[r].row : r \in {s \in Requests : HasRow(s)}}

\* Ids are not used twice, and an account keeps its user.
AccountsKnown ==
    /\ \A x, y \in KnownAccounts : x.id = y.id => x.user = y.user
    /\ \A x \in KnownAccounts : x.id < nextId
    /\ \A r \in Requests : HasRow(r) => req[r].user = req[r].row.user
    /\ \A u \in Users : cache[u] # NotCached => cache[u].user = u

\* What a login has read is what is stored, as long as nobody has changed the account.
ReadIsStored(r) ==
    /\ req[r].pc = "cache" => req[r].row \in accounts
    /\ req[r].pc \in {"reread", "save"} =>
          \E x \in accounts : x.id = req[r].row.id /\ x.role = req[r].row.role
LoginsConsistent == \A r \in Requests \ overtaken : req[r].op = "login" => ReadIsStored(r)

AccountsInv == TypeOK /\ AccountsKnown /\ LoginsConsistent /\ CachedUserIsStored
=============================================================================
