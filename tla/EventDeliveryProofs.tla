-------------------------- MODULE EventDeliveryProofs --------------------------
(***************************************************************************)
(* Proofs about Accounts and EventDelivery, for every value of their       *)
(* constants.                                                              *)
(***************************************************************************)
EXTENDS EventDelivery, FiniteSetTheorems, TLAPS

-----------------------------------------------------------------------------
(* Lemmas about requests *)

RequestsOK == req \in [Requests -> {Idle} \cup AccountRequest \cup SubscriberRequest]

\* What a request about accounts carries, by its operation.
LEMMA AccountFields ==
    ASSUME NEW q \in AccountRequest
    PROVE  /\ q.op \in {"login", "update", "create"}
           /\ q.op = "login" =>
                 /\ q.pc \in {"verify", "find", "create", "cache", "reread", "save"}
                 /\ q.pc \in {"find", "create"} => q.info \in Infos
           /\ q.op = "update" => q.pc \in {"reread", "save"}
           /\ q.op = "create" => q.pc = "insert" /\ q.info \in Infos /\ q.role \in Roles
           /\ q.user \in Users
           /\ q.pc \in {"cache", "reread", "save"} => q.row \in Account
           /\ q.pc = "save" => q.courses \subseteq Id
  BY DEF AccountRequest

\* What a request of a subscriber carries.
LEMMA SubscriberFields ==
    ASSUME NEW q \in SubscriberRequest
    PROVE  /\ q.op \in {"subscribe", "unsubscribe"}
           /\ q.pc \in {"find", "save"}
           /\ q.pc = "find" => q.name \in Names
           /\ q.pc = "find" /\ q.op = "subscribe" => q.events \in Interests
           /\ q.pc = "save" => /\ q.row \in [id : Id \cup {0}, name : Names, events : Interests]
                               /\ q.row.id \in Id \cup {0} /\ q.row.name \in Names
                               /\ q.row.events \in Interests
  BY DEF SubscriberRequest

\* A slot that is at a step of a handler of accounts holds such a request.
LEMMA BusySlot ==
    ASSUME RequestsOK, NEW r \in Requests, req[r].op \in {"login", "update", "create"}
    PROVE  req[r] \in AccountRequest /\ req[r] # Idle
  BY SubscriberFields DEF RequestsOK, Idle

\* A slot that is at a step of a handler of subscribers holds such a request.
LEMMA SubscriberSlot ==
    ASSUME RequestsOK, NEW r \in Requests, req[r].op \in {"subscribe", "unsubscribe"}
    PROVE  req[r] \in SubscriberRequest /\ req[r] # Idle
  BY AccountFields DEF RequestsOK, Idle

\* An account that is known is stored or was read by a request.
LEMMA KnownAccountsAre ==
    ASSUME NEW x
    PROVE  x \in KnownAccounts <=> x \in accounts \/ \E r \in Requests : HasRow(r) /\ x = req[r].row
  BY DEF KnownAccounts

\* What is known about accounts are accounts.
LEMMA KnownAreAccounts ==
    ASSUME RequestsOK, TypeOK
    PROVE  /\ KnownAccounts \subseteq Account
           /\ \A x \in KnownAccounts : x.id \in Nat /\ x.id \in Id /\ x.user \in Users
           /\ nextId \in Nat
  <1>1. KnownAccounts \subseteq Account
    BY KnownAccountsAre, BusySlot, AccountFields DEF HasRow, TypeOK
  <1> QED
    BY <1>1, AccountsAssumption DEF Account, Id, TypeOK

\* The slots after a step: as before, without an account, or with one that is known or new.
Slots(new) ==
    /\ RequestsOK'
    /\ \A s \in Requests :
          \/ req'[s] = req[s] \/ ~HasRow(s)'
          \/ /\ req'[s].user = req'[s].row.user
             /\ \/ \E x \in KnownAccounts : x.id = req'[s].row.id /\ x.user = req'[s].row.user
                \/ req'[s].row \in new

\* A step of one request.
LEMMA OneSlot ==
    ASSUME RequestsOK, NEW r \in Requests, NEW new,
           NEW q \in {Idle} \cup AccountRequest \cup SubscriberRequest, req' = [req EXCEPT ![r] = q],
           q.op \in {"login", "update"} /\ q.pc \in {"reread", "save", "cache"} =>
              /\ q.user = q.row.user
              /\ \/ \E x \in KnownAccounts : x.id = q.row.id /\ x.user = q.row.user
                 \/ q.row \in new
    PROVE  Slots(new) /\ req'[r] = q /\ \A s \in Requests \ {r} : req'[s] = req[s]
  BY DEF Slots, RequestsOK, HasRow

\* New accounts have new ids; whatever else is known keeps its user.
LEMMA AccountsStayKnown ==
    ASSUME AccountsInv, RequestsOK, NEW new, Slots(new),
           nextId' \in Nat, nextId' >= nextId,
           \A x \in accounts' : x \in new \/ \E y \in KnownAccounts : y.id = x.id /\ y.user = x.user,
           \A x \in new : x.id \in Nat /\ x.id >= nextId /\ x.id < nextId',
           \A x, y \in new : x.id = y.id => x.user = y.user,
           \A u \in Users : cache'[u] # NotCached => cache'[u].user = u
    PROVE  AccountsKnown'
  <1>1. ASSUME NEW x \in KnownAccounts'
        PROVE  x \in new \/ \E y \in KnownAccounts : y.id = x.id /\ y.user = x.user
    <2>1. CASE x \in accounts'
      BY <2>1
    <2>2. ASSUME NEW s \in Requests, HasRow(s)', x = req'[s].row
          PROVE  x \in new \/ \E y \in KnownAccounts : y.id = x.id /\ y.user = x.user
      <3>1. CASE req'[s] = req[s]
        BY <2>2, <3>1, KnownAccountsAre DEF HasRow
      <3> QED
        BY <2>2, <3>1 DEF Slots
    <2> QED
      BY <2>1, <2>2 DEF KnownAccounts
  <1>2. \A x \in KnownAccounts : x.id \in Nat /\ x.id < nextId /\ nextId \in Nat
    BY KnownAreAccounts DEF AccountsInv, AccountsKnown
  <1>3. \A x, y \in KnownAccounts : x.id = y.id => x.user = y.user
    BY DEF AccountsInv, AccountsKnown
  <1>4. ASSUME NEW s \in Requests, HasRow(s)'
        PROVE  req'[s].user = req'[s].row.user
    <2>1. CASE req'[s] = req[s]
      BY <1>4, <2>1 DEF HasRow, AccountsInv, AccountsKnown
    <2> QED
      BY <1>4, <2>1 DEF Slots
  <1>5. \A x, y \in KnownAccounts' : x.id = y.id => x.user = y.user
    BY <1>1, <1>2, <1>3
  <1>6. \A x \in KnownAccounts' : x.id < nextId'
    BY <1>1, <1>2
  <1> QED
    BY <1>4, <1>5, <1>6 DEF AccountsKnown

\* Only the account of u is written, and that is noted.
LEMMA OneUserWritten ==
    ASSUME AccountsInv, RequestsOK, NEW u, \A x : x.user # u => (x \in accounts => x \in accounts'),
           cache' = cache, stale' = stale \cup {u},
           \A s \in Requests \ overtaken' : req'[s].op = "login" =>
              \/ s \notin overtaken /\ s \notin Reading(u) /\ req'[s] = req[s]
              \/ ReadIsStored(s)'
    PROVE  LoginsConsistent' /\ CachedUserIsStored'
  <1>1. ASSUME NEW s \in Requests, s \notin overtaken, s \notin Reading(u), req'[s] = req[s],
               req[s].op = "login"
        PROVE  ReadIsStored(s)'
    <2>1. ReadIsStored(s)
      BY <1>1 DEF AccountsInv, LoginsConsistent
    <2>2. CASE ~HasRow(s)
      BY <1>1, <2>2 DEF HasRow, ReadIsStored
    <2>3. CASE HasRow(s)
      <3>1. req[s].user # u /\ req[s].row.user # u /\ req[s].row \in KnownAccounts
        BY <1>1, <2>3, KnownAccountsAre DEF HasRow, Reading, AccountsInv, AccountsKnown
      <3>2. \A x \in accounts : x.id = req[s].row.id => x.user # u
        BY <3>1, KnownAccountsAre DEF AccountsInv, AccountsKnown
      <3> QED
        BY <1>1, <2>1, <3>1, <3>2 DEF ReadIsStored
    <2> QED
      BY <2>2, <2>3
  <1>2. LoginsConsistent'
    BY <1>1 DEF LoginsConsistent
  <1>3. CachedUserIsStored'
    BY DEF CachedUserIsStored, AccountsInv, AccountsKnown
  <1> QED
    BY <1>2, <1>3

-----------------------------------------------------------------------------
(* The invariant of the accounts: steps that write no account *)

\* Accounts, their settings and participants and the cache stay; a request may go on.
LEMMA AccountsKept ==
    ASSUME AccountsInv, RequestsOK, NEW new, new = {}, Slots(new),
           UNCHANGED <<accounts, settings, participants, cache, stale, revived>>,
           sparky' \in [Users -> Infos], nextId' \in 1 .. MaxId + 1, nextId' >= nextId,
           overtaken' \subseteq Requests,
           \A s \in Requests \ overtaken' : req'[s].op = "login" =>
              \/ s \notin overtaken /\ req'[s] = req[s]
              \/ ReadIsStored(s)'
    PROVE  AccountsInv'
  <1>1. TypeOK'
    BY DEF AccountsInv, TypeOK
  <1>2. AccountsKnown'
    <2>1. /\ \A x \in accounts' : x \in KnownAccounts
          /\ \A x \in new : x.id \in Nat /\ x.id >= nextId /\ x.id < nextId'
          /\ \A x, y \in new : x.id = y.id => x.user = y.user
          /\ \A u \in Users : cache'[u] # NotCached => cache'[u].user = u
          /\ nextId' \in Nat
      BY AccountsAssumption DEF KnownAccounts, AccountsInv, AccountsKnown
    <2> QED
      BY <2>1, AccountsStayKnown
  <1>3. LoginsConsistent'
    BY DEF AccountsInv, LoginsConsistent, ReadIsStored
  <1>4. CachedUserIsStored'
    BY DEF AccountsInv, CachedUserIsStored
  <1> QED
    BY <1>1, <1>2, <1>3, <1>4 DEF AccountsInv

\* A request goes on or ends without having changed anything.
LEMMA GoesOn ==
    ASSUME AccountsInv, RequestsOK, NEW r \in Requests,
           NEW q \in {Idle} \cup AccountRequest \cup SubscriberRequest, GoOn(r, q),
           q.op \in {"login", "update"} /\ q.pc \in {"reread", "save", "cache"} =>
              /\ q.user = q.row.user
              /\ \E x \in KnownAccounts : x.id = q.row.id /\ x.user = q.row.user,
           r \notin overtaken /\ q.op = "login" =>
              /\ q.pc = "cache" => q.row \in accounts
              /\ q.pc \in {"reread", "save"} => \E x \in accounts : x.id = q.row.id /\ x.role = q.row.role
    PROVE  AccountsInv' /\ RequestsOK'
  <1>0. PICK new : new = {}
    OBVIOUS
  <1>1. /\ req' = [req EXCEPT ![r] = q]
        /\ UNCHANGED <<sparky, accounts, settings, participants, nextId, cache, overtaken, stale, revived>>
    BY DEF GoOn, Advance, rows
  <1>2. Slots(new) /\ req'[r] = q /\ \A s \in Requests \ {r} : req'[s] = req[s]
    BY <1>1, OneSlot
  <1>3. \A s \in Requests \ overtaken' : req'[s].op = "login" =>
           \/ s \notin overtaken /\ req'[s] = req[s]
           \/ ReadIsStored(s)'
    BY <1>1, <1>2 DEF ReadIsStored
  <1>4. nextId' \in 1 .. MaxId + 1 /\ nextId' >= nextId
    BY <1>1, KnownAreAccounts DEF AccountsInv, TypeOK
  <1>5. sparky' \in [Users -> Infos] /\ overtaken' \subseteq Requests
    BY <1>1 DEF AccountsInv, TypeOK
  <1>6. RequestsOK'
    BY <1>2 DEF Slots
  <1> QED
    BY <1>0, <1>1, <1>2, <1>3, <1>4, <1>5, <1>6, AccountsKept

\* A request begins: nobody has overtaken it yet.
LEMMA Begins ==
    ASSUME AccountsInv, RequestsOK, NEW r \in Requests,
           NEW q \in AccountRequest \cup SubscriberRequest, Begin(r, q),
           q.op = "login" => q.pc = "verify",
           q.op = "update" => /\ q.user = q.row.user
                              /\ \E x \in KnownAccounts : x.id = q.row.id /\ x.user = q.row.user
    PROVE  AccountsInv' /\ RequestsOK'
  <1>0. PICK new : new = {}
    OBVIOUS
  <1>1. /\ req' = [req EXCEPT ![r] = q] /\ overtaken' = overtaken \ {r}
        /\ UNCHANGED <<sparky, accounts, settings, participants, nextId, cache, stale, revived>>
    BY DEF Begin, rows
  <1>2. Slots(new) /\ req'[r] = q /\ \A s \in Requests \ {r} : req'[s] = req[s]
    BY <1>1, OneSlot
  <1>3. \A s \in Requests \ overtaken' : req'[s].op = "login" =>
           \/ s \notin overtaken /\ req'[s] = req[s]
           \/ ReadIsStored(s)'
    BY <1>1, <1>2 DEF ReadIsStored
  <1>4. nextId' \in 1 .. MaxId + 1 /\ nextId' >= nextId
    BY <1>1, KnownAreAccounts DEF AccountsInv, TypeOK
  <1>5. sparky' \in [Users -> Infos] /\ overtaken' \subseteq Requests
    BY <1>1 DEF AccountsInv, TypeOK
  <1>6. RequestsOK'
    BY <1>2 DEF Slots
  <1> QED
    BY <1>0, <1>1, <1>2, <1>3, <1>4, <1>5, <1>6, AccountsKept

\* No request begins, goes on or ends.
LEMMA NoSlot ==
    ASSUME RequestsOK, req' = req, NEW new
    PROVE  Slots(new)
  BY DEF Slots, RequestsOK

\* Requests that begin.
LEMMA StartStep ==
    ASSUME AccountsInv, RequestsOK, NEW r \in Requests,
           \/ \E u \in Users : StartLogin(r, u)
           \/ \E u \in Users, role \in Roles : StartCreate(r, u, sparky[u], role)
           \/ \E x \in accounts, role \in Roles : StartUpdate(r, x, role)
    PROVE  AccountsInv' /\ RequestsOK'
  <1>1. ASSUME NEW u \in Users, StartLogin(r, u)
        PROVE  AccountsInv' /\ RequestsOK'
    <2> DEFINE q == [op |-> "login", pc |-> "verify", user |-> u]
    <2>1. q \in AccountRequest /\ q.op = "login" /\ q.pc = "verify" /\ Begin(r, q)
      BY <1>1 DEF StartLogin, AccountRequest
    <2> HIDE DEF q
    <2> QED
      BY <2>1, Begins
  <1>2. ASSUME NEW u \in Users, NEW role \in Roles, StartCreate(r, u, sparky[u], role)
        PROVE  AccountsInv' /\ RequestsOK'
    <2> DEFINE q == [op |-> "create", pc |-> "insert", user |-> u, info |-> sparky[u], role |-> role]
    <2>1. q \in AccountRequest /\ q.op = "create" /\ Begin(r, q)
      BY <1>2 DEF StartCreate, AccountRequest, AccountsInv, TypeOK
    <2> HIDE DEF q
    <2> QED
      BY <2>1, Begins
  <1>3. ASSUME NEW x \in accounts, NEW role \in Roles, StartUpdate(r, x, role)
        PROVE  AccountsInv' /\ RequestsOK'
    <2> DEFINE row == [x EXCEPT !.role = role]
               q == [op |-> "update", pc |-> "reread", user |-> x.user, row |-> row]
    <2>1. /\ row \in Account /\ row.id = x.id /\ row.user = x.user /\ x.user \in Users
          /\ x \in KnownAccounts
      BY DEF AccountsInv, TypeOK, Account, KnownAccounts
    <2>2. Begin(r, q)
      BY <1>3 DEF StartUpdate
    <2> HIDE DEF row
    <2>3. /\ q \in AccountRequest /\ q.op = "update" /\ q.user = x.user /\ q.row = row
      BY <2>1 DEF AccountRequest
    <2> HIDE DEF q
    <2> QED
      BY <2>1, <2>2, <2>3, Begins
  <1> QED
    BY <1>1, <1>2, <1>3

\* Steps of a login or an update that only read.
LEMMA ReadStep ==
    ASSUME AccountsInv, RequestsOK, NEW r \in Requests, Verify(r) \/ FindAccount(r) \/ Reread(r)
    PROVE  AccountsInv' /\ RequestsOK'
  <1> DEFINE q == req[r]
  <1> USE DEF NoChange
  <1>0. ASSUME GoOn(r, Idle)
        PROVE  AccountsInv' /\ RequestsOK'
    BY <1>0, GoesOn DEF Idle
  <1>1. CASE Verify(r)
    <2>1. q \in AccountRequest /\ q.op = "login"
      BY <1>1, BusySlot DEF Verify, At
    <2> DEFINE next == [op |-> "login", pc |-> "find", user |-> q.user, info |-> sparky[q.user]]
    <2>2. next \in AccountRequest /\ next.op = "login" /\ next.pc = "find"
      BY <2>1, AccountFields DEF AccountRequest, AccountsInv, TypeOK
    <2>3. GoOn(r, next) \/ GoOn(r, Idle)
      BY <1>1 DEF Verify
    <2> HIDE DEF next
    <2> QED
      BY <1>0, <2>2, <2>3, GoesOn
  <1>2. CASE FindAccount(r)
    <2>1. q \in AccountRequest /\ q.op = "login" /\ q.pc = "find" /\ q.user \in Users /\ q.info \in Infos
      BY <1>2, BusySlot, AccountFields DEF FindAccount, At
    <2>2. ASSUME NEW x \in AccountOf(q.user), NEW next, GoOn(r, next),
                 next = [op |-> "login", pc |-> "cache", user |-> q.user, row |-> x]
          PROVE  AccountsInv' /\ RequestsOK'
      <3>1. x \in accounts /\ x \in Account /\ x.user = q.user /\ x \in KnownAccounts
        BY <2>2 DEF AccountOf, AccountsInv, TypeOK, KnownAccounts
      <3>2. /\ next \in AccountRequest /\ next.op = "login" /\ next.pc = "cache"
            /\ next.row = x /\ next.user = x.user
        BY <2>1, <2>2, <3>1 DEF AccountRequest
      <3> QED
        BY <2>2, <3>1, <3>2, GoesOn
    <2>3. ASSUME NEW x \in AccountOf(q.user), NEW next, GoOn(r, next),
                 next = [op |-> "login", pc |-> "reread", user |-> q.user, row |-> [x EXCEPT !.info = q.info]]
          PROVE  AccountsInv' /\ RequestsOK'
      <3>1. x \in accounts /\ x \in Account /\ x.user = q.user /\ x \in KnownAccounts
        BY <2>3 DEF AccountOf, AccountsInv, TypeOK, KnownAccounts
      <3> DEFINE row == [x EXCEPT !.info = q.info]
      <3>2. row \in Account /\ row.id = x.id /\ row.user = x.user /\ row.role = x.role
        BY <2>1, <3>1 DEF Account
      <3> HIDE DEF row
      <3>3. /\ next \in AccountRequest /\ next.op = "login" /\ next.pc = "reread"
            /\ next.row = row /\ next.user = x.user
        BY <2>1, <2>3, <3>1, <3>2 DEF AccountRequest, row
      <3> QED
        BY <2>3, <3>1, <3>2, <3>3, GoesOn
    <2>4. ASSUME NEW next, GoOn(r, next), next = [q EXCEPT !.pc = "create"]
          PROVE  AccountsInv' /\ RequestsOK'
      <3>1. next \in AccountRequest /\ next.op = "login" /\ next.pc = "create"
        BY <2>1, <2>4 DEF AccountRequest
      <3> QED
        BY <2>4, <3>1, GoesOn
    <2> QED
      BY <1>2, <2>2, <2>3, <2>4 DEF FindAccount
  <1>3. CASE Reread(r)
    <2>1. /\ q \in AccountRequest /\ q.op \in {"login", "update"} /\ q.pc = "reread"
          /\ q.user \in Users /\ q.row \in Account
      BY <1>3, BusySlot, AccountFields DEF Reread, At
    <2> DEFINE next == [op |-> q.op, pc |-> "save", user |-> q.user, row |-> q.row,
                        courses |-> CoursesOf(q.row.id)]
    <2>2. GoOn(r, next) \/ GoOn(r, Idle)
      BY <1>3 DEF Reread
    <2>3. CoursesOf(q.row.id) \subseteq Id
      BY DEF CoursesOf, AccountsInv, TypeOK, Participant
    <2>4. /\ next \in AccountRequest /\ next.op = q.op /\ next.pc = "save" /\ next.row = q.row
          /\ next.user = q.user
      BY <2>1, <2>3 DEF AccountRequest
    <2>5. q.row \in KnownAccounts /\ q.user = q.row.user
      BY <2>1, KnownAccountsAre DEF HasRow, AccountsInv, AccountsKnown
    <2>6. r \notin overtaken /\ q.op = "login" => \E x \in accounts : x.id = q.row.id /\ x.role = q.row.role
      BY <2>1 DEF AccountsInv, LoginsConsistent, ReadIsStored
    <2> HIDE DEF next, q
    <2> QED
      BY <1>0, <2>2, <2>4, <2>5, <2>6, GoesOn
  <1> QED
    BY <1>1, <1>2, <1>3

-----------------------------------------------------------------------------
(* The invariant of the accounts: steps that write accounts or the cache *)

\* A new account has a new id and a name that nobody has.
LEMMA Inserted ==
    ASSUME AccountsInv, RequestsOK, NEW r \in Requests, NEW u \in Users, NEW info \in Infos,
           NEW role \in Roles, InsertAccount(r, u, info, role), NameIsFree(u), sparky' = sparky,
           NEW x, x = [id |-> nextId, user |-> u, info |-> info, role |-> role],
           NEW q \in {Idle} \cup AccountRequest, req' = [req EXCEPT ![r] = q],
           q = Idle \/ (q.op = "login" /\ q.pc = "cache" /\ q.user = u /\ q.row = x)
    PROVE  AccountsInv' /\ RequestsOK'
  <1>0. PICK new : new = {x}
    OBVIOUS
  <1>1. /\ accounts' = accounts \cup {x} /\ nextId <= MaxId /\ nextId' = nextId + 1
        /\ settings' = settings \cup {[id |-> nextId, allowEmails |-> TRUE, blacklisted |-> {}]}
        /\ overtaken' = overtaken \cup (Reading(u) \ {r}) /\ stale' = stale \cup {u}
        /\ UNCHANGED <<participants, cache, revived>>
    BY DEF InsertAccount, NewId, Changed
  <1>2. /\ nextId \in Nat \ {0} /\ MaxId \in Nat
        /\ \A y \in accounts : y.id \in Nat /\ y.id < nextId /\ y.user # u
    BY AccountsAssumption, KnownAreAccounts
       DEF AccountsInv, TypeOK, AccountsKnown, KnownAccounts, NameIsFree, AccountOf
  <1>3. x \in Account /\ x.id = nextId /\ x.user = u
    BY <1>1, <1>2 DEF Account, Id
  <1>4. TypeOK'
    <2> DEFINE s == [id |-> nextId, allowEmails |-> TRUE, blacklisted |-> {}]
    <2>1. s \in Settings /\ s.id = nextId /\ settings' = settings \cup {s}
      BY <1>1, <1>2 DEF Settings, Id
    <2> HIDE DEF s
    <2>2. \A y, z \in accounts' : y.id = z.id \/ y.user = z.user => y = z
      BY <1>1, <1>2, <1>3 DEF AccountsInv, TypeOK
    <2>3. \A y \in settings : y.id < nextId /\ y.id \in Nat
      BY <1>2 DEF AccountsInv, TypeOK
    <2>4. \A y, z \in settings' : y.id = z.id => y = z
      BY <1>2, <2>1, <2>3 DEF AccountsInv, TypeOK
    <2>5. \A y \in settings' : \E z \in accounts' : z.id = y.id
      BY <1>1, <1>3, <2>1 DEF AccountsInv, TypeOK
    <2>6. \A y \in participants' : \E z \in accounts' : z.id = y.account
      BY <1>1 DEF AccountsInv, TypeOK
    <2>7. nextId' \in 1 .. MaxId + 1
      BY <1>1, <1>2
    <2>8. overtaken' \subseteq Requests
      BY <1>1 DEF AccountsInv, TypeOK, Reading
    <2> QED
      BY <1>1, <1>3, <2>1, <2>2, <2>4, <2>5, <2>6, <2>7, <2>8 DEF AccountsInv, TypeOK
  <1>5. Slots(new) /\ req'[r] = q /\ \A s \in Requests \ {r} : req'[s] = req[s]
    <2>1. q.op \in {"login", "update"} /\ q.pc \in {"reread", "save", "cache"} =>
             q.user = q.row.user /\ q.row \in new
      BY <1>0, <1>3 DEF Idle
    <2> QED
      BY <2>1, OneSlot
  <1>6. AccountsKnown'
    <2>1. /\ \A y \in accounts' : y \in new \/ y \in KnownAccounts
          /\ \A y \in new : y.id \in Nat /\ y.id >= nextId /\ y.id < nextId'
          /\ \A y, z \in new : y.id = z.id => y.user = z.user
          /\ \A v \in Users : cache'[v] # NotCached => cache'[v].user = v
          /\ nextId' \in Nat /\ nextId' >= nextId
      BY <1>0, <1>1, <1>2, <1>3 DEF KnownAccounts, AccountsInv, AccountsKnown
    <2> QED
      BY <1>5, <2>1, AccountsStayKnown
  <1>7. LoginsConsistent' /\ CachedUserIsStored'
    <2>1. q.op = "login" => ReadIsStored(r)'
      BY <1>1, <1>5 DEF ReadIsStored, Idle
    <2>2. \A s \in Requests \ overtaken' : req'[s].op = "login" =>
             \/ s \notin overtaken /\ s \notin Reading(u) /\ req'[s] = req[s]
             \/ ReadIsStored(s)'
      BY <1>1, <1>5, <2>1
    <2>3. \A y : y.user # u => (y \in accounts => y \in accounts')
      BY <1>1
    <2> QED
      BY <1>1, <2>2, <2>3, OneUserWritten
  <1>8. RequestsOK'
    BY <1>5 DEF Slots
  <1> QED
    BY <1>4, <1>6, <1>7, <1>8 DEF AccountsInv

\* An account is saved as it was read, but for some columns: it keeps its id and its user.
LEMMA Saved ==
    ASSUME AccountsInv, RequestsOK, NEW r \in Requests, NEW x \in KnownAccounts,
           NEW courses, CanSave(x, courses), SaveAccount(r, x), sparky' = sparky,
           NEW q \in {Idle} \cup AccountRequest, req' = [req EXCEPT ![r] = q],
           q = Idle \/ (q.op = "login" /\ q.pc = "cache" /\ q.user = x.user /\ q.row = x)
    PROVE  AccountsInv' /\ RequestsOK'
  <1>0. PICK new : new = {}
    OBVIOUS
  <1> DEFINE u == x.user
  <1>1. /\ accounts' = Others(x.id) \cup {x}
        /\ revived' \subseteq revived \cup {x.id}
        /\ overtaken' = overtaken \cup (Reading(u) \ {r}) /\ stale' = stale \cup {u}
        /\ UNCHANGED <<settings, participants, nextId, cache>>
    BY DEF SaveAccount, Changed
  <1>2. /\ x \in Account /\ x.id \in Id /\ x.user \in Users /\ nextId \in Nat
        /\ \A y \in accounts : y.id = x.id => y.user = x.user
    BY KnownAreAccounts, KnownAccountsAre DEF AccountsInv, AccountsKnown
  <1>3. \A y \in accounts : y.user = x.user => y.id = x.id
    <2>1. CASE \E z \in accounts : z.id = x.id
      BY <1>2, <2>1 DEF AccountsInv, TypeOK
    <2>2. CASE ~\E z \in accounts : z.id = x.id
      BY <2>2 DEF CanSave, NameIsFree, AccountOf
    <2> QED
      BY <2>1, <2>2
  <1>4. TypeOK'
    <2>1. \A y, z \in accounts' : y.id = z.id \/ y.user = z.user => y = z
      BY <1>1, <1>2, <1>3 DEF AccountsInv, TypeOK, Others
    <2>2. \A y \in settings' : \E z \in accounts' : z.id = y.id
      BY <1>1 DEF AccountsInv, TypeOK, Others
    <2>3. \A y \in participants' : \E z \in accounts' : z.id = y.account
      BY <1>1 DEF AccountsInv, TypeOK, Others
    <2>4. overtaken' \subseteq Requests
      BY <1>1 DEF AccountsInv, TypeOK, Reading
    <2> QED
      BY <1>1, <1>2, <2>1, <2>2, <2>3, <2>4 DEF AccountsInv, TypeOK, Others
  <1>5. Slots(new) /\ req'[r] = q /\ \A s \in Requests \ {r} : req'[s] = req[s]
    BY OneSlot DEF Idle
  <1>6. AccountsKnown'
    <2>1. /\ \A y \in accounts' : y \in KnownAccounts
          /\ \A y \in new : y.id \in Nat /\ y.id >= nextId /\ y.id < nextId'
          /\ \A y, z \in new : y.id = z.id => y.user = z.user
          /\ \A v \in Users : cache'[v] # NotCached => cache'[v].user = v
          /\ nextId' \in Nat /\ nextId' >= nextId
      BY <1>0, <1>1, <1>2 DEF KnownAccounts, AccountsInv, AccountsKnown, Others
    <2> QED
      BY <1>5, <2>1, AccountsStayKnown
  <1>7. LoginsConsistent' /\ CachedUserIsStored'
    <2>1. q.op = "login" => ReadIsStored(r)'
      BY <1>1, <1>5 DEF ReadIsStored, Idle
    <2>2. \A s \in Requests \ overtaken' : req'[s].op = "login" =>
             \/ s \notin overtaken /\ s \notin Reading(u) /\ req'[s] = req[s]
             \/ ReadIsStored(s)'
      BY <1>1, <1>5, <2>1
    <2>3. \A y : y.user # u => (y \in accounts => y \in accounts')
      BY <1>1, <1>2 DEF Others
    <2> HIDE DEF u
    <2> QED
      BY <1>1, <2>2, <2>3, OneUserWritten
  <1>8. RequestsOK'
    BY <1>5 DEF Slots
  <1> QED
    BY <1>4, <1>6, <1>7, <1>8 DEF AccountsInv

\* createUser, at the first login or by an administrator.
LEMMA CreateStep ==
    ASSUME AccountsInv, RequestsOK, NEW r \in Requests, CreateAccount(r) \/ CreateUser(r)
    PROVE  AccountsInv' /\ RequestsOK'
  <1> DEFINE q == req[r]
  <1>0. ASSUME NoChange(r)
        PROVE  AccountsInv' /\ RequestsOK'
    BY <1>0, GoesOn DEF NoChange, Idle
  <1>1. CASE CreateAccount(r) /\ ~NoChange(r)
    <2>1. /\ q \in AccountRequest /\ q.user \in Users /\ q.info \in Infos
      BY <1>1, BusySlot, AccountFields DEF CreateAccount, At
    <2> DEFINE x == [id |-> nextId, user |-> q.user, info |-> q.info, role |-> Default]
               next == [op |-> "login", pc |-> "cache", user |-> q.user, row |-> x]
    <2>2. /\ NameIsFree(q.user) /\ InsertAccount(r, q.user, q.info, Default)
          /\ req' = [req EXCEPT ![r] = next] /\ sparky' = sparky
      BY <1>1 DEF CreateAccount, Advance
    <2>3. nextId \in Id /\ Default \in Roles
      BY <2>2, AccountsAssumption DEF AccountsInv, TypeOK, Id, InsertAccount, NewId
    <2>4. x \in Account
      BY <2>1, <2>3 DEF Account
    <2>5. PICK y : y = x
      OBVIOUS
    <2>6. next \in AccountRequest /\ next.op = "login" /\ next.pc = "cache"
          /\ next.user = q.user /\ next.row = y
      BY <2>1, <2>4, <2>5 DEF AccountRequest
    <2> HIDE DEF next, q
    <2> QED
      BY <2>1, <2>2, <2>3, <2>5, <2>6, Inserted
  <1>2. CASE CreateUser(r) /\ ~NoChange(r)
    <2>1. /\ q \in AccountRequest /\ q.user \in Users /\ q.info \in Infos /\ q.role \in Roles
      BY <1>2, BusySlot, AccountFields DEF CreateUser, At
    <2>2. /\ NameIsFree(q.user) /\ InsertAccount(r, q.user, q.info, q.role)
          /\ req' = [req EXCEPT ![r] = Idle] /\ sparky' = sparky
      BY <1>2 DEF CreateUser, Advance
    <2>3. PICK y : y = [id |-> nextId, user |-> q.user, info |-> q.info, role |-> q.role]
      OBVIOUS
    <2> HIDE DEF q
    <2> QED
      BY <2>1, <2>2, <2>3, Inserted
  <1> QED
    BY <1>0, <1>1, <1>2

\* updateUser, at a login or by an administrator.
LEMMA SaveStep ==
    ASSUME AccountsInv, RequestsOK, NEW r \in Requests, SaveLogin(r) \/ SaveUpdate(r)
    PROVE  AccountsInv' /\ RequestsOK'
  <1> DEFINE q == req[r]
  <1>0. ASSUME NoChange(r)
        PROVE  AccountsInv' /\ RequestsOK'
    BY <1>0, GoesOn DEF NoChange, Idle
  <1>1. /\ q \in AccountRequest /\ q.op \in {"login", "update"} /\ q.pc = "save"
        /\ q.row \in KnownAccounts /\ q.row.user = q.user /\ q.row \in Account /\ q.user \in Users
    <2>1. q.op \in {"login", "update"} /\ q.pc = "save"
      BY DEF SaveLogin, SaveUpdate, At
    <2> QED
      BY <2>1, BusySlot, AccountFields, KnownAccountsAre DEF HasRow, AccountsInv, AccountsKnown
  <1>2. CASE SaveLogin(r) /\ ~NoChange(r)
    <2> DEFINE next == [op |-> "login", pc |-> "cache", user |-> q.user, row |-> q.row]
    <2>1. /\ CanSave(q.row, q.courses) /\ SaveAccount(r, q.row)
          /\ req' = [req EXCEPT ![r] = next] /\ sparky' = sparky
      BY <1>2 DEF SaveLogin, LoginColumns, Advance
    <2>2. next \in AccountRequest /\ next.op = "login" /\ next.pc = "cache"
          /\ next.user = q.user /\ next.row = q.row
      BY <1>1 DEF AccountRequest
    <2> HIDE DEF next, q
    <2> QED
      BY <1>1, <2>1, <2>2, Saved
  <1>3. CASE SaveUpdate(r) /\ ~NoChange(r)
    <2>1. /\ CanSave(q.row, q.courses) /\ SaveAccount(r, q.row)
          /\ req' = [req EXCEPT ![r] = Idle] /\ sparky' = sparky
      BY <1>3 DEF SaveUpdate, Advance
    <2> HIDE DEF q
    <2> QED
      BY <1>1, <2>1, Saved
  <1> QED
    BY <1>0, <1>2, <1>3

\* A login that nobody has overtaken caches what is stored.
LEMMA CacheStep ==
    ASSUME AccountsInv, RequestsOK, NEW r \in Requests, CacheUser(r)
    PROVE  AccountsInv' /\ RequestsOK'
  <1>0. PICK new : new = {}
    OBVIOUS
  <1> DEFINE q == req[r]
  <1>1. /\ cache' = [cache EXCEPT ![q.user] = q.row]
        /\ stale' = IF r \in overtaken THEN stale \cup {q.user} ELSE stale \ {q.user}
        /\ req' = [req EXCEPT ![r] = Idle]
        /\ UNCHANGED <<sparky, accounts, settings, participants, nextId, overtaken, revived>>
    BY DEF CacheUser, Advance, rows
  <1>2. /\ q.op = "login" /\ q.pc = "cache" /\ q.user \in Users /\ q.row \in Account
        /\ q.row.user = q.user
        /\ r \notin overtaken => q.row \in accounts
    <2>1. q.op = "login" /\ q.pc = "cache"
      BY DEF CacheUser, At
    <2> QED
      BY <2>1, BusySlot, AccountFields
         DEF HasRow, AccountsInv, AccountsKnown, LoginsConsistent, ReadIsStored
  <1>3. Slots(new) /\ req'[r] = Idle /\ \A s \in Requests \ {r} : req'[s] = req[s]
    <2>1. ~(Idle.op \in {"login", "update"})
      BY DEF Idle
    <2> QED
      BY <1>1, <2>1, OneSlot
  <1> HIDE DEF q
  <1>4. TypeOK'
    BY <1>1, <1>2 DEF AccountsInv, TypeOK
  <1>5. \A u \in Users : cache'[u] = IF u = q.user THEN q.row ELSE cache[u]
    BY <1>1, <1>2 DEF AccountsInv, TypeOK
  <1>6. AccountsKnown'
    <2>1. /\ \A x \in accounts' : x \in KnownAccounts
          /\ \A x \in new : x.id \in Nat /\ x.id >= nextId /\ x.id < nextId'
          /\ \A x, y \in new : x.id = y.id => x.user = y.user
          /\ \A u \in Users : cache'[u] # NotCached => cache'[u].user = u
          /\ nextId' \in Nat /\ nextId' >= nextId
      BY <1>0, <1>1, <1>2, <1>5, KnownAreAccounts DEF KnownAccounts, AccountsInv, AccountsKnown
    <2> QED
      BY <1>3, <2>1, AccountsStayKnown
  <1>7. LoginsConsistent'
    BY <1>1, <1>3 DEF AccountsInv, LoginsConsistent, ReadIsStored, Idle
  <1>8. CachedUserIsStored'
    BY <1>1, <1>2, <1>5 DEF AccountsInv, CachedUserIsStored
  <1>9. RequestsOK'
    BY <1>3 DEF Slots
  <1> QED
    BY <1>4, <1>6, <1>7, <1>8, <1>9 DEF AccountsInv

\* The cache forgets users, and the process everything that is not stored.
LEMMA ForgetStep ==
    ASSUME AccountsInv, RequestsOK, Crash \/ \E u \in Users : Expire(u)
    PROVE  AccountsInv' /\ RequestsOK'
  <1>0. PICK new : new = {}
    OBVIOUS
  <1>1. /\ UNCHANGED <<sparky, accounts, settings, participants, nextId, revived>>
        /\ cache' \in [Users -> Account \cup {NotCached}]
        /\ \A u \in Users : cache'[u] = NotCached \/ (cache'[u] = cache[u] /\ stale' = stale)
        /\ overtaken' \in {{}, overtaken} /\ stale' \in {{}, stale}
        /\ \A s \in Requests : req'[s] = Idle \/ (req'[s] = req[s] /\ overtaken' = overtaken)
        /\ RequestsOK'
    <2>1. CASE Crash
      <3>1. req' = [r \in Requests |-> Idle] /\ cache' = [u \in Users |-> NotCached]
        BY <2>1 DEF Crash
      <3> QED
        BY <2>1, <3>1 DEF Crash, rows, RequestsOK
    <2>2. ASSUME NEW u \in Users, Expire(u)
          PROVE  <1>1
      BY <2>2 DEF Expire, rows, RequestsOK, AccountsInv, TypeOK
    <2> QED
      BY <2>1, <2>2
  <1>2. Slots(new)
    BY <1>1 DEF Slots, HasRow, Idle
  <1>3. TypeOK'
    BY <1>1 DEF AccountsInv, TypeOK
  <1>4. AccountsKnown'
    <2>1. /\ \A x \in accounts' : x \in KnownAccounts
          /\ \A x \in new : x.id \in Nat /\ x.id >= nextId /\ x.id < nextId'
          /\ \A x, y \in new : x.id = y.id => x.user = y.user
          /\ \A u \in Users : cache'[u] # NotCached => cache'[u].user = u
          /\ nextId' \in Nat /\ nextId' >= nextId
      BY <1>0, <1>1, KnownAreAccounts DEF KnownAccounts, AccountsInv, AccountsKnown
    <2> QED
      BY <1>2, <2>1, AccountsStayKnown
  <1>5. LoginsConsistent'
    BY <1>1 DEF AccountsInv, LoginsConsistent, ReadIsStored, Idle
  <1>6. CachedUserIsStored'
    BY <1>1 DEF AccountsInv, CachedUserIsStored
  <1> QED
    BY <1>1, <1>3, <1>4, <1>5, <1>6 DEF AccountsInv

\* An account goes with its settings and its participants.
LEMMA DeleteStep ==
    ASSUME AccountsInv, RequestsOK, NEW x \in accounts, DeleteUser(x)
    PROVE  AccountsInv' /\ RequestsOK'
  <1>0. PICK new : new = {}
    OBVIOUS
  <1>1. /\ accounts' = Others(x.id)
        /\ settings' = {y \in settings : y.id # x.id}
        /\ participants' = {y \in participants : y.account # x.id}
        /\ overtaken' = overtaken \cup Reading(x.user)
        /\ stale' = stale \cup {x.user}
        /\ UNCHANGED <<sparky, nextId, cache, req, revived>>
    BY DEF DeleteUser
  <1>2. TypeOK'
    <2>1. overtaken' \subseteq Requests /\ x.user \in Users
      BY <1>1 DEF AccountsInv, TypeOK, Reading, Account
    <2> QED
      BY <1>1, <2>1 DEF AccountsInv, TypeOK, Others
  <1>3. Slots(new)
    BY <1>1, NoSlot
  <1>4. AccountsKnown'
    <2>1. /\ \A y \in accounts' : y \in KnownAccounts
          /\ \A y \in new : y.id \in Nat /\ y.id >= nextId /\ y.id < nextId'
          /\ \A y, z \in new : y.id = z.id => y.user = z.user
          /\ \A u \in Users : cache'[u] # NotCached => cache'[u].user = u
          /\ nextId' \in Nat /\ nextId' >= nextId
      BY <1>0, <1>1, KnownAreAccounts DEF KnownAccounts, Others, AccountsInv, AccountsKnown
    <2> QED
      BY <1>3, <2>1, AccountsStayKnown
  <1>5. LoginsConsistent' /\ CachedUserIsStored'
    <2>1. \A y : y.user # x.user => (y \in accounts => y \in accounts')
      BY <1>1 DEF Others, AccountsInv, TypeOK
    <2>2. \A s \in Requests \ overtaken' : s \notin overtaken /\ s \notin Reading(x.user) /\ req'[s] = req[s]
      BY <1>1
    <2> QED
      BY <1>1, <2>1, <2>2, OneUserWritten
  <1> QED
    BY <1>1, <1>2, <1>4, <1>5 DEF AccountsInv, RequestsOK

\* Sparkyservice, settings and participants change.
LEMMA AroundStep ==
    ASSUME AccountsInv, RequestsOK,
           \/ \E u \in Users, info \in Infos : SparkyChanges(u, info)
           \/ \E x \in accounts : SignUp(x)
           \/ \E x \in accounts, allow \in BOOLEAN, b \in Refusals : ChangeSettings(x, allow, b)
           \/ \E p \in participants : SignOff(p)
    PROVE  AccountsInv' /\ RequestsOK'
  <1>0. PICK new : new = {}
    OBVIOUS
  <1>1. /\ UNCHANGED <<accounts, cache, req, overtaken, stale, revived>>
        /\ sparky' \in [Users -> Infos] /\ settings' \subseteq Settings
        /\ \A x, y \in settings' : x.id = y.id => x = y
        /\ \A x \in settings' : \E y \in accounts : y.id = x.id
        /\ participants' \subseteq Participant
        /\ \A x \in participants' : \E y \in accounts : y.id = x.account
        /\ nextId' \in 1 .. MaxId + 1 /\ nextId' \in Nat /\ nextId' >= nextId
    <2>0. TypeOK /\ nextId \in Nat \ {0} /\ nextId <= MaxId + 1 /\ MaxId \in Nat
      BY AccountsAssumption DEF AccountsInv, TypeOK
    <2>1. CASE \E u \in Users, info \in Infos : SparkyChanges(u, info)
      BY <2>0, <2>1 DEF SparkyChanges, rows, TypeOK
    <2>2. ASSUME NEW x \in accounts, SignUp(x)
          PROVE  <1>1
      <3>1. x.id \in Id /\ nextId \in Id
        BY <2>0, <2>2 DEF SignUp, NewId, TypeOK, Account, Id
      <3>2. [id |-> nextId, account |-> x.id] \in Participant
        BY <3>1 DEF Participant
      <3>3. nextId' = nextId + 1 /\ nextId <= MaxId
        BY <2>2 DEF SignUp, NewId
      <3>4. participants' = participants \cup {[id |-> nextId, account |-> x.id]}
            /\ UNCHANGED <<sparky, accounts, settings, cache, req, overtaken, stale, revived>>
        BY <2>2 DEF SignUp
      <3> QED
        BY <2>0, <3>2, <3>3, <3>4 DEF TypeOK
    <2>3. ASSUME NEW x \in accounts, NEW allow \in BOOLEAN, NEW b \in Refusals,
                 ChangeSettings(x, allow, b)
          PROVE  <1>1
      <3> DEFINE changed(y) == IF y.id = x.id THEN [y EXCEPT !.allowEmails = allow, !.blacklisted = b]
                               ELSE y
      <3>1. settings' = {changed(y) : y \in settings}
        BY <2>3 DEF ChangeSettings
      <3>2. \A y \in settings : changed(y) \in Settings /\ changed(y).id = y.id
        BY <2>0 DEF TypeOK, Settings
      <3> HIDE DEF changed
      <3>3. /\ settings' \subseteq Settings
            /\ \A y, z \in settings' : y.id = z.id => y = z
            /\ \A y \in settings' : \E z \in accounts : z.id = y.id
        BY <2>0, <3>1, <3>2 DEF TypeOK
      <3>4. UNCHANGED <<sparky, accounts, participants, nextId, cache, req, overtaken, stale, revived>>
        BY <2>3 DEF ChangeSettings
      <3>5. /\ sparky \in [Users -> Infos] /\ participants \subseteq Participant
            /\ \A y \in participants : \E z \in accounts : z.id = y.account
        BY <2>0 DEF TypeOK
      <3> QED
        BY <2>0, <3>3, <3>4, <3>5
    <2>4. CASE \E p \in participants : SignOff(p)
      BY <2>0, <2>4 DEF SignOff, TypeOK
    <2> QED
      BY <2>1, <2>2, <2>3, <2>4
  <1>2. TypeOK'
    BY <1>1 DEF AccountsInv, TypeOK
  <1>3. Slots(new)
    BY <1>1, NoSlot
  <1>4. AccountsKnown'
    <2>1. /\ \A x \in accounts' : x \in KnownAccounts
          /\ \A x \in new : x.id \in Nat /\ x.id >= nextId /\ x.id < nextId'
          /\ \A x, y \in new : x.id = y.id => x.user = y.user
          /\ \A u \in Users : cache'[u] # NotCached => cache'[u].user = u
      BY <1>0, <1>1 DEF KnownAccounts, AccountsInv, AccountsKnown
    <2> QED
      BY <1>1, <1>3, <2>1, AccountsStayKnown
  <1>5. LoginsConsistent'
    BY <1>1 DEF AccountsInv, LoginsConsistent, ReadIsStored
  <1>6. CachedUserIsStored'
    BY <1>1 DEF AccountsInv, CachedUserIsStored
  <1> QED
    BY <1>1, <1>2, <1>4, <1>5, <1>6 DEF AccountsInv, RequestsOK

\* The invariant of the accounts survives the steps on accounts.
LEMMA AccountsStep ==
    ASSUME AccountsInv, RequestsOK, AccountsNext
    PROVE  AccountsInv' /\ RequestsOK'
  BY StartStep, ReadStep, CreateStep, SaveStep, CacheStep, ForgetStep, DeleteStep, AroundStep
     DEF AccountsNext, Login, Administration

\* The accounts that are there at the beginning have different ids, which are taken.
LEMMA InitAccountsInv ==
    ASSUME InitAccounts
    PROVE  AccountsInv
  <1> PICK known \in SUBSET Users :
        \E number \in [known -> 1 .. Cardinality(known)] :
           /\ \A u, v \in known : number[u] = number[v] => u = v
           /\ accounts = {[id |-> number[u], user |-> u, info |-> sparky[u], role |-> Default] : u \in known}
           /\ participants = {[id |-> number[u], account |-> number[u]] : u \in known}
           /\ nextId = Cardinality(known) + 1
    BY DEF InitAccounts
  <1>1. PICK number \in [known -> 1 .. Cardinality(known)] :
           /\ \A u, v \in known : number[u] = number[v] => u = v
           /\ accounts = {[id |-> number[u], user |-> u, info |-> sparky[u], role |-> Default] : u \in known}
           /\ participants = {[id |-> number[u], account |-> number[u]] : u \in known}
           /\ nextId = Cardinality(known) + 1
    OBVIOUS
  <1>2. Cardinality(known) \in Nat /\ Cardinality(known) <= MaxId /\ MaxId \in Nat
    BY FS_Subset, FS_CardinalityType, AccountsAssumption
  <1>3. PICK n : n = Cardinality(known)
    OBVIOUS
  <1>4. n \in Nat /\ n <= MaxId /\ nextId = n + 1 /\ \A u \in known : number[u] \in 1 .. n
    BY <1>1, <1>2, <1>3
  <1>5. sparky \in [Users -> Infos] /\ Default \in Roles
    BY AccountsAssumption DEF InitAccounts
  <1> DEFINE row(u) == [id |-> number[u], user |-> u, info |-> sparky[u], role |-> Default]
             part(u) == [id |-> number[u], account |-> number[u]]
             set(x) == [id |-> x.id, allowEmails |-> TRUE, blacklisted |-> {}]
  <1>6. /\ accounts = {row(u) : u \in known} /\ participants = {part(u) : u \in known}
        /\ settings = {set(x) : x \in accounts}
    BY <1>1 DEF InitAccounts
  <1>7. ASSUME NEW u \in known
        PROVE  /\ row(u) \in Account /\ row(u).id = number[u] /\ row(u).user = u
               /\ part(u) \in Participant /\ part(u).account = number[u] /\ number[u] < nextId
    <2>1. number[u] \in Id /\ number[u] < nextId
      BY <1>2, <1>4 DEF Id
    <2> QED
      BY <1>5, <2>1 DEF Account, Participant
  <1>8. ASSUME NEW x \in Account
        PROVE  set(x) \in Settings /\ set(x).id = x.id
    BY DEF Account, Settings
  <1> HIDE DEF row, part, set
  <1>9. accounts \subseteq Account /\ \A x, y \in accounts : x.id = y.id \/ x.user = y.user => x = y
    BY <1>1, <1>6, <1>7
  <1>10. TypeOK
    <2>1. /\ settings \subseteq Settings /\ \A x, y \in settings : x.id = y.id => x = y
          /\ \A x \in settings : \E y \in accounts : y.id = x.id
      BY <1>6, <1>8, <1>9
    <2>2. /\ participants \subseteq Participant
          /\ \A x \in participants : \E y \in accounts : y.id = x.account
      BY <1>6, <1>7
    <2>3. nextId \in 1 .. MaxId + 1
      BY <1>2, <1>4
    <2> QED
      BY <1>5, <1>9, <2>1, <2>2, <2>3 DEF InitAccounts, TypeOK
  <1>11. \A r \in Requests : ~HasRow(r) /\ req[r].op # "login"
    BY DEF InitAccounts, HasRow, Idle
  <1>12. AccountsKnown
    <2>1. \A x \in accounts : x.id < nextId
      BY <1>6, <1>7
    <2> QED
      BY <1>9, <1>11, <2>1, KnownAccountsAre DEF AccountsKnown, InitAccounts
  <1> QED
    BY <1>10, <1>11, <1>12 DEF AccountsInv, LoginsConsistent, CachedUserIsStored, InitAccounts

-----------------------------------------------------------------------------
(* The invariant of the deliveries *)

\* To whom something is due.
LEMMA DueIs ==
    ASSUME NEW event
    PROVE  /\ Due(event) \subseteq Audience(event.kind)
           /\ Due(event) \subseteq Allowing
           /\ event.account \notin Due(event)
           /\ event.kind \in GroupKinds /\ event.account \notin Audience(event.kind) => Due(event) = {}
  BY DEF Due

\* No blacklist has the key that it is asked for: whoever allows mails receives them.
LEMMA ReceiversAre ==
    ASSUME TypeOK, NEW kind \in MailKinds
    PROVE  Receivers(kind) = Allowing
  <1>1. kind \notin Event
    BY DEF MailKinds, AssignmentKinds, GroupKinds, Event
  <1>2. \A s \in settings : s.blacklisted \subseteq Event
    BY AccountsAssumption DEF TypeOK, Settings
  <1>3. \A x : Accepts(x, kind) <=>
                  x.info # NoEmail /\ \A s \in settings : s.id = x.id => s.allowEmails
    BY <1>1, <1>2 DEF Accepts
  <1> QED
    BY <1>3 DEF Receivers, Allowing

\* The tables of the course.
TablesOK ==
    /\ group \in BOOLEAN /\ members \subseteq participants /\ (~group => members = {})
    /\ reviewed \subseteq {x.id : x \in accounts}
    /\ subscribers \subseteq Subscriber
    /\ \A x, y \in subscribers : x.id = y.id \/ x.name = y.name => x = y

IdsOK ==
    /\ Allowing \subseteq Id
    /\ \A event : Due(event) \subseteq Id

\* Mails are for accounts.
LEMMA MailsAreForIds ==
    ASSUME TypeOK
    PROVE  IdsOK
  <1>1. \A x \in accounts : x.id \in Id
    BY DEF TypeOK, Account
  <1>2. Allowing \subseteq Id
    BY <1>1 DEF Allowing
  <1> QED
    BY <1>2, DueIs DEF IdsOK

\* What a step does to the handler of mails of an event.
MailGoesOn(e) ==
    \/ mail'[e].pc # "run"
    \/ e > Len(published) /\ e <= Len(published') /\ mail'[e] = NewMail
    \/ /\ mail[e].pc = "run" /\ e <= Len(published) /\ e <= Len(published')
       /\ published'[e] = published[e]
       /\ mail'[e].audience \in {mail[e].audience, {Audience(published[e].kind)}}
       /\ mail'[e].receivers \in {mail[e].receivers, {Receivers(published[e].kind)}}

\* What is published has a kind of mails.
LEMMA PublishedKinds ==
    ASSUME TasksOK, NEW e \in Events, e <= Len(published)
    PROVE  published[e].kind \in MailKinds
  <1> DEFINE Published == [kind : MailKinds, account : Id \cup {0}]
  <1>1. published \in Seq(Published)
    BY DEF TasksOK
  <1>2. e \in Nat /\ 1 <= e
    BY EventDeliveryAssumption DEF Events
  <1>3. published[e] \in Published
    <2> HIDE DEF Published
    <2> QED
      BY <1>1, <1>2
  <1> QED
    BY <1>3

\* Whoever is due a mail now was due it when the handler read, and has allowed mails.
LEMMA MailStaysConsistent ==
    ASSUME DeliveryInv, Remember, NEW e \in Events, MailGoesOn(e), mail'[e].pc = "run"
    PROVE  MailConsistent(e)'
  <1>0. Len(published) \in Nat /\ e \in Nat
    BY EventDeliveryAssumption DEF DeliveryInv, TasksOK, Events
  <1>1. e <= Len(published')
    BY DEF MailGoesOn
  <1>2. willing'[e] = willing[e] \cup Allowing'
    BY <1>1 DEF Remember
  <1>3. steady'[e] = IF e > Len(published) THEN Due(published[e])' ELSE steady[e] \cap Due(published[e])'
    BY <1>1 DEF Remember
  <1>4. CASE e > Len(published)
    BY <1>0, <1>2, <1>3, <1>4 DEF MailGoesOn, MailConsistent, NewMail
  <1>5. CASE ~(e > Len(published))
    <2>1. /\ mail[e].pc = "run" /\ published'[e] = published[e]
          /\ mail'[e].audience \in {mail[e].audience, {Audience(published[e].kind)}}
          /\ mail'[e].receivers \in {mail[e].receivers, {Receivers(published[e].kind)}}
      BY <1>0, <1>5 DEF MailGoesOn
    <2>2. MailConsistent(e)
      BY <2>1 DEF DeliveryInv, TasksConsistent
    <2>3. PICK event : event = published[e]
      OBVIOUS
    <2>4. /\ Allowing \subseteq willing[e] /\ steady[e] \subseteq Due(event)
          /\ \A receivers \in mail[e].receivers :
                steady[e] \subseteq receivers /\ receivers \subseteq willing[e]
          /\ \A audience \in mail[e].audience :
                IF event.kind \in GroupKinds /\ event.account \notin audience
                THEN steady[e] = {} ELSE steady[e] \subseteq audience \ {event.account}
      BY <2>2, <2>3 DEF MailConsistent
    <2>5. Receivers(event.kind) = Allowing
      <3>1. event.kind \in MailKinds
        BY <1>0, <1>5, <2>3, PublishedKinds DEF DeliveryInv
      <3> QED
        BY <3>1, ReceiversAre DEF DeliveryInv, DeliveryTypeOK
    <2>6. \A receivers \in mail'[e].receivers :
             steady[e] \subseteq receivers /\ receivers \subseteq willing[e]
      BY <2>1, <2>3, <2>4, <2>5, DueIs
    <2>7. \A audience \in mail'[e].audience :
             IF event.kind \in GroupKinds /\ event.account \notin audience
             THEN steady[e] = {} ELSE steady[e] \subseteq audience \ {event.account}
      BY <2>1, <2>3, <2>4, DueIs
    <2>8. steady'[e] \subseteq steady[e] /\ willing[e] \subseteq willing'[e]
      BY <1>2, <1>3, <1>5
    <2>9. published'[e].kind = event.kind /\ published'[e].account = event.account
      BY <2>1, <2>3
    <2> QED
      BY <1>2, <1>3, <1>5, <2>6, <2>7, <2>8, <2>9 DEF MailConsistent
  <1> QED
    BY <1>4, <1>5

\* What is due stays consistent with what the handlers have read.
LEMMA TasksStayConsistent ==
    ASSUME DeliveryInv, Remember, \A e \in Events : MailGoesOn(e)
    PROVE  TasksConsistent'
  BY MailStaysConsistent DEF TasksConsistent

\* The handlers.
HandlersOK ==
    /\ published \in Seq([kind : MailKinds, account : Id \cup {0}]) /\ Len(published) <= MaxEvents
    /\ mail \in [Events -> Task(Id)] /\ posts \in [Events -> Task(Names)]
    /\ \A e \in Events : e > Len(published) => mail[e] = Done({}) /\ posts[e] = Done({})

GoodStep ==
    /\ AccountsInv' /\ RequestsOK' /\ TablesOK' /\ SubscribersKnown' /\ HandlersOK'
    /\ \A e \in Events : MailGoesOn(e)

\* The parts that the steps are proved to preserve follow from the invariant.
LEMMA PartsOfInv ==
    ASSUME DeliveryInv
    PROVE  /\ AccountsInv /\ RequestsOK /\ TablesOK /\ SubscribersKnown /\ HandlersOK
           /\ Len(published) \in Nat /\ Len(published) <= MaxEvents /\ Events \subseteq Nat
           /\ \A e \in Events : mail[e].pc = "run" => e <= Len(published)
           /\ \A e \in Events : posts[e].pc = "run" => e <= Len(published)
  <1>1. AccountsInv /\ RequestsOK /\ TablesOK /\ SubscribersKnown
    BY DEF DeliveryInv, DeliveryTypeOK, RequestsOK, TablesOK
  <1>2. HandlersOK
    BY DEF DeliveryInv, DeliveryTypeOK, TasksOK, HandlersOK
  <1>3. Len(published) \in Nat /\ Events \subseteq Nat
    BY <1>2, EventDeliveryAssumption DEF HandlersOK, Events
  <1>4. \A e \in Events : e > Len(published) => mail[e].pc # "run" /\ posts[e].pc # "run"
    BY <1>2 DEF HandlersOK, Done
  <1>5. \A e \in Events : e > Len(published) \/ e <= Len(published)
    BY <1>3
  <1> QED
    BY <1>1, <1>2, <1>3, <1>4, <1>5 DEF HandlersOK

\* After a step that preserves the parts, the invariant holds again.
LEMMA GoodStepKeepsInv ==
    ASSUME DeliveryInv, Remember, GoodStep
    PROVE  DeliveryInv'
  <1>1. DeliveryTypeOK'
    <2>1. TypeOK' /\ TablesOK' /\ RequestsOK' /\ HandlersOK'
      BY DEF GoodStep, AccountsInv
    <2>2. \A e \in Events : mail'[e].sent \subseteq Id /\ posts'[e].sent \subseteq Names
      BY <2>1 DEF HandlersOK, Task
    <2>3. DOMAIN mail' = Events /\ DOMAIN posts' = Events
      BY <2>1 DEF HandlersOK
    <2> QED
      BY <2>1, <2>2, <2>3 DEF DeliveryTypeOK, TablesOK, RequestsOK, HandlersOK
  <1>2. TasksOK'
    <2>1. TypeOK' /\ TablesOK'
      BY DEF GoodStep, AccountsInv
    <2>2. IdsOK'
      BY <2>1, MailsAreForIds, PTL
    <2>3. \A e \in Events : willing[e] \subseteq Id /\ steady[e] \subseteq Id
      BY DEF DeliveryInv, TasksOK
    <2>4. willing' \in [Events -> SUBSET Id]
      <3>1. \A e \in Events : willing'[e] = {} \/ willing'[e] = willing[e] \cup Allowing'
        BY DEF Remember
      <3>2. willing' = [e \in Events |-> willing'[e]]
        BY DEF Remember
      <3>3. Allowing' \subseteq Id
        BY <2>2 DEF IdsOK
      <3>4. \A e \in Events : willing'[e] \in SUBSET Id
        BY <2>3, <3>1, <3>3
      <3> QED
        BY <3>2, <3>4
    <2>5. steady' \in [Events -> SUBSET Id]
      <3>1. \A e \in Events : steady'[e] \subseteq steady[e] \/ steady'[e] = Due(published[e])'
        BY DEF Remember
      <3>2. steady' = [e \in Events |-> steady'[e]]
        BY DEF Remember
      <3>3. \A e \in Events : Due(published[e])' \subseteq Id
        BY <2>2 DEF IdsOK
      <3>4. \A e \in Events : steady'[e] \in SUBSET Id
        BY <2>3, <3>1, <3>3
      <3> QED
        BY <3>2, <3>4
    <2> QED
      BY <2>4, <2>5 DEF TasksOK, GoodStep, HandlersOK
  <1>3. TasksConsistent'
    BY TasksStayConsistent DEF GoodStep
  <1> QED
    BY <1>1, <1>2, <1>3 DEF GoodStep, DeliveryInv

-----------------------------------------------------------------------------
(* Steps of requests *)

\* Handlers that nothing touches go on.
LEMMA HandlersStay ==
    ASSUME DeliveryInv, UNCHANGED handlers
    PROVE  HandlersOK' /\ \A e \in Events : MailGoesOn(e)
  BY PartsOfInv DEF handlers, HandlersOK, MailGoesOn

\* Steps that are not about accounts.
LEMMA AccountsStay ==
    ASSUME AccountsInv, RequestsOK, UNCHANGED <<sparky, rows, cache, req, overtaken, stale, revived>>
    PROVE  AccountsInv' /\ RequestsOK'
  <1>0. PICK new : new = {}
    OBVIOUS
  <1>1. UNCHANGED <<sparky, accounts, settings, participants, nextId, cache, req, overtaken, stale, revived>>
    BY DEF rows
  <1>2. Slots(new)
    BY <1>1, NoSlot
  <1>3. sparky' \in [Users -> Infos] /\ nextId' \in 1 .. MaxId + 1 /\ overtaken' \subseteq Requests
    BY <1>1 DEF AccountsInv, TypeOK
  <1>4. nextId' >= nextId
    BY <1>1, KnownAreAccounts DEF AccountsInv
  <1>5. \A s \in Requests \ overtaken' : req'[s].op = "login" => s \notin overtaken /\ req'[s] = req[s]
    BY <1>1
  <1>6. RequestsOK'
    BY <1>1 DEF RequestsOK
  <1> QED
    BY <1>0, <1>1, <1>2, <1>3, <1>4, <1>5, <1>6, AccountsKept

\* Subscribers and what is known of them stay, ids grow.
SubscribersStay ==
    /\ nextId' >= nextId
    /\ \A s \in Requests : \/ req'[s] = req[s]
                           \/ req'[s].op \in {"none", "login", "update", "create"}

\* Handlers of accounts leave the requests of subscribers alone.
LEMMA AccountsLeaveSubscribers ==
    ASSUME AccountsInv, RequestsOK, AccountsNext
    PROVE  SubscribersStay
  <1>0. nextId \in Nat
    BY KnownAreAccounts DEF AccountsInv
  <1> DEFINE ours == {"none", "login", "update", "create"}
  <1>1. ASSUME NEW r \in Requests, NEW q, Begin(r, q) \/ Advance(r, q), q.op \in ours,
               nextId' \in {nextId, nextId + 1}
        PROVE  SubscribersStay
    BY <1>0, <1>1 DEF SubscribersStay, RequestsOK, Begin, Advance
  <1>2. ASSUME req' = req, nextId' \in {nextId, nextId + 1}
        PROVE  SubscribersStay
    BY <1>0, <1>2 DEF SubscribersStay
  <1>3. ASSUME NEW r \in Requests,
               \/ \E u \in Users : StartLogin(r, u)
               \/ \E u \in Users, role \in Roles : StartCreate(r, u, sparky[u], role)
               \/ \E x \in accounts, role \in Roles : StartUpdate(r, x, role)
        PROVE  SubscribersStay
    <2>1. PICK q : Begin(r, q) /\ q.op \in {"login", "create", "update"}
      <3>1. CASE \E u \in Users : StartLogin(r, u)
        BY <3>1 DEF StartLogin
      <3>2. CASE \E u \in Users, role \in Roles : StartCreate(r, u, sparky[u], role)
        BY <3>2 DEF StartCreate
      <3>3. CASE \E x \in accounts, role \in Roles : StartUpdate(r, x, role)
        BY <3>3 DEF StartUpdate
      <3> QED
        BY <1>3, <3>1, <3>2, <3>3
    <2>2. nextId' = nextId
      BY <2>1 DEF Begin, rows
    <2> QED
      BY <1>1, <2>1, <2>2
  <1>4. ASSUME NEW r \in Requests, NEW q, GoOn(r, q), q.op \in ours
        PROVE  SubscribersStay
    BY <1>1, <1>4 DEF GoOn, rows
  <1>5. ASSUME NEW r \in Requests, NoChange(r)
        PROVE  SubscribersStay
    BY <1>4, <1>5 DEF NoChange, Idle
  <1>6. ASSUME NEW r \in Requests, NEW q, Advance(r, q), q.op \in ours,
               \/ \E u, info, role : InsertAccount(r, u, info, role)
               \/ \E x : SaveAccount(r, x)
               \/ UNCHANGED rows
        PROVE  SubscribersStay
    <2>1. nextId' \in {nextId, nextId + 1}
      BY <1>6 DEF InsertAccount, NewId, SaveAccount, rows
    <2> QED
      BY <1>1, <1>6, <2>1
  <1>7. ASSUME NEW r \in Requests, Verify(r) \/ Reread(r)
        PROVE  SubscribersStay
    <2>1. req[r].op \in {"login", "update"}
      BY <1>7 DEF Verify, Reread, At
    <2>2. NoChange(r) \/ \E q : GoOn(r, q) /\ q.op = req[r].op
      BY <1>7 DEF Verify, Reread, At
    <2> QED
      BY <1>4, <1>5, <2>1, <2>2
  <1>8. ASSUME NEW r \in Requests, FindAccount(r)
        PROVE  SubscribersStay
    <2>1. req[r].op = "login" /\ req[r] \in AccountRequest
      BY <1>8, BusySlot DEF FindAccount, At
    <2>2. [req[r] EXCEPT !.pc = "create"].op = "login"
      BY <2>1 DEF AccountRequest
    <2>3. \E q : GoOn(r, q) /\ q.op = "login"
      <3>1. CASE GoOn(r, [req[r] EXCEPT !.pc = "create"])
        BY <2>2, <3>1
      <3>2. ASSUME NEW x \in AccountOf(req[r].user),
                   IF x.info = req[r].info
                   THEN GoOn(r, [op |-> "login", pc |-> "cache", user |-> req[r].user, row |-> x])
                   ELSE GoOn(r, [op |-> "login", pc |-> "reread", user |-> req[r].user,
                                 row |-> [x EXCEPT !.info = req[r].info]])
            PROVE  <2>3
        <4>1. CASE x.info = req[r].info
          BY <3>2, <4>1
        <4>2. CASE x.info # req[r].info
          BY <3>2, <4>2
        <4> QED
          BY <4>1, <4>2
      <3> QED
        BY <1>8, <3>1, <3>2 DEF FindAccount
    <2> QED
      BY <1>4, <2>3
  <1>9. ASSUME NEW r \in Requests,
               CreateAccount(r) \/ SaveLogin(r) \/ CacheUser(r) \/ CreateUser(r) \/ SaveUpdate(r)
        PROVE  SubscribersStay
    <2>1. CASE NoChange(r)
      BY <1>5, <2>1
    <2>2. CASE CreateAccount(r) /\ ~NoChange(r)
      <3>1. PICK q : Advance(r, q) /\ q.op = "login" /\ \E u, info, role : InsertAccount(r, u, info, role)
        BY <2>2 DEF CreateAccount
      <3> QED
        BY <1>6, <3>1
    <2>3. CASE SaveLogin(r) /\ ~NoChange(r)
      <3>1. PICK q : Advance(r, q) /\ q.op = "login" /\ \E x : SaveAccount(r, x)
        BY <2>3 DEF SaveLogin
      <3> QED
        BY <1>6, <3>1
    <2>4. CASE (CacheUser(r) \/ CreateUser(r) \/ SaveUpdate(r)) /\ ~NoChange(r)
      <3>1. /\ Advance(r, Idle)
            /\ \/ \E u, info, role : InsertAccount(r, u, info, role)
               \/ \E x : SaveAccount(r, x)
               \/ UNCHANGED rows
        BY <2>4 DEF CacheUser, CreateUser, SaveUpdate
      <3> QED
        BY <1>6, <3>1 DEF Idle
    <2> QED
      BY <1>9, <2>1, <2>2, <2>3, <2>4
  <1>10. ASSUME \/ \E u \in Users : Expire(u) \/ \E info \in Infos : SparkyChanges(u, info)
                \/ \E x \in accounts : \/ DeleteUser(x) \/ SignUp(x)
                                      \/ \E allow \in BOOLEAN, b \in Refusals : ChangeSettings(x, allow, b)
                \/ \E p \in participants : SignOff(p)
         PROVE  SubscribersStay
    <2>1. req' = req /\ nextId' \in {nextId, nextId + 1}
      BY <1>10 DEF Expire, SparkyChanges, DeleteUser, SignUp, NewId, ChangeSettings, SignOff, rows
    <2> QED
      BY <1>2, <2>1
  <1> QED
    BY <1>3, <1>7, <1>8, <1>9, <1>10 DEF AccountsNext, Login, Administration

\* Who has subscribed stays known as long as subscribers stay.
LEMMA SubscribersStayKnown ==
    ASSUME AccountsInv, RequestsOK, TablesOK, SubscribersKnown,
           SubscribersStay, UNCHANGED subscribers, nextId' \in Nat
    PROVE  SubscribersKnown'
  <1>1. nextId \in Nat /\ nextId' >= nextId
    BY KnownAreAccounts DEF AccountsInv, SubscribersStay, TypeOK
  <1>2. ASSUME NEW x \in subscribers
        PROVE  x.id < nextId'
    <2>1. x.id \in Nat
      BY AccountsAssumption DEF TablesOK, Subscriber, Id
    <2> QED
      BY <1>1, <2>1 DEF SubscribersKnown
  <1>3. ASSUME NEW r \in Requests, req'[r].op \in {"subscribe", "unsubscribe"}, req'[r].pc = "save"
        PROVE  req'[r].row.id < nextId'
    <2>1. req'[r] = req[r]
      BY <1>3 DEF SubscribersStay
    <2>2. req[r].row.id \in Nat
      BY <1>3, <2>1, SubscriberSlot, SubscriberFields, AccountsAssumption DEF Id
    <2> QED
      BY <1>1, <1>3, <2>1, <2>2 DEF SubscribersKnown
  <1> QED
    BY <1>2, <1>3 DEF SubscribersKnown

\* Steps on accounts: what refers to an account or a participant goes with it.
LEMMA AccountGoodStep ==
    ASSUME DeliveryInv, AccountStep
    PROVE  GoodStep
  <1>1. /\ AccountsInv /\ RequestsOK /\ TablesOK /\ SubscribersKnown
        /\ AccountsNext /\ UNCHANGED <<group, subscribers>> /\ UNCHANGED handlers
        /\ members' = members \cap participants' /\ reviewed' = reviewed \cap {x.id : x \in accounts'}
    BY PartsOfInv DEF AccountStep
  <1>2. AccountsInv' /\ RequestsOK' /\ SubscribersStay
    BY <1>1, AccountsStep, AccountsLeaveSubscribers
  <1>3. nextId' \in Nat
    BY <1>2, AccountsAssumption DEF AccountsInv, TypeOK
  <1>4. SubscribersKnown'
    BY <1>1, <1>2, <1>3, SubscribersStayKnown
  <1>5. TablesOK'
    BY <1>1 DEF TablesOK
  <1>6. HandlersOK' /\ \A e \in Events : MailGoesOn(e)
    BY <1>1, HandlersStay
  <1> QED
    BY <1>2, <1>4, <1>5, <1>6 DEF GoodStep

\* An event is published: its handlers are new, the others go on.
LEMMA PublishGoesOn ==
    ASSUME DeliveryInv, NEW kind \in MailKinds, NEW account \in Id \cup {0}, Publish(kind, account)
    PROVE  HandlersOK' /\ \A e \in Events : MailGoesOn(e)
  <1>1. PICK n : n = Len(published) + 1
    OBVIOUS
  <1>2. /\ n \in Nat /\ n \in Events /\ Len(published) = n - 1
        /\ published' = Append(published, [kind |-> kind, account |-> account])
        /\ mail' = [mail EXCEPT ![n] = NewMail]
        /\ posts' = [posts EXCEPT ![n] = IF kind = "ASSESSMENT_SCORE_CHANGED" THEN posts[n] ELSE NewMail]
    BY <1>1, PartsOfInv, EventDeliveryAssumption DEF Publish, Events
  <1>3. /\ published \in Seq([kind : MailKinds, account : Id \cup {0}])
        /\ mail \in [Events -> Task(Id)] /\ posts \in [Events -> Task(Names)]
        /\ \A e \in Events : e > Len(published) => mail[e] = Done({}) /\ posts[e] = Done({})
    BY PartsOfInv DEF HandlersOK
  <1>4. NewMail \in Task(Id) /\ NewMail \in Task(Names)
    BY DEF NewMail, Task
  <1>5. [kind |-> kind, account |-> account] \in [kind : MailKinds, account : Id \cup {0}]
    OBVIOUS
  <1>6. /\ published' \in Seq([kind : MailKinds, account : Id \cup {0}]) /\ Len(published') = n
        /\ \A i \in Nat : i >= 1 /\ i < n => published'[i] = published[i]
    BY <1>2, <1>3, <1>5
  <1>7. n <= MaxEvents /\ Events \subseteq Nat \ {0}
    BY <1>2, EventDeliveryAssumption DEF Events
  <1>8. mail' \in [Events -> Task(Id)] /\ posts' \in [Events -> Task(Names)]
    BY <1>2, <1>3, <1>4
  <1>9. \A e \in Events : e > n => mail'[e] = Done({}) /\ posts'[e] = Done({})
    BY <1>2, <1>3, <1>7
  <1>10. HandlersOK'
    BY <1>6, <1>7, <1>8, <1>9 DEF HandlersOK
  <1>11. ASSUME NEW e \in Events
         PROVE  MailGoesOn(e)
    <2>1. CASE e = n
      BY <1>2, <1>3, <1>6, <2>1 DEF MailGoesOn
    <2>2. CASE e < n
      BY <1>2, <1>3, <1>6, <1>7, <2>2 DEF MailGoesOn
    <2>3. CASE e > n
      BY <1>2, <1>7, <1>9, <2>3 DEF MailGoesOn, Done
    <2> QED
      BY <1>2, <1>7, <2>1, <2>2, <2>3
  <1> QED
    BY <1>10, <1>11

\* Events of groups and assignments, which change no account.
LEMMA CourseGoodStep ==
    ASSUME DeliveryInv, CourseStep
    PROVE  GoodStep
  <1> USE PartsOfInv
  <1>1. UNCHANGED <<sparky, rows, cache, req, overtaken, stale, revived>> /\ UNCHANGED subscribers
    BY DEF CourseStep, JoinGroup, LeaveGroup, DeleteGroup, AssignmentEvent, Assess, OnlyCourse
  <1>2. AccountsInv' /\ RequestsOK'
    BY <1>1, AccountsStay
  <1>3. SubscribersKnown'
    BY <1>1 DEF SubscribersKnown, rows
  <1>4. /\ participants' = participants /\ accounts' = accounts
        /\ \A p \in participants : p.account \in Id
        /\ \A p \in members : p \in participants
    BY <1>1 DEF rows, AccountsInv, TypeOK, Participant, TablesOK
  <1>5. /\ HandlersOK' /\ \A e \in Events : MailGoesOn(e)
    <2>1. CASE \E p \in participants : JoinGroup(p)
      <3>1. \E p \in participants : Publish("PARTICIPANT_JOINED_GROUP", p.account)
        BY <2>1 DEF JoinGroup
      <3> QED
        BY <1>4, <3>1, PublishGoesOn DEF MailKinds, GroupKinds
    <2>2. CASE \E p \in members : LeaveGroup(p)
      <3>1. \E p \in members : Publish("PARTICIPANT_LEFT_GROUP", p.account)
        BY <2>2 DEF LeaveGroup
      <3> QED
        BY <1>4, <3>1, PublishGoesOn DEF MailKinds, GroupKinds
    <2>3. CASE DeleteGroup \/ \E x \in SUBSET {y.id : y \in accounts} : Assess(x)
      BY <2>3, HandlersStay DEF DeleteGroup, Assess
    <2>4. CASE \E kind \in AssignmentKinds : AssignmentEvent(kind)
      <3>1. \E kind \in MailKinds : Publish(kind, 0)
        BY <2>4 DEF AssignmentEvent, MailKinds
      <3> QED
        BY <3>1, PublishGoesOn
    <2> QED
      BY <2>1, <2>2, <2>3, <2>4 DEF CourseStep
  <1>6. TablesOK'
    <2>1. /\ group' \in BOOLEAN /\ members' \subseteq participants /\ (~group' => members' = {})
          /\ reviewed' \subseteq {x.id : x \in accounts}
      <3>0. /\ group \in BOOLEAN /\ members \subseteq participants /\ (~group => members = {})
            /\ reviewed \subseteq {x.id : x \in accounts}
        BY DEF TablesOK
      <3>1. CASE \E p \in participants : JoinGroup(p)
        BY <3>0, <3>1 DEF JoinGroup
      <3>2. CASE \E p \in members : LeaveGroup(p)
        BY <3>0, <3>2 DEF LeaveGroup
      <3>3. CASE DeleteGroup \/ \E kind \in AssignmentKinds : AssignmentEvent(kind)
        BY <3>0, <3>3 DEF DeleteGroup, AssignmentEvent
      <3>4. CASE \E x \in SUBSET {y.id : y \in accounts} : Assess(x)
        BY <3>0, <3>4 DEF Assess
      <3> QED
        BY <3>1, <3>2, <3>3, <3>4 DEF CourseStep
    <2> QED
      BY <1>1, <1>4, <2>1 DEF TablesOK
  <1> QED
    BY <1>2, <1>3, <1>5, <1>6 DEF GoodStep

\* The process ends: its requests, its cache and its handlers are gone.
LEMMA RestartGoodStep ==
    ASSUME DeliveryInv, Restart
    PROVE  GoodStep
  <1>1. /\ AccountsInv /\ RequestsOK /\ TablesOK /\ SubscribersKnown /\ HandlersOK
        /\ Crash /\ mail' = Lose(mail) /\ posts' = Lose(posts)
        /\ UNCHANGED <<group, members, reviewed, subscribers, published>>
    BY PartsOfInv DEF Restart
  <1>2. AccountsInv' /\ RequestsOK'
    BY <1>1, ForgetStep
  <1>3. /\ UNCHANGED <<accounts, participants, nextId>>
        /\ \A r \in Requests : req'[r].op = "none"
    BY <1>1 DEF Crash, rows, Idle
  <1>4. SubscribersKnown' /\ TablesOK'
    BY <1>1, <1>3 DEF SubscribersKnown, TablesOK
  <1>5. \A e \in Events :
           /\ (mail'[e] = mail[e] /\ mail[e].pc # "run") \/ mail'[e] = [Done({}) EXCEPT !.pc = "lost"]
           /\ (posts'[e] = posts[e] /\ posts[e].pc # "run") \/ posts'[e] = [Done({}) EXCEPT !.pc = "lost"]
    BY <1>1 DEF Lose
  <1>6. /\ [Done({}) EXCEPT !.pc = "lost"] \in Task(Id) /\ [Done({}) EXCEPT !.pc = "lost"] \in Task(Names)
        /\ [Done({}) EXCEPT !.pc = "lost"].pc = "lost"
    BY DEF Done, Task
  <1>7. HandlersOK'
    <2>1. /\ published \in Seq([kind : MailKinds, account : Id \cup {0}]) /\ Len(published) <= MaxEvents
          /\ mail \in [Events -> Task(Id)] /\ posts \in [Events -> Task(Names)]
          /\ \A e \in Events : e > Len(published) => mail[e] = Done({}) /\ posts[e] = Done({})
      BY <1>1 DEF HandlersOK
    <2>2. mail' \in [Events -> Task(Id)]
      <3>1. \A e \in Events : mail'[e] \in Task(Id)
        BY <1>5, <1>6, <2>1
      <3>2. mail' = [e \in Events |-> mail'[e]]
        BY <1>1 DEF Lose
      <3> QED
        BY <3>1, <3>2
    <2>3. posts' \in [Events -> Task(Names)]
      <3>1. \A e \in Events : posts'[e] \in Task(Names)
        BY <1>5, <1>6, <2>1
      <3>2. posts' = [e \in Events |-> posts'[e]]
        BY <1>1 DEF Lose
      <3> QED
        BY <3>1, <3>2
    <2>4. ASSUME NEW e \in Events, e > Len(published)
          PROVE  mail'[e] = Done({}) /\ posts'[e] = Done({})
      <3>1. mail[e] = Done({}) /\ posts[e] = Done({})
        BY <2>1, <2>4
      <3>2. mail[e].pc # "run" /\ posts[e].pc # "run"
        BY <3>1 DEF Done
      <3>3. mail'[e] = mail[e] /\ posts'[e] = posts[e]
        BY <1>1, <3>2 DEF Lose
      <3> QED
        BY <3>1, <3>3
    <2> QED
      BY <1>1, <2>1, <2>2, <2>3, <2>4 DEF HandlersOK
  <1>8. \A e \in Events : MailGoesOn(e)
    BY <1>5, <1>6 DEF MailGoesOn
  <1> QED
    BY <1>2, <1>4, <1>7, <1>8 DEF GoodStep

\* A handler of mails reads, or comes to its end.
LEMMA MailGoodStep ==
    ASSUME DeliveryInv, NEW e \in Events, Mail(e)
    PROVE  GoodStep
  <1> USE PartsOfInv
  <1>1. /\ UNCHANGED <<sparky, rows, cache, req, overtaken, stale, revived>>
        /\ UNCHANGED <<group, members, reviewed, subscribers, published, posts>>
    BY DEF Mail, accountVars
  <1>2. AccountsInv' /\ RequestsOK'
    BY <1>1, AccountsStay
  <1>3. SubscribersKnown' /\ TablesOK'
    BY <1>1 DEF SubscribersKnown, TablesOK, rows
  <1>4. e <= Len(published) /\ mail[e].pc = "run"
    BY DEF Mail, ReadAudience, ReadReceivers, SendMails
  <1>5. /\ mail \in [Events -> Task(Id)] /\ mail[e] \in Task(Id)
        /\ published \in Seq([kind : MailKinds, account : Id \cup {0}])
        /\ Len(published) \in Nat /\ e \in Nat
    BY DEF HandlersOK
  <1>6. /\ Audience(published[e].kind) \subseteq Id /\ Receivers(published[e].kind) \subseteq Id
    <2>1. TypeOK
      BY DEF AccountsInv
    <2>2. IdsOK
      BY <2>1, MailsAreForIds
    <2>3. \A x \in accounts : x.id \in Id
      BY <2>1 DEF TypeOK, Account
    <2>4. \A p \in members : p.account \in Id
      BY <2>1 DEF TypeOK, Participant, TablesOK
    <2> QED
      <3>1. Audience(published[e].kind) \subseteq Id
        BY <2>3, <2>4 DEF Audience, TablesOK
      <3>2. Receivers(published[e].kind) = Allowing
        BY <1>4, <2>1, PublishedKinds, ReceiversAre DEF DeliveryInv
      <3> QED
        BY <2>2, <3>1, <3>2 DEF IdsOK
  <1>7. PICK next : /\ next \in Task(Id) /\ mail' = [mail EXCEPT ![e] = next]
                    /\ \/ next.pc = "done"
                       \/ /\ next.pc = "run"
                          /\ next.audience \in {mail[e].audience, {Audience(published[e].kind)}}
                          /\ next.receivers \in {mail[e].receivers, {Receivers(published[e].kind)}}
    <2>0. \A sent \in SUBSET Id : Done(sent) \in Task(Id) /\ Done(sent).pc = "done"
      BY DEF Done, Task
    <2>1. CASE ReadAudience(e)
      <3>1. CASE mail' = [mail EXCEPT ![e] = Done({})]
        BY <2>0, <3>1
      <3>2. CASE mail' = [mail EXCEPT ![e].audience = {Audience(published[e].kind)}]
        <4> DEFINE next == [mail[e] EXCEPT !.audience = {Audience(published[e].kind)}]
        <4>1. mail' = [mail EXCEPT ![e] = next]
          BY <3>2
        <4>2. /\ next \in Task(Id) /\ next.pc = "run" /\ next.receivers = mail[e].receivers
              /\ next.audience = {Audience(published[e].kind)}
          BY <1>4, <1>5, <1>6 DEF Task
        <4> QED
          BY <4>1, <4>2
      <3> QED
        BY <2>1, <3>1, <3>2 DEF ReadAudience
    <2>2. CASE ReadReceivers(e)
      <3> DEFINE next == [mail[e] EXCEPT !.receivers = {Receivers(published[e].kind)}]
      <3>1. mail' = [mail EXCEPT ![e] = next]
        BY <2>2 DEF ReadReceivers
      <3>2. /\ next \in Task(Id) /\ next.pc = "run" /\ next.audience = mail[e].audience
            /\ next.receivers = {Receivers(published[e].kind)}
        BY <1>4, <1>5, <1>6 DEF Task
      <3> QED
        BY <3>1, <3>2
    <2>3. CASE SendMails(e)
      <3>1. PICK audience \in mail[e].audience, receivers \in mail[e].receivers :
               \/ mail' = [mail EXCEPT ![e] = Done({})]
               \/ mail' = [mail EXCEPT ![e] = Done((audience \cap receivers) \ {published[e].account})]
        BY <2>3 DEF SendMails
      <3>2. audience \subseteq Id
        BY <1>5, <3>1 DEF Task
      <3> QED
        BY <2>0, <3>1, <3>2
    <2> QED
      BY <2>1, <2>2, <2>3 DEF Mail
  <1>8. HandlersOK'
    BY <1>1, <1>4, <1>5, <1>7 DEF HandlersOK
  <1>9. ASSUME NEW f \in Events
        PROVE  MailGoesOn(f)
    BY <1>1, <1>4, <1>5, <1>7 DEF MailGoesOn
  <1> QED
    BY <1>2, <1>3, <1>8, <1>9 DEF GoodStep

\* An event is posted.
LEMMA NotifyGoodStep ==
    ASSUME DeliveryInv, NEW e \in Events, Notify(e)
    PROVE  GoodStep
  <1> USE PartsOfInv
  <1>1. /\ UNCHANGED <<sparky, rows, cache, req, overtaken, stale, revived>>
        /\ UNCHANGED <<group, members, reviewed, subscribers, published, mail>>
    BY DEF Notify, accountVars
  <1>2. AccountsInv' /\ RequestsOK'
    BY <1>1, AccountsStay
  <1>3. SubscribersKnown' /\ TablesOK'
    BY <1>1 DEF SubscribersKnown, TablesOK, rows
  <1>4. /\ e <= Len(published) /\ posts \in [Events -> Task(Names)]
        /\ Len(published) \in Nat /\ e \in Nat
    BY DEF Notify, HandlersOK
  <1>5. PICK sent \in SUBSET Names : posts' = [posts EXCEPT ![e] = Done(sent)]
    <2> DEFINE sent == {x.name : x \in {y \in subscribers : Interested(y, published[e].kind)}}
    <2>1. posts' = [posts EXCEPT ![e] = Done(sent)]
      BY DEF Notify
    <2>2. sent \subseteq Names
      BY DEF TablesOK, Subscriber
    <2> HIDE DEF sent
    <2> QED
      BY <2>1, <2>2
  <1>6. Done(sent) \in Task(Names) /\ Done(sent).pc = "done"
    BY DEF Done, Task
  <1>7. HandlersOK'
    BY <1>1, <1>4, <1>5, <1>6 DEF HandlersOK
  <1>8. ASSUME NEW f \in Events
        PROVE  MailGoesOn(f)
    BY <1>1, <1>4, <1>5, <1>6 DEF MailGoesOn
  <1> QED
    BY <1>2, <1>3, <1>7, <1>8 DEF GoodStep

\* The requests of subscribers that only begin, read or remove.
LEMMA SubscriberAsks ==
    ASSUME DeliveryInv, NEW r \in Requests,
           \/ \E name \in Names :
                 \/ \E kinds \in {{"ALL"}, {"ASSIGNMENT_STATE_CHANGED"}} : StartSubscribe(r, name, kinds)
                 \/ StartUnsubscribe(r, name)
           \/ FindSubscriber(r)
           \/ RemoveSubscriber(r)
    PROVE  /\ AccountsInv' /\ RequestsOK' /\ UNCHANGED <<accounts, participants, nextId>>
           /\ \A s \in Requests : \/ req'[s] = req[s]
                                  \/ /\ req'[s] \in {Idle} \cup SubscriberRequest
                                     /\ req'[s].pc = "save" => req'[s].row.id < nextId
  <1> USE PartsOfInv
  <1>1. ASSUME NEW q \in SubscriberRequest, Begin(r, q), q.pc = "find"
        PROVE  /\ AccountsInv' /\ RequestsOK' /\ UNCHANGED <<accounts, participants, nextId>>
               /\ req'[r] = q /\ \A s \in Requests \ {r} : req'[s] = req[s]
    <2>1. AccountsInv' /\ RequestsOK'
      BY <1>1, Begins, SubscriberFields
    <2> QED
      BY <1>1, <2>1 DEF Begin, rows, RequestsOK
  <1>2. ASSUME NEW q \in {Idle} \cup SubscriberRequest, GoOn(r, q)
        PROVE  /\ AccountsInv' /\ RequestsOK' /\ UNCHANGED <<accounts, participants, nextId>>
               /\ req'[r] = q /\ \A s \in Requests \ {r} : req'[s] = req[s]
    <2>1. q.op \in {"none", "subscribe", "unsubscribe"}
      BY SubscriberFields DEF Idle
    <2>2. AccountsInv' /\ RequestsOK'
      BY <1>2, <2>1, GoesOn
    <2> QED
      BY <1>2, <2>2 DEF GoOn, Advance, rows, RequestsOK
  <1>3. CASE \E name \in Names :
                \/ \E kinds \in {{"ALL"}, {"ASSIGNMENT_STATE_CHANGED"}} : StartSubscribe(r, name, kinds)
                \/ StartUnsubscribe(r, name)
    <2>0. {"ALL"} \in Interests /\ {"ASSIGNMENT_STATE_CHANGED"} \in Interests
      BY DEF Interests, Event
    <2>1. PICK name \in Names :
             \/ \E kinds \in Interests : StartSubscribe(r, name, kinds)
             \/ StartUnsubscribe(r, name)
      BY <1>3, <2>0
    <2>2. \E q \in SubscriberRequest : Begin(r, q) /\ q.pc = "find"
      <3>1. ASSUME NEW kinds \in Interests, StartSubscribe(r, name, kinds)
            PROVE  <2>2
        <4> DEFINE q == [op |-> "subscribe", pc |-> "find", name |-> name, events |-> kinds]
        <4>1. q \in SubscriberRequest /\ q.pc = "find"
          BY DEF SubscriberRequest
        <4>2. Begin(r, q)
          BY <3>1 DEF StartSubscribe
        <4> QED
          BY <4>1, <4>2
      <3>2. CASE StartUnsubscribe(r, name)
        <4> DEFINE q == [op |-> "unsubscribe", pc |-> "find", name |-> name]
        <4>1. q \in SubscriberRequest /\ q.pc = "find"
          BY DEF SubscriberRequest
        <4>2. Begin(r, q)
          BY <3>2 DEF StartUnsubscribe
        <4> QED
          BY <4>1, <4>2
      <3> QED
        BY <2>1, <3>1, <3>2
    <2>3. PICK q \in SubscriberRequest : Begin(r, q) /\ q.pc = "find"
      BY <2>2
    <2>4. req'[r] = q /\ \A s \in Requests \ {r} : req'[s] = req[s]
      BY <1>1, <2>3
    <2>5. AccountsInv' /\ RequestsOK' /\ UNCHANGED <<accounts, participants, nextId>>
      BY <1>1, <2>3
    <2> QED
      BY <2>3, <2>4, <2>5
  <1>4. ASSUME NEW q \in {Idle} \cup SubscriberRequest, GoOn(r, q), q.pc = "save" => q.row.id < nextId
        PROVE  /\ AccountsInv' /\ RequestsOK' /\ UNCHANGED <<accounts, participants, nextId>>
               /\ \A s \in Requests : \/ req'[s] = req[s]
                                      \/ /\ req'[s] \in {Idle} \cup SubscriberRequest
                                         /\ req'[s].pc = "save" => req'[s].row.id < nextId
    <2>1. req'[r] = q /\ \A s \in Requests \ {r} : req'[s] = req[s]
      BY <1>2, <1>4
    <2>2. AccountsInv' /\ RequestsOK' /\ UNCHANGED <<accounts, participants, nextId>>
      BY <1>2, <1>4
    <2> QED
      BY <1>4, <2>1, <2>2
  <1>5. CASE FindSubscriber(r)
    <2>1. /\ req[r].op \in {"subscribe", "unsubscribe"} /\ req[r].pc = "find"
          /\ req[r] \in SubscriberRequest /\ req[r].name \in Names
          /\ req[r].op = "subscribe" => req[r].events \in Interests
      BY <1>5, SubscriberSlot, SubscriberFields DEF FindSubscriber, At
    <2>2. ASSUME NEW row \in [id : Id \cup {0}, name : Names, events : Interests], row.id < nextId,
                 NEW q, q = [op |-> req[r].op, pc |-> "save", row |-> row]
          PROVE  q \in SubscriberRequest /\ q.row.id < nextId
      BY <2>1, <2>2 DEF SubscriberRequest
    <2>3. ASSUME NEW x \in subscribers
          PROVE  /\ x \in [id : Id \cup {0}, name : Names, events : Interests] /\ x.id < nextId
                 /\ req[r].op = "subscribe" =>
                       /\ [x EXCEPT !.events = req[r].events] \in [id : Id \cup {0}, name : Names, events : Interests]
                       /\ [x EXCEPT !.events = req[r].events].id < nextId
      BY <2>1 DEF TablesOK, Subscriber, SubscribersKnown
    <2>4. nextId > 0
      BY AccountsAssumption DEF AccountsInv, TypeOK
    <2>5. ASSUME NEW x \in subscribers,
                 GoOn(r, [op |-> req[r].op, pc |-> "save",
                          row |-> IF req[r].op = "subscribe" THEN [x EXCEPT !.events = req[r].events] ELSE x])
          PROVE  \E q \in {Idle} \cup SubscriberRequest : GoOn(r, q) /\ (q.pc = "save" => q.row.id < nextId)
      <3>1. PICK row : row = IF req[r].op = "subscribe" THEN [x EXCEPT !.events = req[r].events] ELSE x
        OBVIOUS
      <3>2. row \in [id : Id \cup {0}, name : Names, events : Interests] /\ row.id < nextId
        BY <2>1, <2>3, <3>1
      <3>3. PICK q : q = [op |-> req[r].op, pc |-> "save", row |-> row]
        OBVIOUS
      <3> QED
        BY <2>2, <2>5, <3>1, <3>2, <3>3
    <2>6. ASSUME GoOn(r, [op |-> req[r].op, pc |-> "save",
                          row |-> [id |-> 0, name |-> req[r].name, events |-> req[r].events]]),
                 req[r].op = "subscribe"
          PROVE  \E q \in {Idle} \cup SubscriberRequest : GoOn(r, q) /\ (q.pc = "save" => q.row.id < nextId)
      <3>1. PICK row : row = [id |-> 0, name |-> req[r].name, events |-> req[r].events]
        OBVIOUS
      <3>2. row \in [id : Id \cup {0}, name : Names, events : Interests] /\ row.id < nextId
        BY <2>1, <2>4, <2>6, <3>1
      <3>3. PICK q : q = [op |-> req[r].op, pc |-> "save", row |-> row]
        OBVIOUS
      <3> QED
        BY <2>2, <2>6, <3>1, <3>2, <3>3
    <2>7. CASE NoChange(r)
      BY <1>4, <2>7 DEF NoChange, Idle
    <2> QED
      BY <1>4, <1>5, <2>5, <2>6, <2>7 DEF FindSubscriber
  <1>6. CASE RemoveSubscriber(r)
    BY <1>4, <1>6 DEF RemoveSubscriber, NoChange, Idle
  <1> QED
    BY <1>3, <1>5, <1>6

\* A subscriber is saved: his name stays unique, and a new id has not been used.
LEMMA SaveSubscriberTables ==
    ASSUME DeliveryInv, NEW r \in Requests, SaveSubscriber(r)
    PROVE  /\ subscribers' \subseteq Subscriber
           /\ \A x, y \in subscribers' : x.id = y.id \/ x.name = y.name => x = y
           /\ \A x \in subscribers' : x.id < nextId'
           /\ nextId' \in 1 .. MaxId + 1 /\ nextId' >= nextId
  <1> USE PartsOfInv
  <1> DEFINE x == req[r].row
  <1>0. nextId \in 1 .. MaxId + 1 /\ MaxId \in Nat
    BY AccountsAssumption DEF AccountsInv, TypeOK
  <1>1. /\ x \in [id : Id \cup {0}, name : Names, events : Interests]
        /\ x.id \in Id \cup {0} /\ x.id < nextId
    BY SubscriberSlot, SubscriberFields DEF SaveSubscriber, At, SubscribersKnown
  <1>2. /\ subscribers \subseteq Subscriber
        /\ \A y, z \in subscribers : y.id = z.id \/ y.name = z.name => y = z
        /\ \A y \in subscribers : y.id < nextId
    BY DEF TablesOK, SubscribersKnown
  <1>3. CASE subscribers' = subscribers /\ nextId' = nextId
    BY <1>0, <1>2, <1>3
  <1>4. CASE /\ \A y \in subscribers : y.name = x.name => y.id = x.id
             /\ x.id # 0 /\ nextId' = nextId
             /\ subscribers' = {y \in subscribers : y.id # x.id} \cup {x}
    <2>1. x \in Subscriber
      BY <1>1, <1>4 DEF Subscriber
    <2> HIDE DEF x
    <2> QED
      BY <1>0, <1>1, <1>2, <1>4, <2>1
  <1>5. CASE /\ \A y \in subscribers : y.name = x.name => y.id = x.id
             /\ x.id = 0 /\ NewId
             /\ subscribers' = subscribers \cup {[x EXCEPT !.id = nextId]}
    <2>1. PICK new : new = [x EXCEPT !.id = nextId]
      OBVIOUS
    <2>2. nextId \in Id /\ nextId' = nextId + 1
      BY <1>0, <1>5 DEF NewId, Id
    <2>3. new \in Subscriber /\ new.id = nextId /\ new.name = x.name
      BY <1>1, <2>1, <2>2 DEF Subscriber
    <2>4. \A y \in subscribers : y.id \in Id /\ y.id # 0 /\ y.id \in Nat
      BY <1>0, <1>2 DEF Subscriber, Id
    <2>5. subscribers' = subscribers \cup {new}
      BY <1>5, <2>1
    <2>6. \A y \in subscribers : y.name # new.name /\ y.id # new.id
      BY <1>0, <1>2, <1>5, <2>3, <2>4
    <2>7. nextId' \in 1 .. MaxId + 1 /\ nextId' >= nextId
      BY <1>0, <2>2 DEF Id
    <2> HIDE DEF x
    <2> QED
      BY <1>0, <1>2, <2>2, <2>3, <2>4, <2>5, <2>6, <2>7
  <1> QED
    BY <1>3, <1>4, <1>5 DEF SaveSubscriber

\* Requests of subscribers.
LEMMA SubscriptionGoodStep ==
    ASSUME DeliveryInv, NEW r \in Requests, Subscriptions(r)
    PROVE  GoodStep
  <1> USE PartsOfInv
  <1>1. UNCHANGED <<group, members, reviewed>> /\ UNCHANGED handlers
    BY DEF Subscriptions, eventVars, handlers, FindSubscriber, SaveSubscriber, RemoveSubscriber
  <1>2. HandlersOK' /\ \A e \in Events : MailGoesOn(e)
    BY <1>1, HandlersStay
  <1>3. CASE SaveSubscriber(r)
    <2>0. PICK new : new = {}
      OBVIOUS
    <2>1. /\ req' = [req EXCEPT ![r] = Idle] /\ sparky' = sparky
          /\ UNCHANGED <<accounts, settings, participants, cache, overtaken, stale, revived>>
      BY <1>3 DEF SaveSubscriber, Advance
    <2>2. Idle.op = "none"
      BY DEF Idle
    <2>3. Slots(new) /\ req'[r] = Idle /\ \A s \in Requests \ {r} : req'[s] = req[s]
      BY <2>1, <2>2, OneSlot
    <2>4. /\ subscribers' \subseteq Subscriber
          /\ \A x, y \in subscribers' : x.id = y.id \/ x.name = y.name => x = y
          /\ \A x \in subscribers' : x.id < nextId'
          /\ nextId' \in 1 .. MaxId + 1 /\ nextId' >= nextId
      BY <1>3, SaveSubscriberTables
    <2>5. AccountsInv' /\ RequestsOK'
      <3>1. sparky' \in [Users -> Infos] /\ overtaken' \subseteq Requests
        BY <2>1 DEF AccountsInv, TypeOK
      <3>2. \A s \in Requests \ overtaken' : req'[s].op = "login" => s \notin overtaken /\ req'[s] = req[s]
        BY <2>1, <2>2, <2>3
      <3>3. RequestsOK'
        BY <2>3 DEF Slots
      <3> QED
        BY <2>0, <2>1, <2>3, <2>4, <3>1, <3>2, <3>3, AccountsKept
    <2>6. SubscribersKnown'
      <3>1. ASSUME NEW s \in Requests, req'[s].op \in {"subscribe", "unsubscribe"}, req'[s].pc = "save"
            PROVE  req'[s].row.id < nextId'
        <4>1. s # r /\ req'[s] = req[s]
          BY <2>2, <2>3, <3>1
        <4>2. req[s].row.id \in Id \cup {0}
          BY <3>1, <4>1, SubscriberSlot, SubscriberFields
        <4>3. req[s].row.id < nextId
          BY <3>1, <4>1 DEF SubscribersKnown
        <4> QED
          BY <2>4, <4>1, <4>2, <4>3, KnownAreAccounts, AccountsAssumption DEF Id, AccountsInv
      <3> QED
        BY <2>4, <3>1 DEF SubscribersKnown
    <2>7. TablesOK'
      BY <1>1, <2>1, <2>4 DEF TablesOK
    <2> QED
      BY <1>2, <2>5, <2>6, <2>7 DEF GoodStep
  <1>4. CASE ~SaveSubscriber(r)
    <2>1. /\ \/ \E name \in Names :
                   \/ \E kinds \in {{"ALL"}, {"ASSIGNMENT_STATE_CHANGED"}} : StartSubscribe(r, name, kinds)
                   \/ StartUnsubscribe(r, name)
             \/ FindSubscriber(r)
             \/ RemoveSubscriber(r)
          /\ subscribers' \subseteq subscribers
      BY <1>4 DEF Subscriptions, FindSubscriber, RemoveSubscriber, eventVars
    <2>2. /\ AccountsInv' /\ RequestsOK' /\ UNCHANGED <<accounts, participants, nextId>>
          /\ \A s \in Requests : \/ req'[s] = req[s]
                                 \/ /\ req'[s] \in {Idle} \cup SubscriberRequest
                                    /\ req'[s].pc = "save" => req'[s].row.id < nextId
      BY <2>1, SubscriberAsks
    <2>3. SubscribersKnown'
      BY <2>1, <2>2 DEF SubscribersKnown
    <2>4. TablesOK'
      BY <1>1, <2>1, <2>2 DEF TablesOK
    <2> QED
      BY <1>2, <2>2, <2>3, <2>4 DEF GoodStep
  <1> QED
    BY <1>3, <1>4

-----------------------------------------------------------------------------
(* The theorems *)

\* The invariant holds at the beginning.
LEMMA InitDeliveryInv ==
    ASSUME Init
    PROVE  DeliveryInv
  <1>1. AccountsInv /\ \A r \in Requests : req[r] = Idle
    BY InitAccountsInv DEF Init, InitAccounts
  <1>2. RequestsOK
    BY DEF Init, InitAccounts, RequestsOK
  <1>3. /\ published = <<>> /\ Len(published) = 0 /\ 0 <= MaxEvents
        /\ mail = [e \in Events |-> Done({})] /\ posts = [e \in Events |-> Done({})]
        /\ willing = [e \in Events |-> {}] /\ steady = willing
        /\ group = TRUE /\ members \subseteq participants /\ reviewed = {} /\ subscribers = {}
    BY EventDeliveryAssumption DEF Init
  <1>4. Done({}) \in Task(Id) /\ Done({}) \in Task(Names) /\ Done({}).pc = "done" /\ Done({}).sent = {}
    BY DEF Done, Task
  <1>5. DeliveryTypeOK
    BY <1>1, <1>2, <1>3, <1>4 DEF DeliveryTypeOK, AccountsInv, RequestsOK
  <1>6. TasksOK
    BY <1>3, <1>4 DEF TasksOK
  <1>7. SubscribersKnown
    BY <1>1, <1>3 DEF SubscribersKnown, Idle
  <1>8. TasksConsistent
    BY <1>3, <1>4 DEF TasksConsistent
  <1> QED
    BY <1>1, <1>5, <1>6, <1>7, <1>8 DEF DeliveryInv

\* The invariant survives every step.
LEMMA DeliveryStep ==
    ASSUME DeliveryInv, [Next]_vars
    PROVE  DeliveryInv'
  <1>1. CASE Next
    <2>1. GoodStep
      BY <1>1, AccountGoodStep, CourseGoodStep, RestartGoodStep, SubscriptionGoodStep,
         MailGoodStep, NotifyGoodStep DEF Next
    <2> QED
      BY <1>1, <2>1, GoodStepKeepsInv DEF Next
  <1>2. CASE UNCHANGED vars
    <2>1. DeliveryTypeOK'
      BY <1>2 DEF DeliveryInv, DeliveryTypeOK, TypeOK, vars, accountVars, eventVars, rows
    <2>2. AccountsInv'
      BY <1>2, PartsOfInv, AccountsStay DEF vars, accountVars
    <2>3. TasksOK' /\ SubscribersKnown'
      BY <1>2 DEF DeliveryInv, TasksOK, SubscribersKnown, vars, accountVars, eventVars, rows
    <2>4. TasksConsistent'
      <3>1. Allowing' = Allowing
        BY <1>2 DEF Allowing, CoursesOf, vars, accountVars, rows
      <3>2. \A kind : Audience(kind)' = Audience(kind)
        BY <1>2 DEF Audience, vars, accountVars, eventVars, rows
      <3>3. \A event : Due(event)' = Due(event)
        BY <3>1, <3>2 DEF Due
      <3>4. UNCHANGED <<mail, published, willing, steady>>
        BY <1>2 DEF vars, eventVars
      <3>5. \A e \in Events : MailConsistent(e) => MailConsistent(e)'
        BY <3>1, <3>3, <3>4 DEF MailConsistent
      <3> QED
        BY <3>4, <3>5 DEF DeliveryInv, TasksConsistent
    <2> QED
      BY <2>1, <2>2, <2>3, <2>4 DEF DeliveryInv
  <1> QED
    BY <1>1, <1>2

\* Ids of accounts and subscribers are not used twice, what logins have read is
\* stored unless they were overtaken, and what is due to whom agrees with what the
\* handlers have read.
THEOREM Consistency == Spec => []DeliveryInv
  BY InitDeliveryInv, DeliveryStep, PTL DEF Spec

\* All variables keep their types, and the tables their keys and references.
THEOREM TypeCorrectness == Spec => []DeliveryTypeOK
  <1>1. DeliveryInv => DeliveryTypeOK
    BY DEF DeliveryInv
  <1> QED
    BY <1>1, Consistency, PTL

\* The user whom SparkyAuthStrategy has cached for a token is the stored account,
\* unless another request has changed it since the login read it.
THEOREM CacheIsTrue == Spec => []CachedUserIsStored
  <1>1. DeliveryInv => CachedUserIsStored
    BY DEF DeliveryInv, AccountsInv
  <1> QED
    BY <1>1, Consistency, PTL

\* Who writes a role: an administrator, or a login that writes back what it has read.
LEMMA RoleWritten ==
    ASSUME DeliveryInv, Next, NEW x \in accounts, NEW y \in accounts', x.id = y.id, x.role # y.role
    PROVE  \E r \in Requests : \/ At(r, "update", "save") /\ req'[r] = Idle
                               \/ At(r, "login", "save") /\ r \in overtaken
  <1> USE PartsOfInv
  <1>0. \A z \in accounts : z.id = x.id => z = x
    BY DEF AccountsInv, TypeOK
  <1>1. y \notin accounts
    BY <1>0
  <1>2. AccountsNext
    <2>1. CASE CourseStep
      BY <1>1, <2>1 DEF CourseStep, JoinGroup, LeaveGroup, DeleteGroup, AssignmentEvent, Assess,
                        OnlyCourse, rows
    <2>2. CASE Restart
      BY <1>1, <2>2 DEF Restart, Crash, rows
    <2>3. ASSUME NEW r \in Requests, Subscriptions(r)
          PROVE  accounts' = accounts
      BY <2>3 DEF Subscriptions, StartSubscribe, StartUnsubscribe, Begin, FindSubscriber, SaveSubscriber,
                  RemoveSubscriber, NoChange, GoOn, rows
    <2>4. ASSUME NEW e \in Events, Mail(e) \/ Notify(e)
          PROVE  accounts' = accounts
      BY <2>4 DEF Mail, Notify, accountVars, rows
    <2> QED
      BY <1>1, <2>1, <2>2, <2>3, <2>4 DEF Next, AccountStep
  <1>3. PICK r \in Requests : (CreateAccount(r) \/ CreateUser(r) \/ SaveLogin(r) \/ SaveUpdate(r))
                              /\ accounts' # accounts
    <2>1. \A r \in Requests : \A q : Begin(r, q) \/ GoOn(r, q) => accounts' = accounts
      BY DEF Begin, GoOn, rows
    <2>2. ASSUME NEW r \in Requests, NEW u \in Users, StartLogin(r, u)
          PROVE  accounts' = accounts
      BY <2>1, <2>2 DEF StartLogin
    <2>3. ASSUME NEW r \in Requests, Login(r)
          PROVE  accounts' = accounts \/ CreateAccount(r) \/ SaveLogin(r)
      <3>1. ASSUME Verify(r) \/ Reread(r)
            PROVE  accounts' = accounts
        BY <2>1, <3>1 DEF Verify, Reread, NoChange
      <3>2. ASSUME FindAccount(r)
            PROVE  accounts' = accounts
        <4>1. CASE \E q : GoOn(r, q)
          BY <2>1, <4>1
        <4> QED
          BY <3>2, <4>1 DEF FindAccount
      <3> QED
        BY <2>3, <3>1, <3>2 DEF Login, CacheUser, rows
    <2>4. ASSUME NEW r \in Requests, Administration(r)
          PROVE  accounts' = accounts \/ CreateUser(r) \/ SaveUpdate(r)
      BY <2>1, <2>4 DEF Administration, StartCreate, StartUpdate
    <2>5. ASSUME \E z \in accounts : DeleteUser(z)
          PROVE  FALSE
      BY <1>1, <2>5 DEF DeleteUser, Others
    <2>6. ASSUME \/ \E u \in Users : Expire(u) \/ \E info \in Infos : SparkyChanges(u, info)
                 \/ \E z \in accounts : \/ SignUp(z)
                                        \/ \E allow \in BOOLEAN, b \in Refusals : ChangeSettings(z, allow, b)
                 \/ \E p \in participants : SignOff(p)
          PROVE  accounts' = accounts
      BY <2>6 DEF Expire, SparkyChanges, SignUp, ChangeSettings, SignOff, rows
    <2> QED
      BY <1>1, <1>2, <2>2, <2>3, <2>4, <2>5, <2>6 DEF AccountsNext
  <1>4. \A z \in accounts : z.id < nextId /\ z.id \in Nat
    BY KnownAccountsAre, KnownAreAccounts DEF AccountsInv, AccountsKnown
  <1>5. CASE CreateAccount(r) \/ CreateUser(r)
    <2>1. PICK u, info, role : InsertAccount(r, u, info, role)
      BY <1>3, <1>5 DEF CreateAccount, CreateUser, NoChange, GoOn, rows
    <2>2. y \in accounts \/ y.id = nextId
      BY <2>1 DEF InsertAccount
    <2> QED
      BY <1>1, <1>4, <2>2, KnownAreAccounts DEF AccountsInv
  <1>6. CASE SaveUpdate(r)
    <2>1. At(r, "update", "save") /\ req' = [req EXCEPT ![r] = Idle]
      BY <1>6 DEF SaveUpdate, NoChange, GoOn, Advance
    <2> QED
      BY <2>1 DEF RequestsOK
  <1>7. CASE SaveLogin(r)
    <2>1. /\ At(r, "login", "save") /\ SaveAccount(r, req[r].row)
      BY <1>3, <1>7 DEF SaveLogin, LoginColumns, NoChange, GoOn, rows
    <2>2. y = req[r].row
      BY <1>1, <2>1 DEF SaveAccount, Others
    <2>3. CASE r \notin overtaken
      <3>1. ReadIsStored(r)
        BY <2>1, <2>3 DEF AccountsInv, LoginsConsistent, At
      <3>2. \E z \in accounts : z.id = req[r].row.id /\ z.role = req[r].row.role
        BY <2>1, <3>1 DEF ReadIsStored, At
      <3> QED
        BY <1>0, <2>2, <3>2
    <2> QED
      BY <2>1, <2>3
  <1> QED
    BY <1>3, <1>5, <1>6, <1>7

\* A login leaves the role alone that an administrator has given, unless the role
\* was given while the login ran.
THEOREM RoleOutlivesLogin == Spec => RoleSurvivesLogin
  <1>1. DeliveryInv /\ [Next]_vars =>
           [\A x \in accounts, y \in accounts' : x.id = y.id /\ x.role # y.role =>
               \E r \in Requests :
                  \/ At(r, "update", "save") /\ req'[r] = Idle
                  \/ At(r, "login", "save") /\ r \in overtaken]_accountVars
    BY RoleWritten DEF vars, accountVars
  <1> QED
    BY <1>1, Consistency, PTL DEF Spec, RoleSurvivesLogin

\* A handler of mails that others do not end.
LEMMA OthersDoNotEnd ==
    ASSUME DeliveryInv, NEW e \in Events, mail[e].pc = "run",
           AccountStep \/ CourseStep \/ Restart \/ \E r \in Requests : Subscriptions(r)
    PROVE  mail'[e].pc # "done"
  <1> USE PartsOfInv
  <1>1. CASE UNCHANGED handlers
    BY <1>1 DEF handlers
  <1>2. CASE Restart
    <2>1. mail' = Lose(mail)
      BY <1>2 DEF Restart
    <2>2. [Done({}) EXCEPT !.pc = "lost"].pc = "lost"
      BY DEF Done
    <2> QED
      BY <2>1, <2>2 DEF Lose
  <1>3. ASSUME NEW kind, NEW account, Publish(kind, account)
        PROVE  mail'[e].pc # "done"
    <2>1. e # Len(published) + 1
      OBVIOUS
    <2> QED
      BY <1>3, <2>1 DEF Publish, HandlersOK
  <1>4. UNCHANGED handlers \/ Restart \/ \E kind, account : Publish(kind, account)
    BY DEF AccountStep, CourseStep, JoinGroup, LeaveGroup, DeleteGroup, AssignmentEvent, Assess,
           Subscriptions, FindSubscriber, SaveSubscriber, RemoveSubscriber, eventVars, handlers
  <1> QED
    BY <1>1, <1>2, <1>3, <1>4

\* A handler of mails that ends has written to whom a mail is due, and to nobody
\* who has not allowed mails.
LEMMA MailsSent ==
    ASSUME DeliveryInv, Next, NEW e \in Events, mail[e].pc = "run", mail'[e].pc = "done"
    PROVE  steady[e] \subseteq mail'[e].sent /\ mail'[e].sent \subseteq willing[e]
  <1> USE PartsOfInv
  <1>1. PICK f \in Events : Mail(f)
    <2>1. \A f \in Events : Notify(f) => mail' = mail
      BY DEF Notify
    <2> QED
      BY <2>1, OthersDoNotEnd DEF Next
  <1>2. f = e
    BY <1>1 DEF Mail, ReadAudience, ReadReceivers, SendMails, HandlersOK
  <1>3. mail \in [Events -> Task(Id)] /\ mail[e] \in Task(Id)
    BY DEF HandlersOK
  <1>4. MailConsistent(e)
    BY DEF DeliveryInv, TasksConsistent
  <1>5. PICK event : event = published[e]
    OBVIOUS
  <1>6. \A sent : Done(sent).sent = sent /\ Done(sent).pc = "done"
    BY DEF Done
  <1>7. CASE ReadAudience(e)
    <2>1. ~(mail' = [mail EXCEPT ![e].audience = {Audience(event.kind)}])
      <3>1. ASSUME mail' = [mail EXCEPT ![e].audience = {Audience(event.kind)}]
            PROVE  mail'[e].pc = mail[e].pc
        <4>1. mail' = [mail EXCEPT ![e] = [mail[e] EXCEPT !.audience = {Audience(event.kind)}]]
          BY <3>1
        <4>2. [mail[e] EXCEPT !.audience = {Audience(event.kind)}].pc = mail[e].pc
          BY <1>3 DEF Task
        <4> QED
          BY <1>3, <4>1, <4>2
      <3> QED
        BY <3>1
    <2>2. /\ mail' = [mail EXCEPT ![e] = Done({})]
          /\ (event.kind \in GroupKinds /\ ~group) \/ (event.kind = "ASSESSMENT_SCORE_CHANGED" /\ reviewed = {})
      BY <1>5, <1>7, <2>1 DEF ReadAudience
    <2>3. group = FALSE => members = {}
      BY DEF TablesOK
    <2>4. CASE event.kind \in GroupKinds /\ ~group
      <3>1. Audience(event.kind) = {}
        BY <2>3, <2>4 DEF Audience, GroupKinds, TablesOK
      <3>2. Due(event) = {}
        BY <3>1, DueIs
      <3> QED
        BY <1>3, <1>4, <1>5, <1>6, <2>2, <3>2 DEF MailConsistent
    <2>5. CASE event.kind = "ASSESSMENT_SCORE_CHANGED" /\ reviewed = {}
      <3>1. Audience(event.kind) = {}
        BY <2>5 DEF Audience, GroupKinds
      <3>2. Due(event) = {}
        BY <3>1, DueIs
      <3> QED
        BY <1>3, <1>4, <1>5, <1>6, <2>2, <3>2 DEF MailConsistent
    <2> QED
      BY <2>2, <2>4, <2>5
  <1>8. CASE ReadReceivers(e)
    <2>1. mail' = [mail EXCEPT ![e] = [mail[e] EXCEPT !.receivers = {Receivers(event.kind)}]]
      BY <1>5, <1>8 DEF ReadReceivers
    <2>2. [mail[e] EXCEPT !.receivers = {Receivers(event.kind)}].pc = mail[e].pc
      BY <1>3 DEF Task
    <2> QED
      BY <1>3, <2>1, <2>2
  <1>9. CASE SendMails(e)
    <2>1. PICK audience \in mail[e].audience, receivers \in mail[e].receivers :
             mail' = [mail EXCEPT ![e] = Done(IF event.kind \in GroupKinds /\ event.account \notin audience
                                              THEN {} ELSE (audience \cap receivers) \ {event.account})]
      BY <1>5, <1>9 DEF SendMails
    <2>2. mail'[e].sent = IF event.kind \in GroupKinds /\ event.account \notin audience
                          THEN {} ELSE (audience \cap receivers) \ {event.account}
      BY <1>3, <1>6, <2>1
    <2>3. /\ steady[e] \subseteq receivers /\ receivers \subseteq willing[e]
          /\ IF event.kind \in GroupKinds /\ event.account \notin audience
             THEN steady[e] = {} ELSE steady[e] \subseteq audience \ {event.account}
      BY <1>4, <1>5, <2>1 DEF MailConsistent
    <2> QED
      BY <2>2, <2>3
  <1> QED
    BY <1>1, <1>2, <1>7, <1>8, <1>9 DEF Mail

\* MailingListener writes to everyone who was due a mail from the event until its
\* end, whichever events he has blacklisted, and to nobody who has not allowed mails
\* at some moment in between.
THEOREM MailsArrive == Spec => MailsReachWhoAllowsThem
  <1>1. DeliveryInv /\ [Next]_vars =>
           [\A e \in Events : mail[e].pc = "run" /\ mail'[e].pc = "done" =>
               steady[e] \subseteq mail'[e].sent /\ mail'[e].sent \subseteq willing[e]]_vars
    BY MailsSent
  <1> QED
    BY <1>1, Consistency, PTL DEF Spec, MailsReachWhoAllowsThem
=============================================================================
