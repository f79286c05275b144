--------------------- MODULE AssignmentRegistrationProofs ---------------------
(***************************************************************************)
(* Proofs about AssignmentRegistration, for every value of its constants.  *)
(***************************************************************************)
EXTENDS AssignmentRegistration, FiniteSetTheorems, TLAPS

\* The parts of the inductive invariant that are about the rows alone.
RowsConsistent ==
    /\ reg \subseteq Registration
    /\ regRel \subseteq Relation
    /\ nextId \in Nat
    /\ RowsUnique
    /\ RegistrationsReferToLiveRows

-----------------------------------------------------------------------------
(* Lemmas about requests *)

\* Nothing is seen by a request that begins.
LEMMA NothingSeen == <<>> \in Partitions /\ DOMAIN <<>> = {}
  <1>1. <<>> \in [{} -> SUBSET Pid] /\ DOMAIN <<>> = {}
    OBVIOUS
  <1> QED
    BY <1>1 DEF Partitions

\* A request that begins has the type of requests and carries nothing yet.
LEMMA NewRequestType ==
    ASSUME TypeOK, NEW op \in AllOps,
           NEW pc \in {"check", "load", "save", "find", "insert", "remove"},
           NEW a \in Assignments, NEW g \in GroupIds \cup {NoGroup},
           NEW u \in Users \cup {NoGroup},
           op \in {"group", "member", "unGroup"} => g \in GroupIds,
           op = "member" => u \in Users /\ enrol[u] # 0
    PROVE  /\ NewRequest(op, pc, a, g, u) \in Request
           /\ Consistent(NewRequest(op, pc, a, g, u))
  <1> DEFINE q == NewRequest(op, pc, a, g, u)
  <1>1. u \in Users => enrol[u] \in 0 .. MaxPid
    BY DEF TypeOK
  <1>2. q \in Request
    BY <1>1, NothingSeen, ConstantsAssumption DEF NewRequest, Request
  <1>3. /\ q.op = op /\ q.group = g /\ q.seen = <<>> /\ q.found = {}
        /\ u \in Users => q.pid = enrol[u]
    BY DEF NewRequest
  <1>4. Consistent(q)
    BY <1>1, <1>3, NothingSeen, ConstantsAssumption DEF Consistent, Pid
  <1> QED
    BY <1>2, <1>4

\* A slot that is at some step of a handler holds a request.
LEMMA BusySlot ==
    ASSUME IndInv, NEW r \in Requests, NEW ops, NEW pc, At(r, ops, pc), pc # "idle"
    PROVE  /\ req[r] \in Request /\ Consistent(req[r])
           /\ req[r].pc = pc /\ req[r].op \in ops
  <1>1. req[r] # Idle
    BY DEF At, Idle
  <1> QED
    BY <1>1 DEF IndInv, TypeOK, RequestsConsistent, At

\* A partition maps some groups to sets of participants.
LEMMA PartitionType ==
    ASSUME NEW seen
    PROVE  seen \in Partitions <=>
              seen \in [DOMAIN seen -> SUBSET Pid] /\ DOMAIN seen \subseteq GroupIds
  BY DEF Partitions

\* Steps that change nothing but their slot keep the invariant if what they carry on
\* is consistent.
LEMMA SlotStep ==
    ASSUME IndInv, NEW r \in Requests, NEW request \in {Idle} \cup Request,
           request # Idle => Consistent(request),
           req' = [req EXCEPT ![r] = request], started' \in Nat,
           UNCHANGED <<courseVars, registrationVars>>
    PROVE  IndInv'
  <1> USE DEF courseVars, registrationVars
  <1>1. TypeOK'
    BY DEF IndInv, TypeOK
  <1>2. RequestsConsistent'
    <2>1. \A s \in Requests : req'[s] = IF s = r THEN request ELSE req[s]
      BY DEF IndInv, TypeOK
    <2>2. \A q : Consistent(q)' = Consistent(q)
      BY DEF Consistent
    <2> QED
      BY <2>1 DEF IndInv, RequestsConsistent, Consistent
  <1>3. ParticipantsConsistent' /\ RowsUnique' /\ RegistrationsReferToLiveRows'
    BY DEF IndInv, ParticipantsConsistent, RowsUnique, RegistrationsReferToLiveRows, Current
  <1> QED
    BY <1>1, <1>2, <1>3 DEF IndInv

\* A handler that ends with a change of the rows.
LEMMA RowStep ==
    ASSUME IndInv, NEW r \in Requests, Finish(r), RowsConsistent',
           UNCHANGED <<courseVars, started>>
    PROVE  IndInv'
  <1> USE DEF courseVars, Finish
  <1>1. TypeOK'
    BY DEF IndInv, TypeOK, RowsConsistent
  <1>2. RequestsConsistent'
    <2>1. \A s \in Requests : req'[s] = IF s = r THEN Idle ELSE req[s]
      BY DEF IndInv, TypeOK
    <2> QED
      BY <2>1 DEF IndInv, RequestsConsistent, Consistent
  <1>3. ParticipantsConsistent'
    BY DEF IndInv, ParticipantsConsistent
  <1> QED
    BY <1>1, <1>2, <1>3 DEF IndInv, RowsConsistent

-----------------------------------------------------------------------------
(* Lemmas about the rows *)

\* What the cascade of one insert adds.
LEMMA NewRelationsMember ==
    ASSUME NEW a, NEW seen, NEW y
    PROVE  y \in NewRelations(a, seen) <=>
              \E g \in DOMAIN seen : \E p \in seen[g] :
                 y = [id |-> nextId,
                      registration |-> [id |-> nextId, assignment |-> a, group |-> g],
                      assignment |-> a, pid |-> p]
  BY DEF NewRelations, NewRegistrations

\* What the result of a save tells about the rows.
LEMMA SaveResultTells ==
    ASSUME NEW a, NEW seen
    PROVE  /\ SaveResult(a, seen) \in {"unique", "foreign", "ok"}
           /\ SaveResult(a, seen) = "ok" =>
                 /\ ~GroupTaken(a, seen) /\ ~ParentGone(a, seen)
                 /\ \A g \in DOMAIN seen : \A p \in seen[g] : ~PidTaken(a, p) /\ Current(p)
           /\ SaveResult(a, seen) = "foreign" =>
                 \/ ParentGone(a, seen)
                 \/ \E g \in DOMAIN seen : \E p \in seen[g] : ~Current(p)
  BY DEF SaveResult

\* An insert that no index and no foreign key has refused keeps the rows consistent.
LEMMA InsertKeepsRows ==
    ASSUME IndInv, NEW a \in Assignments, NEW seen \in Partitions,
           \A g, h \in DOMAIN seen : g # h => seen[g] \cap seen[h] = {},
           DOMAIN seen = {} \/ SaveResult(a, seen) = "ok",
           Insert(a, seen), UNCHANGED courseVars
    PROVE  RowsConsistent'
  <1> DEFINE Row(g) == [id |-> nextId, assignment |-> a, group |-> g]
             Rel(g, p) == [id |-> nextId, registration |-> Row(g), assignment |-> a, pid |-> p]
  <1>1. /\ DOMAIN seen \subseteq GroupIds
        /\ \A g \in DOMAIN seen : seen[g] \subseteq Pid
    BY PartitionType
  <1>2. \A g \in DOMAIN seen : Row(g) \in Registration
    BY <1>1 DEF IndInv, TypeOK, Registration
  <1>3. \A g \in DOMAIN seen : \A p \in seen[g] : Rel(g, p) \in Relation
    BY <1>1, <1>2 DEF IndInv, TypeOK, Relation
  <1>4. \A x : x \in reg' <=> x \in reg \/ \E g \in DOMAIN seen : x = Row(g)
    BY DEF Insert, NewRegistrations
  <1>5. \A y : y \in regRel' <=>
                  \/ y \in regRel
                  \/ \E g \in DOMAIN seen : \E p \in seen[g] : y = Rel(g, p)
    BY NewRelationsMember DEF Insert
  <1>6. \A g \in DOMAIN seen :
           /\ Row(g).assignment = a /\ Row(g).group = g
           /\ \A p \in seen[g] : /\ Rel(g, p).registration = Row(g)
                                 /\ Rel(g, p).assignment = a /\ Rel(g, p).pid = p
    OBVIOUS
  <1>7. \A g \in DOMAIN seen :
           /\ a \in assignments /\ g \in groups
           /\ \A x \in reg : ~(x.assignment = a /\ x.group = g)
           /\ \A p \in seen[g] :
                 Current(p) /\ \A y \in regRel : ~(y.assignment = a /\ y.pid = p)
    BY SaveResultTells DEF GroupTaken, RegistrationsOf, ParentGone, PidTaken
  <1> HIDE DEF Row, Rel
  <1>8. reg' \subseteq Registration /\ regRel' \subseteq Relation /\ nextId' \in Nat
    BY <1>2, <1>3, <1>4, <1>5 DEF IndInv, TypeOK, Insert
  <1>9. RowsUnique'
    <2>1. ASSUME NEW x \in reg', NEW y \in reg',
                 x.assignment = y.assignment, x.group = y.group
          PROVE  x = y
      BY <2>1, <1>4, <1>6, <1>7 DEF IndInv, RowsUnique
    <2>2. ASSUME NEW x \in regRel', NEW y \in regRel',
                 x.assignment = y.assignment, x.pid = y.pid
          PROVE  x = y
      <3>1. CASE x \in regRel /\ y \in regRel
        BY <2>2, <3>1 DEF IndInv, RowsUnique
      <3>2. CASE ~(x \in regRel /\ y \in regRel)
        BY <2>2, <3>2, <1>5, <1>6, <1>7
      <3> QED
        BY <3>1, <3>2
    <2> QED
      BY <2>1, <2>2 DEF RowsUnique
  <1>10. RegistrationsReferToLiveRows'
    <2>1. \A p : Current(p)' = Current(p)
      BY DEF Current, courseVars
    <2>2. \A x \in reg' : x.assignment \in assignments' /\ x.group \in groups'
      BY <1>4, <1>6, <1>7 DEF IndInv, RegistrationsReferToLiveRows, courseVars
    <2>3. \A y \in regRel' : /\ y.registration \in reg'
                             /\ y.assignment = y.registration.assignment
                             /\ Current(y.pid)
      BY <1>4, <1>5, <1>6, <1>7 DEF IndInv, RegistrationsReferToLiveRows
    <2> QED
      BY <2>1, <2>2, <2>3 DEF RegistrationsReferToLiveRows
  <1> QED
    BY <1>8, <1>9, <1>10 DEF RowsConsistent

\* So does a relation that is added to a registration of its assignment.
LEMMA AddRelationKeepsRows ==
    ASSUME IndInv, NEW a \in Assignments, NEW x \in Registration, x.assignment = a,
           NEW pid \in Pid, RelationFits(a, x, pid),
           AddRelation(a, x, pid), UNCHANGED courseVars
    PROVE  RowsConsistent'
  <1> DEFINE new == [id |-> nextId, registration |-> x, assignment |-> a, pid |-> pid]
  <1>1. new \in Relation
    BY DEF IndInv, TypeOK, Relation
  <1>2. /\ regRel' = regRel \cup {new} /\ reg' = reg /\ nextId' = nextId + 1
        /\ new.registration = x /\ new.assignment = a /\ new.pid = pid
    BY DEF AddRelation
  <1>3. /\ x \in reg /\ Current(pid)
        /\ \A y \in regRel : ~(y.assignment = a /\ y.pid = pid)
    BY DEF RelationFits, PidTaken
  <1> HIDE DEF new
  <1>4. RowsUnique'
    BY <1>2, <1>3 DEF IndInv, RowsUnique
  <1>5. RegistrationsReferToLiveRows'
    BY <1>2, <1>3 DEF IndInv, RegistrationsReferToLiveRows, Current, courseVars
  <1> QED
    BY <1>1, <1>2, <1>4, <1>5 DEF IndInv, TypeOK, RowsConsistent

\* The cascade of a removal keeps the rows consistent, also if the groups or
\* assignments of the removed registrations go at the same time.
LEMMA DropKeepsRows ==
    ASSUME IndInv, NEW gone, DropRegistrations(gone), enrol' = enrol,
           \A x \in reg \ gone : x.assignment \in assignments' /\ x.group \in groups'
    PROVE  RowsConsistent'
  <1>1. /\ reg' = reg \ gone /\ nextId' = nextId
        /\ \A y : y \in regRel' <=> y \in regRel /\ y.registration \notin gone
    BY DEF DropRegistrations
  <1>2. RowsUnique'
    BY <1>1 DEF IndInv, RowsUnique
  <1>3. RegistrationsReferToLiveRows'
    BY <1>1 DEF IndInv, RegistrationsReferToLiveRows, Current
  <1> QED
    BY <1>1, <1>2, <1>3 DEF IndInv, TypeOK, RowsConsistent

-----------------------------------------------------------------------------
(* The inductive invariant: steps of requests *)

\* A request that begins fills a free slot.
LEMMA BeginStep ==
    ASSUME IndInv, NEW r \in Requests, NEW request \in Request,
           Begin(r, request), Consistent(request)
    PROVE  IndInv'
  <1>1. started' \in Nat
    BY DEF Begin, IndInv, TypeOK
  <1> QED
    BY <1>1, SlotStep DEF Begin

\* Every kind of request begins consistent.
LEMMA StartStep ==
    ASSUME IndInv, NEW r \in Requests, Start(r)
    PROVE  IndInv'
  <1> USE DEF AllOps
  <1>1. PICK a \in Assignments :
           \/ StartAssignment(r, a) \/ StartRegisterAll(r, a) \/ StartUnregisterAll(r, a)
           \/ \E g \in GroupIds : StartRegisterGroup(r, a, g) \/ StartUnregisterGroup(r, a, g)
           \/ \E u \in Users : StartUnregisterUser(r, a, u)
           \/ \E g \in GroupIds, u \in Users : StartRegisterUser(r, a, g, u)
    BY DEF Start
  <1>2. PICK op \in AllOps, pc \in {"check", "load", "save", "find", "insert", "remove"},
             g \in GroupIds \cup {NoGroup}, u \in Users \cup {NoGroup} :
           /\ Begin(r, NewRequest(op, pc, a, g, u))
           /\ op \in {"group", "member", "unGroup"} => g \in GroupIds
           /\ op = "member" => u \in Users /\ enrol[u] # 0
    <2>1. CASE \/ StartAssignment(r, a) \/ StartRegisterAll(r, a) \/ StartUnregisterAll(r, a)
      BY <2>1 DEF StartAssignment, StartRegisterAll, StartUnregisterAll
    <2>2. CASE \E g \in GroupIds : StartRegisterGroup(r, a, g) \/ StartUnregisterGroup(r, a, g)
      BY <2>2 DEF StartRegisterGroup, StartUnregisterGroup
    <2>3. CASE \E u \in Users : StartUnregisterUser(r, a, u)
      BY <2>3 DEF StartUnregisterUser
    <2>4. CASE \E g \in GroupIds, u \in Users : StartRegisterUser(r, a, g, u)
      BY <2>4 DEF StartRegisterUser
    <2> QED
      BY <1>1, <2>1, <2>2, <2>3, <2>4
  <1> QED
    BY <1>2, NewRequestType, BeginStep DEF IndInv

\* A request that is rejected leaves everything as it was.
LEMMA RejectStep ==
    ASSUME IndInv, NEW r \in Requests, Reject(r)
    PROVE  IndInv'
  BY SlotStep DEF Reject, GoOn, IndInv, TypeOK

\* A handler that goes on, at another step or with something it has read.
LEMMA GoOnStep ==
    ASSUME IndInv, NEW r \in Requests, NEW request \in Request,
           Consistent(request), GoOn(r, request)
    PROVE  IndInv'
  BY SlotStep DEF GoOn, IndInv, TypeOK

\* Nothing but the step of the handler changes.
LEMMA NextPc ==
    ASSUME NEW q \in Request, Consistent(q),
           NEW pc \in {"check", "load", "save", "find", "insert", "remove"}
    PROVE  [q EXCEPT !.pc = pc] \in Request /\ Consistent([q EXCEPT !.pc = pc])
  BY DEF Request, Consistent

\* The members of a group are participants, and no user is a member of two groups.
LEMMA MembersDisjoint ==
    ASSUME IndInv
    PROVE  /\ \A g \in GroupIds : Members(g) \subseteq Pid
           /\ \A g, h \in GroupIds : g # h => Members(g) \cap Members(h) = {}
  <1>1. ASSUME NEW g \in GroupIds, NEW p \in Members(g)
        PROVE  \E u \in Users : enrol[u] = p /\ memberOf[u] = g /\ p # 0 /\ p \in 0 .. MaxPid
    BY ConstantsAssumption DEF Members, IndInv, TypeOK, ParticipantsConsistent
  <1>2. \A g \in GroupIds : Members(g) \subseteq Pid
    BY <1>1, ConstantsAssumption DEF Pid
  <1>3. \A g, h \in GroupIds : g # h => Members(g) \cap Members(h) = {}
    BY <1>1 DEF IndInv, ParticipantsConsistent
  <1> QED
    BY <1>2, <1>3

\* Merging joins whole groups: nobody is a member of two of the merged groups.
LEMMA MergedType ==
    ASSUME NEW seen \in Partitions, NEW merged \in Merged(seen),
           \A g, h \in DOMAIN seen : g # h => seen[g] \cap seen[h] = {}
    PROVE  /\ merged \in Partitions
           /\ \A g, h \in DOMAIN merged : g # h => merged[g] \cap merged[h] = {}
  <1>1. CASE merged = seen
    BY <1>1
  <1>2. ASSUME NEW t \in [DOMAIN seen -> DOMAIN seen],
               merged = [g \in Range(t) |->
                            UNION {seen[h] : h \in {k \in DOMAIN seen : t[k] = g}}]
        PROVE  /\ merged \in Partitions
               /\ \A g, h \in DOMAIN merged : g # h => merged[g] \cap merged[h] = {}
    <2>1. DOMAIN merged = Range(t) /\ Range(t) \subseteq DOMAIN seen
      BY <1>2 DEF Range
    <2>2. \A g \in DOMAIN merged : \A p \in merged[g] :
             \E k \in DOMAIN seen : t[k] = g /\ p \in seen[k]
      BY <1>2
    <2>3. \A g \in DOMAIN merged : merged[g] \subseteq Pid
      BY <2>2, PartitionType
    <2>4. merged \in [DOMAIN merged -> SUBSET Pid]
      BY <1>2, <2>3
    <2>5. merged \in Partitions
      BY <2>1, <2>4, PartitionType
    <2>6. \A g, h \in DOMAIN merged : g # h => merged[g] \cap merged[h] = {}
      BY <2>2
    <2> QED
      BY <2>5, <2>6
  <1> QED
    BY <1>1, <1>2 DEF Merged

\* Reading the groups of the course, merged or not.
LEMMA LoadGroupsStep ==
    ASSUME IndInv, NEW r \in Requests, LoadGroups(r)
    PROVE  IndInv'
  <1> DEFINE seen == [g \in {h \in groups : Members(h) # {}} |-> Members(g)]
  <1>1. PICK merged \in Merged(seen) :
           GoOn(r, [req[r] EXCEPT !.pc = "save", !.seen = merged])
    BY DEF LoadGroups
  <1>2. req[r] \in Request /\ Consistent(req[r]) /\ req[r].op \in {"start", "all"}
    BY BusySlot DEF LoadGroups
  <1>3. /\ DOMAIN seen \subseteq GroupIds
        /\ \A g \in DOMAIN seen : seen[g] = Members(g)
    BY DEF IndInv, TypeOK
  <1>4. seen \in Partitions
    <2>1. seen \in [DOMAIN seen -> SUBSET Pid]
      BY <1>3, MembersDisjoint
    <2> QED
      BY <1>3, <2>1, PartitionType
  <1>5. \A g, h \in DOMAIN seen : g # h => seen[g] \cap seen[h] = {}
    BY <1>3, MembersDisjoint
  <1> HIDE DEF seen
  <1>6. /\ merged \in Partitions
        /\ \A g, h \in DOMAIN merged : g # h => merged[g] \cap merged[h] = {}
    BY <1>4, <1>5, MergedType
  <1> DEFINE request == [req[r] EXCEPT !.pc = "save", !.seen = merged]
  <1>7. request \in Request /\ request.op = req[r].op /\ request.seen = merged
    BY <1>2, <1>6 DEF Request
  <1>8. Consistent(request)
    <2> HIDE DEF request
    <2> QED
      BY <1>2, <1>6, <1>7 DEF Consistent
  <1> QED
    BY <1>1, <1>7, <1>8, GoOnStep

\* Reading one group.
LEMMA LoadGroupStep ==
    ASSUME IndInv, NEW r \in Requests, LoadGroup(r)
    PROVE  IndInv'
  <1>1. req[r] \in Request /\ Consistent(req[r]) /\ req[r].op = "group"
    BY BusySlot DEF LoadGroup
  <1>2. CASE Reject(r)
    BY <1>2, RejectStep
  <1> DEFINE g == req[r].group
             seen == [h \in {g} |-> Members(g)]
             request == [req[r] EXCEPT !.pc = "save", !.seen = seen]
  <1>3. CASE GoOn(r, request)
    <2>1. g \in GroupIds /\ DOMAIN seen = {g}
      BY <1>1 DEF Consistent
    <2>2. seen \in Partitions
      <3>1. seen \in [{g} -> SUBSET Pid]
        BY <2>1, MembersDisjoint
      <3> QED
        BY <2>1, <3>1, PartitionType
    <2> HIDE DEF seen
    <2>3. request \in Request /\ request.op = "group" /\ request.seen = seen /\ request.group = g
      BY <1>1, <2>2 DEF Request
    <2> HIDE DEF request
    <2>4. Consistent(request)
      BY <2>1, <2>3 DEF Consistent
    <2> QED
      BY <1>3, <2>3, <2>4, GoOnStep
  <1> QED
    BY <1>2, <1>3 DEF LoadGroup

\* Looking for registrations before the first start.
LEMMA CheckFirstStartStep ==
    ASSUME IndInv, NEW r \in Requests, CheckFirstStart(r)
    PROVE  IndInv'
  <1>1. req[r] \in Request /\ Consistent(req[r])
    BY BusySlot DEF CheckFirstStart
  <1> QED
    BY <1>1, NextPc, GoOnStep, RejectStep DEF CheckFirstStart

\* Registering all groups: all of them or none.
LEMMA SaveAllStep ==
    ASSUME IndInv, NEW r \in Requests, SaveAll(r)
    PROVE  IndInv'
  <1>1. req[r] \in Request /\ Consistent(req[r])
    BY BusySlot DEF SaveAll
  <1>2. CASE Reject(r)
    BY <1>2, RejectStep
  <1> DEFINE a == req[r].assignment
             seen == req[r].seen
  <1>3. CASE /\ DOMAIN seen = {} \/ SaveResult(a, seen) = "ok"
             /\ Insert(a, seen) /\ Finish(r) /\ UNCHANGED <<courseVars, started>>
    <2>1. a \in Assignments /\ seen \in Partitions
      BY <1>1 DEF Request
    <2>2. \A g, h \in DOMAIN seen : g # h => seen[g] \cap seen[h] = {}
      BY <1>1 DEF Consistent
    <2> HIDE DEF a, seen
    <2>3. RowsConsistent'
      BY <1>3, <2>1, <2>2, InsertKeepsRows
    <2> QED
      BY <1>3, <2>3, RowStep
  <1> QED
    BY <1>2, <1>3 DEF SaveAll

\* Nothing is written if an error is swallowed.
LEMMA SaveGroupStep ==
    ASSUME IndInv, NEW r \in Requests, SaveGroup(r)
    PROVE  IndInv'
  <1>1. req[r] \in Request /\ Consistent(req[r])
    BY BusySlot DEF SaveGroup
  <1>2. CASE Reject(r)
    BY <1>2, RejectStep
  <1> DEFINE a == req[r].assignment
             seen == req[r].seen
  <1>3. CASE /\ SaveResult(a, seen) = "ok" /\ Insert(a, seen)
             /\ Finish(r) /\ UNCHANGED <<courseVars, started>>
    <2>1. a \in Assignments /\ seen \in Partitions
      BY <1>1 DEF Request
    <2>2. \A g, h \in DOMAIN seen : g # h => seen[g] \cap seen[h] = {}
      BY <1>1 DEF Consistent
    <2> HIDE DEF a, seen
    <2>3. RowsConsistent'
      BY <1>3, <2>1, <2>2, InsertKeepsRows
    <2> QED
      BY <1>3, <2>3, RowStep
  <1>4. CASE Finish(r) /\ UNCHANGED <<courseVars, registrationVars, started>>
    <2>1. started' \in Nat
      BY <1>4 DEF IndInv, TypeOK
    <2> QED
      BY <1>4, <2>1, SlotStep DEF Finish
  <1> QED
    BY <1>2, <1>3, <1>4 DEF SaveGroup

\* Looking whether the participant is registered already.
LEMMA CheckNotRegisteredStep ==
    ASSUME IndInv, NEW r \in Requests, CheckNotRegistered(r)
    PROVE  IndInv'
  <1>1. req[r] \in Request /\ Consistent(req[r])
    BY BusySlot DEF CheckNotRegistered
  <1> QED
    BY <1>1, NextPc, GoOnStep, RejectStep DEF CheckNotRegistered

\* What is found is a registration of the group that was asked for.
LEMMA FindRegistrationStep ==
    ASSUME IndInv, NEW r \in Requests, FindRegistration(r)
    PROVE  IndInv'
  <1> DEFINE found == RegistrationsOf(req[r].assignment, req[r].group)
             request == [req[r] EXCEPT !.pc = "insert", !.found = found]
  <1>1. req[r] \in Request /\ Consistent(req[r])
    BY BusySlot DEF FindRegistration
  <1>2. found \subseteq {x \in Registration :
                            x.assignment = req[r].assignment /\ x.group = req[r].group}
    BY DEF RegistrationsOf, IndInv, TypeOK
  <1> HIDE DEF found
  <1>3. /\ request \in Request /\ request.found = found
        /\ request.op = req[r].op /\ request.group = req[r].group
        /\ request.assignment = req[r].assignment /\ request.pid = req[r].pid
        /\ request.seen = req[r].seen
    BY <1>1, <1>2 DEF Request
  <1>4. GoOn(r, request)
    BY DEF FindRegistration, found
  <1> HIDE DEF request
  <1>5. Consistent(request)
    BY <1>1, <1>2, <1>3 DEF Consistent
  <1> QED
    BY <1>3, <1>4, <1>5, GoOnStep

\* The participant is registered with his group, or added to its registration.
LEMMA InsertMemberStep ==
    ASSUME IndInv, NEW r \in Requests, InsertMember(r)
    PROVE  IndInv'
  <1> DEFINE q == req[r]
             seen == [h \in {q.group} |-> {q.pid}]
  <1>1. q \in Request /\ Consistent(q) /\ q.op = "member"
    BY BusySlot DEF InsertMember
  <1>2. /\ q.assignment \in Assignments /\ q.group \in GroupIds /\ q.pid \in Pid
        /\ \A x \in q.found : x \in Registration /\ x.assignment = q.assignment
    BY <1>1 DEF Request, Consistent
  <1>3. CASE Reject(r)
    BY <1>3, RejectStep
  <1>4. CASE /\ SaveResult(q.assignment, seen) = "ok" /\ Insert(q.assignment, seen)
             /\ Finish(r) /\ UNCHANGED <<courseVars, started>>
    <2>1. seen \in Partitions
      <3>1. seen \in [{q.group} -> SUBSET Pid] /\ DOMAIN seen = {q.group}
        BY <1>2
      <3> QED
        BY <1>2, <3>1, PartitionType
    <2>2. \A g, h \in DOMAIN seen : g # h => seen[g] \cap seen[h] = {}
      OBVIOUS
    <2> HIDE DEF q, seen
    <2>3. RowsConsistent'
      BY <1>2, <1>4, <2>1, <2>2, InsertKeepsRows
    <2> QED
      BY <1>4, <2>3, RowStep
  <1>5. ASSUME NEW x \in q.found, RelationFits(q.assignment, x, q.pid),
               AddRelation(q.assignment, x, q.pid), Finish(r),
               UNCHANGED <<courseVars, started>>
        PROVE  IndInv'
    <2> HIDE DEF q
    <2>1. RowsConsistent'
      BY <1>2, <1>5, AddRelationKeepsRows
    <2> QED
      BY <1>5, <2>1, RowStep
  <1> QED
    BY <1>3, <1>4, <1>5 DEF InsertMember

\* Looking for the rows that are to be removed.
LEMMA FindRowsStep ==
    ASSUME IndInv, NEW r \in Requests, FindRows(r)
    PROVE  IndInv'
  <1> DEFINE found == IF req[r].op = "unUser"
                      THEN RelationsOf(req[r].assignment, req[r].user)
                      ELSE RegistrationsOf(req[r].assignment, req[r].group)
             request == [req[r] EXCEPT !.pc = "remove", !.found = found]
  <1>1. req[r] \in Request /\ Consistent(req[r]) /\ req[r].op # "member"
    BY BusySlot DEF FindRows
  <1>2. CASE Reject(r)
    BY <1>2, RejectStep
  <1>3. CASE GoOn(r, request)
    <2>1. found \subseteq Registration \cup Relation
      BY DEF RelationsOf, RegistrationsOf, IndInv, TypeOK
    <2> HIDE DEF found
    <2>2. /\ request \in Request /\ request.op = req[r].op
          /\ request.group = req[r].group /\ request.seen = req[r].seen
      BY <1>1, <2>1 DEF Request
    <2> HIDE DEF request
    <2>3. Consistent(request)
      BY <1>1, <2>2 DEF Consistent
    <2> QED
      BY <1>3, <2>2, <2>3, GoOnStep
  <1> QED
    BY <1>2, <1>3 DEF FindRows

\* Rows are removed by what was found, whatever has happened to them since.
LEMMA RemoveStep ==
    ASSUME IndInv, NEW r \in Requests,
           RemoveUser(r) \/ RemoveGroup(r) \/ RemoveAll(r)
    PROVE  IndInv'
  <1>1. CASE RemoveUser(r)
    <2>1. /\ Finish(r) /\ UNCHANGED <<courseVars, started>>
          /\ reg' = reg /\ nextId' = nextId /\ regRel' \subseteq regRel
      BY <1>1 DEF RemoveUser
    <2>2. RowsConsistent'
      BY <2>1 DEF IndInv, TypeOK, RowsConsistent, RowsUnique, RegistrationsReferToLiveRows,
                  Current, courseVars
    <2> QED
      BY <2>1, <2>2, RowStep
  <1>2. ASSUME NEW gone, DropRegistrations(gone), Finish(r), UNCHANGED <<courseVars, started>>
        PROVE  IndInv'
    <2>1. RowsConsistent'
      BY <1>2, DropKeepsRows DEF IndInv, RegistrationsReferToLiveRows, courseVars
    <2> QED
      BY <1>2, <2>1, RowStep
  <1> QED
    BY <1>1, <1>2 DEF RemoveGroup, RemoveAll

\* Every step of a handler keeps the invariant.
LEMMA RequestStepStep ==
    ASSUME IndInv, NEW r \in Requests, RequestStep(r)
    PROVE  IndInv'
  BY CheckFirstStartStep, LoadGroupsStep, SaveAllStep, LoadGroupStep, SaveGroupStep,
     CheckNotRegisteredStep, FindRegistrationStep, InsertMemberStep, FindRowsStep, RemoveStep
     DEF RequestStep

-----------------------------------------------------------------------------
(* The inductive invariant: steps of the course *)

\* What happens around the registrations leaves requests alone.
LEMMA CourseChange ==
    ASSUME IndInv, UNCHANGED <<req, started>>, RowsConsistent', ParticipantsConsistent',
           enrol' \in [Users -> 0 .. MaxPid], nextPid' \in 1 .. MaxPid + 1,
           groups' \subseteq groups, memberOf' \in [Users -> groups' \cup {NoGroup}],
           assignments' \subseteq assignments
    PROVE  IndInv'
  <1>1. TypeOK'
    BY DEF IndInv, TypeOK, RowsConsistent
  <1>2. RequestsConsistent'
    BY DEF IndInv, RequestsConsistent, Consistent
  <1> QED
    BY <1>1, <1>2 DEF IndInv, RowsConsistent

\* A new participant row gets an id that no row has had.
LEMMA JoinCourseStep ==
    ASSUME IndInv, NEW u \in Users, JoinCourse(u)
    PROVE  IndInv'
  <1>1. /\ enrol[u] = 0 /\ nextPid \in 1 .. MaxPid /\ nextPid' = nextPid + 1
        /\ \A v \in Users : enrol'[v] = IF v = u THEN nextPid ELSE enrol[v]
    BY ConstantsAssumption DEF JoinCourse, IndInv, TypeOK
  <1>2. /\ enrol' \in [Users -> 0 .. MaxPid] /\ nextPid' \in 1 .. MaxPid + 1
        /\ groups' = groups /\ memberOf' = memberOf /\ assignments' = assignments
        /\ UNCHANGED <<req, started, reg, regRel, nextId>>
        /\ memberOf \in [Users -> groups \cup {NoGroup}]
    BY <1>1, ConstantsAssumption DEF JoinCourse, IndInv, TypeOK, registrationVars
  <1>3. ParticipantsConsistent'
    <2>1. \A v \in Users : enrol[v] \in Nat /\ enrol[v] < nextPid
      BY ConstantsAssumption DEF IndInv, TypeOK, ParticipantsConsistent
    <2> QED
      BY <1>1, <1>2, <2>1 DEF IndInv, ParticipantsConsistent
  <1>4. RowsConsistent'
    <2>1. \A x \in regRel : x.pid # 0 /\ Current(x.pid)
      BY DEF IndInv, TypeOK, Relation, Pid, RegistrationsReferToLiveRows
    <2>2. \A x \in regRel : Current(x.pid)'
      BY <1>1, <1>2, <2>1 DEF Current
    <2> QED
      BY <1>2, <2>2 DEF IndInv, TypeOK, RowsConsistent, RowsUnique, RegistrationsReferToLiveRows
  <1> QED
    BY <1>2, <1>3, <1>4, CourseChange

\* The relations of a participant who leaves go with him.
LEMMA LeaveCourseStep ==
    ASSUME IndInv, NEW u \in Users, LeaveCourse(u)
    PROVE  IndInv'
  <1>1. \A v \in Users : /\ enrol'[v] = IF v = u THEN 0 ELSE enrol[v]
                         /\ memberOf'[v] = IF v = u THEN NoGroup ELSE memberOf[v]
    BY DEF LeaveCourse, IndInv, TypeOK
  <1>2. /\ enrol' \in [Users -> 0 .. MaxPid] /\ nextPid' \in 1 .. MaxPid + 1
        /\ nextPid' = nextPid
        /\ groups' = groups /\ assignments' = assignments
        /\ memberOf' \in [Users -> groups' \cup {NoGroup}]
        /\ UNCHANGED <<req, started, reg, nextId>>
        /\ \A x : x \in regRel' <=> x \in regRel /\ x.pid # enrol[u]
    BY ConstantsAssumption DEF LeaveCourse, IndInv, TypeOK
  <1>3. ParticipantsConsistent'
    <2>1. nextPid > 0
      BY ConstantsAssumption DEF IndInv, TypeOK
    <2> QED
      BY <1>1, <1>2, <2>1 DEF IndInv, ParticipantsConsistent
  <1>4. RowsConsistent'
    <2>1. \A x \in regRel' : Current(x.pid)'
      BY <1>1, <1>2 DEF Current, IndInv, RegistrationsReferToLiveRows
    <2> QED
      BY <1>2, <2>1 DEF IndInv, TypeOK, RowsConsistent, RowsUnique, RegistrationsReferToLiveRows
  <1> QED
    BY <1>2, <1>3, <1>4, CourseChange

\* Members move without any effect on what is registered.
LEMMA MemberStep ==
    ASSUME IndInv, NEW u \in Users, NEW g \in GroupIds, JoinGroup(u, g) \/ LeaveGroup(u)
    PROVE  IndInv'
  <1>1. /\ enrol' = enrol /\ nextPid' = nextPid /\ groups' = groups
        /\ assignments' = assignments
        /\ UNCHANGED <<req, started, reg, regRel, nextId>>
    BY DEF JoinGroup, LeaveGroup, registrationVars
  <1>2. PICK h \in groups \cup {NoGroup} :
           memberOf' = [memberOf EXCEPT ![u] = h] /\ (h # NoGroup => enrol[u] # 0)
    BY DEF JoinGroup, LeaveGroup
  <1>3. memberOf' \in [Users -> groups' \cup {NoGroup}] /\ ParticipantsConsistent'
    BY <1>1, <1>2 DEF IndInv, TypeOK, ParticipantsConsistent
  <1>4. RowsConsistent'
    BY <1>1 DEF IndInv, TypeOK, RowsConsistent, RowsUnique, RegistrationsReferToLiveRows, Current
  <1> QED
    BY <1>1, <1>3, <1>4, CourseChange DEF IndInv, TypeOK

\* A group goes with its registrations and its members leave it.
LEMMA DeleteGroupStep ==
    ASSUME IndInv, NEW g \in GroupIds, DeleteGroup(g)
    PROVE  IndInv'
  <1>1. /\ enrol' = enrol /\ nextPid' = nextPid /\ groups' = groups \ {g}
        /\ assignments' = assignments /\ UNCHANGED <<req, started>>
        /\ memberOf' = [u \in Users |-> IF memberOf[u] = g THEN NoGroup ELSE memberOf[u]]
        /\ DropRegistrations({x \in reg : x.group = g})
    BY DEF DeleteGroup
  <1>2. memberOf' \in [Users -> groups' \cup {NoGroup}] /\ ParticipantsConsistent'
    BY <1>1 DEF IndInv, TypeOK, ParticipantsConsistent
  <1>3. RowsConsistent'
    <2>1. \A x \in reg \ {y \in reg : y.group = g} :
             x.assignment \in assignments' /\ x.group \in groups'
      BY <1>1 DEF IndInv, RegistrationsReferToLiveRows
    <2> QED
      BY <1>1, <2>1, DropKeepsRows
  <1> QED
    BY <1>1, <1>2, <1>3, CourseChange DEF IndInv, TypeOK

\* So does an assignment.
LEMMA DeleteAssignmentStep ==
    ASSUME IndInv, NEW a \in Assignments, DeleteAssignment(a)
    PROVE  IndInv'
  <1>1. /\ enrol' = enrol /\ nextPid' = nextPid /\ groups' = groups /\ memberOf' = memberOf
        /\ assignments' = assignments \ {a} /\ UNCHANGED <<req, started>>
        /\ DropRegistrations({x \in reg : x.assignment = a})
    BY DEF DeleteAssignment
  <1>2. ParticipantsConsistent'
    BY <1>1 DEF IndInv, ParticipantsConsistent
  <1>3. RowsConsistent'
    <2>1. \A x \in reg \ {y \in reg : y.assignment = a} :
             x.assignment \in assignments' /\ x.group \in groups'
      BY <1>1 DEF IndInv, RegistrationsReferToLiveRows
    <2> QED
      BY <1>1, <2>1, DropKeepsRows
  <1> QED
    BY <1>1, <1>2, <1>3, CourseChange DEF IndInv, TypeOK

\* A crash loses all requests and no row.
LEMMA CrashStep ==
    ASSUME IndInv, Crash
    PROVE  IndInv'
  <1>1. TypeOK' /\ RequestsConsistent'
    BY DEF Crash, IndInv, TypeOK, RequestsConsistent, courseVars, registrationVars
  <1>2. ParticipantsConsistent' /\ RowsUnique' /\ RegistrationsReferToLiveRows'
    BY DEF Crash, IndInv, ParticipantsConsistent, RowsUnique, RegistrationsReferToLiveRows,
           Current, courseVars, registrationVars
  <1> QED
    BY <1>1, <1>2 DEF IndInv

-----------------------------------------------------------------------------
(* The invariants *)

\* There are neither requests nor registrations at first.
LEMMA InitIndInv == Init => IndInv
  <1> SUFFICES ASSUME Init
               PROVE  IndInv
    OBVIOUS
  <1>1. TypeOK
    BY ConstantsAssumption DEF Init, TypeOK
  <1>2. ParticipantsConsistent /\ RequestsConsistent /\ RowsUnique /\ RegistrationsReferToLiveRows
    BY DEF Init, ParticipantsConsistent, RequestsConsistent, RowsUnique,
           RegistrationsReferToLiveRows
  <1> QED
    BY <1>1, <1>2 DEF IndInv

\* Every step keeps the invariant.
LEMMA NextIndInv == IndInv /\ [Next]_vars => IndInv'
  <1> SUFFICES ASSUME IndInv, [Next]_vars
               PROVE  IndInv'
    OBVIOUS
  <1>1. ASSUME NEW r \in Requests, Start(r) \/ RequestStep(r)
        PROVE  IndInv'
    BY <1>1, StartStep, RequestStepStep
  <1>2. CASE CourseStep
    <2>1. CASE \E u \in Users : JoinCourse(u) \/ LeaveCourse(u) \/ LeaveGroup(u)
      <3>1. ASSUME NEW u \in Users, LeaveGroup(u)
            PROVE  memberOf[u] \in GroupIds
        BY <3>1 DEF LeaveGroup, IndInv, TypeOK
      <3> QED
        BY <2>1, <3>1, JoinCourseStep, LeaveCourseStep, MemberStep
    <2>2. CASE \E u \in Users, g \in GroupIds : JoinGroup(u, g)
      BY <2>2, MemberStep
    <2>3. CASE \E g \in GroupIds : DeleteGroup(g)
      BY <2>3, DeleteGroupStep
    <2>4. CASE \E a \in Assignments : DeleteAssignment(a)
      BY <2>4, DeleteAssignmentStep
    <2> QED
      BY <1>2, <2>1, <2>2, <2>3, <2>4 DEF CourseStep
  <1>3. CASE Crash
    BY <1>3, CrashStep
  <1>4. CASE UNCHANGED vars
    BY <1>4 DEF vars, IndInv, TypeOK, ParticipantsConsistent, RequestsConsistent, Consistent,
                RowsUnique, RegistrationsReferToLiveRows, Current
  <1> QED
    BY <1>1, <1>2, <1>3, <1>4 DEF Next

\* The inductive invariant holds in every reachable state: whatever requests race and
\* whoever leaves the course meanwhile, the rows stay consistent.
THEOREM Consistency == Spec => []IndInv
  BY InitIndInv, NextIndInv, PTL DEF Spec

\* Every variable keeps its type.
THEOREM TypeCorrectness == Spec => []TypeOK
  <1>1. IndInv => TypeOK
    BY DEF IndInv
  <1> QED
    BY <1>1, Consistency, PTL

\* No registration outlives its group or its assignment, no relation its registration or
\* its participant.
THEOREM ReferentialIntegrity == Spec => []RegistrationsReferToLiveRows
  <1>1. IndInv => RegistrationsReferToLiveRows
    BY DEF IndInv
  <1> QED
    BY <1>1, Consistency, PTL

\* A set without two different elements has at most one.
LEMMA AtMostOne ==
    ASSUME NEW S, \A x, y \in S : x = y
    PROVE  Cardinality(S) <= 1
  <1>1. CASE S = {}
    BY <1>1, FS_EmptySet
  <1>2. ASSUME NEW x \in S
        PROVE  Cardinality(S) <= 1
    <2>1. S = {x}
      OBVIOUS
    <2> QED
      BY <2>1, FS_Singleton
  <1> QED
    BY <1>1, <1>2

\* Nobody is registered for an assignment with two groups, and no group twice.
THEOREM SingleRegistration == Spec => []RegisteredOnce
  <1>1. ASSUME IndInv
        PROVE  RegisteredOnce
    <2>1. ASSUME NEW a \in Assignments, NEW u \in Users
          PROVE  Cardinality(RelationsOf(a, u)) <= 1
      <3>1. \A x, y \in RelationsOf(a, u) : x = y
        BY <1>1 DEF RelationsOf, IndInv, RowsUnique, RegistrationsReferToLiveRows
      <3> QED
        BY <3>1, AtMostOne
    <2>2. ASSUME NEW a \in Assignments, NEW g \in GroupIds
          PROVE  Cardinality(RegistrationsOf(a, g)) <= 1
      <3>1. \A x, y \in RegistrationsOf(a, g) : x = y
        BY <1>1 DEF RegistrationsOf, IndInv, RowsUnique
      <3> QED
        BY <3>1, AtMostOne
    <2> QED
      BY <2>1, <2>2 DEF RegisteredOnce
  <1> QED
    BY <1>1, Consistency, PTL

-----------------------------------------------------------------------------
(* What no step may do *)

\* A step inserts relations only for participants who have none for the assignment.
NewRelationsAreFree ==
    \A y \in regRel' \ regRel : \A x \in regRel :
       ~(x.assignment = y.assignment /\ x.pid = y.pid)

\* An insert that the unique index has let through.
LEMMA InsertIsFree ==
    ASSUME NEW a, NEW seen, Insert(a, seen), DOMAIN seen = {} \/ SaveResult(a, seen) = "ok"
    PROVE  NewRelationsAreFree
  <1>1. ASSUME NEW y \in regRel' \ regRel
        PROVE  y.assignment = a /\ ~PidTaken(a, y.pid)
    <2>1. y \in NewRelations(a, seen)
      BY <1>1 DEF Insert
    <2>2. PICK g \in DOMAIN seen : \E p \in seen[g] :
             y = [id |-> nextId,
                  registration |-> [id |-> nextId, assignment |-> a, group |-> g],
                  assignment |-> a, pid |-> p]
      BY <2>1, NewRelationsMember
    <2>3. y.assignment = a /\ y.pid \in seen[g]
      BY <2>2
    <2> QED
      BY <2>2, <2>3, SaveResultTells
  <1> QED
    BY <1>1 DEF NewRelationsAreFree, PidTaken

\* Every step of the service.
LEMMA StepsInsertFreeRelations ==
    ASSUME Next
    PROVE  NewRelationsAreFree
  <1>1. ASSUME regRel' \subseteq regRel
        PROVE  NewRelationsAreFree
    BY <1>1 DEF NewRelationsAreFree
  <1>2. ASSUME NEW r \in Requests, Start(r)
        PROVE  regRel' \subseteq regRel
    BY <1>2 DEF Start, StartAssignment, StartRegisterAll, StartUnregisterAll, StartRegisterGroup,
                StartUnregisterGroup, StartUnregisterUser, StartRegisterUser, Begin,
                registrationVars
  <1>3. ASSUME NEW r \in Requests, RequestStep(r)
        PROVE  NewRelationsAreFree
    <2>1. CASE \/ CheckFirstStart(r) \/ LoadGroups(r) \/ LoadGroup(r) \/ CheckNotRegistered(r)
               \/ FindRegistration(r) \/ FindRows(r)
      BY <1>1, <2>1 DEF CheckFirstStart, LoadGroups, LoadGroup, CheckNotRegistered,
                        FindRegistration, FindRows, Reject, GoOn, registrationVars
    <2>2. CASE SaveAll(r)
      BY <1>1, <2>2, InsertIsFree DEF SaveAll, Reject, GoOn, registrationVars
    <2>3. CASE SaveGroup(r)
      BY <1>1, <2>3, InsertIsFree DEF SaveGroup, Reject, GoOn, registrationVars
    <2>4. CASE InsertMember(r)
      <3> DEFINE q == req[r]
                 seen == [h \in {q.group} |-> {q.pid}]
      <3>1. CASE Reject(r)
        BY <1>1, <3>1 DEF Reject, GoOn, registrationVars
      <3>2. CASE SaveResult(q.assignment, seen) = "ok" /\ Insert(q.assignment, seen)
        <4> HIDE DEF q, seen
        <4> QED
          BY <3>2, InsertIsFree
      <3>3. ASSUME NEW x, RelationFits(q.assignment, x, q.pid),
                   AddRelation(q.assignment, x, q.pid)
            PROVE  NewRelationsAreFree
        BY <3>3 DEF RelationFits, AddRelation, PidTaken, NewRelationsAreFree
      <3> QED
        BY <2>4, <3>1, <3>2, <3>3 DEF InsertMember
    <2>5. CASE RemoveUser(r) \/ RemoveGroup(r) \/ RemoveAll(r)
      BY <1>1, <2>5 DEF RemoveUser, RemoveGroup, RemoveAll, DropRegistrations
    <2> QED
      BY <1>3, <2>1, <2>2, <2>3, <2>4, <2>5 DEF RequestStep
  <1>4. ASSUME CourseStep \/ Crash
        PROVE  regRel' \subseteq regRel
    BY <1>4 DEF CourseStep, Crash, JoinCourse, LeaveCourse, JoinGroup, LeaveGroup, DeleteGroup,
                DeleteAssignment, DropRegistrations, registrationVars
  <1> QED
    BY <1>1, <1>2, <1>3, <1>4 DEF Next

\* No step gives a participant another participant row.
LEMMA ParticipantRowStays ==
    ASSUME TypeOK, Next, NEW u \in Users
    PROVE  enrol'[u] = enrol[u] \/ enrol[u] = 0 \/ enrol'[u] = 0
  <1>1. ASSUME NEW r \in Requests, Start(r)
        PROVE  enrol' = enrol
    BY <1>1 DEF Start, StartAssignment, StartRegisterAll, StartUnregisterAll, StartRegisterGroup,
                StartUnregisterGroup, StartUnregisterUser, StartRegisterUser, Begin, courseVars
  <1>2. ASSUME NEW r \in Requests, RequestStep(r)
        PROVE  enrol' = enrol
    BY <1>2 DEF RequestStep, CheckFirstStart, LoadGroups, SaveAll, LoadGroup, SaveGroup,
                CheckNotRegistered, FindRegistration, InsertMember, FindRows, RemoveUser,
                RemoveGroup, RemoveAll, Reject, GoOn, courseVars
  <1>3. CASE CourseStep
    BY <1>3 DEF TypeOK, CourseStep, JoinCourse, LeaveCourse, JoinGroup, LeaveGroup, DeleteGroup,
                DeleteAssignment
  <1>4. CASE Crash
    BY <1>4 DEF Crash, courseVars
  <1> QED
    BY <1>1, <1>2, <1>3, <1>4 DEF Next

\* Nobody is moved from one registered group to another in a single step, whatever
\* other requests do to the groups and the registrations.
THEOREM NoSwitch == Spec => NoSilentSwitch
  <1>1. ASSUME IndInv, IndInv', Next, NEW a \in Assignments, NEW u \in Users,
               RegisteredGroups(a, u) # {}, RegisteredGroups(a, u)' # {}
        PROVE  RegisteredGroups(a, u)' = RegisteredGroups(a, u)
    <2>1. PICK x \in regRel : x.registration.assignment = a /\ x.pid = enrol[u]
      BY <1>1 DEF RegisteredGroups, RelationsOf
    <2>2. PICK y \in regRel' : y.registration.assignment = a /\ y.pid = enrol'[u]
      BY <1>1 DEF RegisteredGroups, RelationsOf
    <2>3. /\ \A z \in regRel : z.pid # 0 /\ z.assignment = z.registration.assignment
          /\ \A z \in regRel' : z.pid # 0 /\ z.assignment = z.registration.assignment
      BY <1>1 DEF IndInv, TypeOK, Relation, Pid, RegistrationsReferToLiveRows
    <2>4. enrol'[u] = enrol[u]
      BY <1>1, <2>1, <2>2, <2>3, ParticipantRowStays DEF IndInv
    <2>5. \A z \in regRel' :
             z.registration.assignment = a /\ z.pid = enrol[u] => z \in regRel
      BY <1>1, <2>1, <2>3, StepsInsertFreeRelations DEF NewRelationsAreFree
    <2>6. RelationsOf(a, u) = {x}
      BY <1>1, <2>1, <2>3 DEF RelationsOf, IndInv, RowsUnique
    <2>7. RelationsOf(a, u)' = {x}
      BY <1>1, <2>1, <2>2, <2>3, <2>4, <2>5 DEF RelationsOf, IndInv, RowsUnique
    <2> QED
      BY <2>6, <2>7 DEF RegisteredGroups
  <1>2. ASSUME IndInv, IndInv', [Next]_vars
        PROVE  [\A a \in Assignments, u \in Users :
                   RegisteredGroups(a, u) # {} /\ RegisteredGroups(a, u)' # {}
                      => RegisteredGroups(a, u)' = RegisteredGroups(a, u)]_vars
    BY <1>1, <1>2
  <1> QED
    BY <1>2, Consistency, PTL DEF Spec, NoSilentSwitch

\* After the step, the participant is registered for the assignment with the group.
RegisteredWith(a, g, pid) ==
    \E x \in regRel' : x.pid = pid /\ x.registration \in reg' /\
                       x.registration.assignment = a /\ x.registration.group = g

\* An insert registers everybody it was asked to.
LEMMA InsertRegisters ==
    ASSUME NEW a, NEW seen, Insert(a, seen), NEW g \in DOMAIN seen, NEW pid \in seen[g]
    PROVE  RegisteredWith(a, g, pid)
  <1> DEFINE row == [id |-> nextId, assignment |-> a, group |-> g]
             new == [id |-> nextId, registration |-> row, assignment |-> a, pid |-> pid]
  <1>1. row \in reg'
    BY DEF Insert, NewRegistrations
  <1>2. new \in regRel'
    BY NewRelationsMember DEF Insert
  <1>3. new.pid = pid /\ new.registration = row /\ row.assignment = a /\ row.group = g
    OBVIOUS
  <1> HIDE DEF row, new
  <1> QED
    BY <1>1, <1>2, <1>3 DEF RegisteredWith

\* What the events of the handlers promise about the request r that ends.
EventIsTrue(r) ==
    LET q == req[r]
        AllRegistered == \A g \in DOMAIN q.seen : \A pid \in q.seen[g] :
                            RegisteredWith(q.assignment, g, pid)
        Lost == ParentGone(q.assignment, q.seen) \/
                \E pid \in UNION Range(q.seen) : ~Current(pid)
    IN /\ event'.kind = "RegistrationsCreated" => AllRegistered
       /\ event'.kind = "UserRegistered" => RegisteredWith(q.assignment, q.group, q.pid)
       /\ event'.kind = "GroupRegistered" => AllRegistered \/ Lost

\* A step that publishes nothing promises nothing.
LEMMA NoEventIsTrue ==
    ASSUME NEW r, event' = NoEvent
    PROVE  EventIsTrue(r)
  BY DEF EventIsTrue, NoEvent

\* The kind of event that a handler publishes.
LEMMA PublishedKind ==
    ASSUME NEW r, NEW kind, Publish(kind, r)
    PROVE  event'.kind = kind
  BY DEF Publish

\* RegistrationsCreated is published by the transaction that creates them.
LEMMA SaveAllIsTrue ==
    ASSUME NEW r \in Requests, SaveAll(r)
    PROVE  EventIsTrue(r)
  <1>1. CASE Reject(r)
    BY <1>1, NoEventIsTrue DEF Reject, GoOn
  <1>2. CASE Insert(req[r].assignment, req[r].seen) /\ Publish("RegistrationsCreated", r)
    <2>1. event'.kind = "RegistrationsCreated"
      BY <1>2, PublishedKind
    <2>2. \A g \in DOMAIN req[r].seen : \A pid \in req[r].seen[g] :
             RegisteredWith(req[r].assignment, g, pid)
      BY <1>2, InsertRegisters
    <2> QED
      BY <2>1, <2>2 DEF EventIsTrue
  <1> QED
    BY <1>1, <1>2 DEF SaveAll

\* GroupRegistered is published if an error was swallowed, too: then a row was missing.
LEMMA SaveGroupIsTrue ==
    ASSUME NEW r \in Requests, SaveGroup(r)
    PROVE  EventIsTrue(r)
  <1> DEFINE a == req[r].assignment
             seen == req[r].seen
  <1>1. CASE Reject(r)
    BY <1>1, NoEventIsTrue DEF Reject, GoOn
  <1>2. CASE /\ SaveResult(a, seen) # "unique" /\ Publish("GroupRegistered", r)
             /\ SaveResult(a, seen) = "ok" => Insert(a, seen)
    <2>1. event'.kind = "GroupRegistered"
      BY <1>2, PublishedKind
    <2>2. CASE SaveResult(a, seen) = "ok"
      <3>1. \A g \in DOMAIN seen : \A pid \in seen[g] : RegisteredWith(a, g, pid)
        BY <1>2, <2>2, InsertRegisters
      <3> QED
        BY <2>1, <3>1 DEF EventIsTrue
    <2>3. CASE SaveResult(a, seen) = "foreign"
      <3>1. ParentGone(a, seen) \/ \E pid \in UNION Range(seen) : ~Current(pid)
        BY <2>3, SaveResultTells DEF Range
      <3> QED
        BY <2>1, <3>1 DEF EventIsTrue
    <2> QED
      BY <1>2, <2>2, <2>3, SaveResultTells
  <1> QED
    BY <1>1, <1>2 DEF SaveGroup

\* UserRegistered is published with the relation that was inserted.
LEMMA InsertMemberIsTrue ==
    ASSUME IndInv, NEW r \in Requests, InsertMember(r)
    PROVE  EventIsTrue(r)
  <1> DEFINE q == req[r]
             seen == [h \in {q.group} |-> {q.pid}]
  <1>1. CASE Reject(r)
    BY <1>1, NoEventIsTrue DEF Reject, GoOn
  <1>2. CASE Publish("UserRegistered", r) /\ RegisteredWith(q.assignment, q.group, q.pid)
    <2>1. event'.kind = "UserRegistered"
      BY <1>2, PublishedKind
    <2> QED
      BY <1>2, <2>1 DEF EventIsTrue
  <1>3. ASSUME Insert(q.assignment, seen)
        PROVE  RegisteredWith(q.assignment, q.group, q.pid)
    <2>1. q.group \in DOMAIN seen /\ q.pid \in seen[q.group]
      OBVIOUS
    <2> HIDE DEF q, seen
    <2> QED
      BY <1>3, <2>1, InsertRegisters
  <1>4. ASSUME NEW x \in q.found, RelationFits(q.assignment, x, q.pid),
               AddRelation(q.assignment, x, q.pid)
        PROVE  RegisteredWith(q.assignment, q.group, q.pid)
    <2> DEFINE new == [id |-> nextId, registration |-> x, assignment |-> q.assignment,
                       pid |-> q.pid]
    <2>1. x.assignment = q.assignment /\ x.group = q.group
      BY <1>4, BusySlot DEF InsertMember, Consistent
    <2>2. new \in regRel' /\ x \in reg'
      BY <1>4 DEF AddRelation, RelationFits
    <2>3. new.pid = q.pid /\ new.registration = x
      OBVIOUS
    <2> HIDE DEF new
    <2> QED
      BY <2>1, <2>2, <2>3 DEF RegisteredWith
  <1> QED
    BY <1>1, <1>2, <1>3, <1>4 DEF InsertMember

\* RegistrationsCreated and UserRegistered tell the truth about everybody they include;
\* GroupRegistered does unless a row it needs was deleted since it was read.
THEOREM EventsAreTrue == Spec => RegisteredEventsAreTrue
  <1>1. ASSUME IndInv, Next, NEW r \in Requests, req[r] # Idle, req'[r] = Idle
        PROVE  EventIsTrue(r)
    <2>1. CASE event' = NoEvent
      BY <2>1, NoEventIsTrue
    <2>2. ASSUME NEW s \in Requests, Finish(s)
          PROVE  s = r
      BY <1>1, <2>2 DEF Finish, IndInv, TypeOK
    <2>3. ASSUME NEW s \in Requests, Start(s)
          PROVE  event' = NoEvent
      BY <2>3 DEF Start, StartAssignment, StartRegisterAll, StartUnregisterAll,
                  StartRegisterGroup, StartUnregisterGroup, StartUnregisterUser,
                  StartRegisterUser, Begin
    <2>4. ASSUME NEW s \in Requests, RequestStep(s)
          PROVE  EventIsTrue(r)
      <3>1. CASE \/ CheckFirstStart(s) \/ LoadGroups(s) \/ LoadGroup(s) \/ CheckNotRegistered(s)
                 \/ FindRegistration(s) \/ FindRows(s)
        BY <2>1, <3>1 DEF CheckFirstStart, LoadGroups, LoadGroup, CheckNotRegistered,
                          FindRegistration, FindRows, Reject, GoOn
      <3>2. CASE SaveAll(s)
        <4>1. event' = NoEvent \/ Finish(s)
          BY <3>2 DEF SaveAll, Reject, GoOn
        <4> QED
          BY <2>1, <2>2, <3>2, <4>1, SaveAllIsTrue
      <3>3. CASE SaveGroup(s)
        <4>1. event' = NoEvent \/ Finish(s)
          BY <3>3 DEF SaveGroup, Reject, GoOn
        <4> QED
          BY <2>1, <2>2, <3>3, <4>1, SaveGroupIsTrue
      <3>4. CASE InsertMember(s)
        <4>1. event' = NoEvent \/ Finish(s)
          BY <3>4 DEF InsertMember, Reject, GoOn
        <4> QED
          BY <1>1, <2>1, <2>2, <3>4, <4>1, InsertMemberIsTrue
      <3>5. CASE RemoveUser(s) \/ RemoveGroup(s) \/ RemoveAll(s)
        <4>1. event'.kind \in {"UserUnregistered", "GroupUnregistered", "RegistrationsRemoved"}
          BY <3>5, PublishedKind DEF RemoveUser, RemoveGroup, RemoveAll
        <4> QED
          BY <4>1 DEF EventIsTrue
      <3> QED
        BY <2>4, <3>1, <3>2, <3>3, <3>4, <3>5 DEF RequestStep
    <2>5. ASSUME CourseStep \/ Crash
          PROVE  event' = NoEvent
      BY <2>5 DEF CourseStep, Crash, JoinCourse, LeaveCourse, JoinGroup, LeaveGroup,
                  DeleteGroup, DeleteAssignment
    <2> QED
      BY <1>1, <2>1, <2>3, <2>4, <2>5 DEF Next
  <1>2. IndInv /\ [Next]_vars =>
           [\A r \in Requests : req[r] # Idle /\ req'[r] = Idle => EventIsTrue(r)]_vars
    BY <1>1
  <1>3. [][\A r \in Requests : req[r] # Idle /\ req'[r] = Idle => EventIsTrue(r)]_vars
           => RegisteredEventsAreTrue
    BY DEF RegisteredEventsAreTrue, EventIsTrue, RegisteredWith
  <1> QED
    BY <1>2, <1>3, Consistency, PTL DEF Spec
=============================================================================
