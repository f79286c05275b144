------------------------- MODULE CourseGroupsProofs -------------------------
(***************************************************************************)
(* Proofs about CourseGroups, for every value of its constants.            *)
(***************************************************************************)
EXTENDS CourseGroups, FiniteSetTheorems, TLAPS

-----------------------------------------------------------------------------
(* Lemmas about requests *)

\* A request that is accepted has the type of requests.
LEMMA NewRequestType ==
    ASSUME NEW op \in AllOps,
           NEW pc \in {"selected", "group", "choose", "create", "lookup", "insert",
                       "remove", "drop", "load", "save"},
           NEW a \in Users, NEW u \in Users, NEW g \in GroupIds \cup {NoGroup}
    PROVE  NewRequest(op, pc, a, u, g) \in Request
  BY DEF NewRequest, Request, AllOps, Column

\* A slot that is at some step of a handler holds a request.
LEMMA BusySlot ==
    ASSUME TypeOK, NEW r \in Requests, NEW pc, At(r, pc), pc # "idle"
    PROVE  req[r] \in Request
  BY DEF TypeOK, At, Idle

\* Accepting a request changes the slot only.
LEMMA BeginStep ==
    ASSUME IndInv, NEW r \in Requests, NEW request \in Request,
           Begin(r, request),
           request.pc \notin {"choose", "create"} => request.group \in created,
           request.pc \notin {"insert", "save"}
    PROVE  IndInv'
  <1> USE DEF Begin, courseVars, groupVars
  <1>1. TypeOK'
    BY DEF IndInv, TypeOK
  <1>2. RequestsConsistent'
    BY DEF IndInv, TypeOK, RequestsConsistent
  <1>3. ClosersConsistent'
    BY DEF IndInv, ClosersConsistent
  <1>4. RelationsReferToLiveRows' /\ RelationsUnique' /\ ParticipantsUnique'
    BY DEF IndInv, RelationsReferToLiveRows, RelationsUnique, ParticipantsUnique
  <1> QED
    BY <1>1, <1>2, <1>3, <1>4 DEF IndInv

\* So does a handler that ends.
LEMMA FinishStep ==
    ASSUME IndInv, NEW r \in Requests, Finish(r), DataUnchanged
    PROVE  IndInv'
  <1> USE DEF Finish, DataUnchanged, courseVars, groupVars
  <1>1. TypeOK'
    BY DEF IndInv, TypeOK
  <1>2. RequestsConsistent'
    BY DEF IndInv, TypeOK, RequestsConsistent, Idle
  <1>3. ClosersConsistent'
    BY DEF IndInv, ClosersConsistent
  <1>4. RelationsReferToLiveRows' /\ RelationsUnique' /\ ParticipantsUnique'
    BY DEF IndInv, RelationsReferToLiveRows, RelationsUnique, ParticipantsUnique
  <1> QED
    BY <1>1, <1>2, <1>3, <1>4 DEF IndInv

\* And a handler that only goes on to its next step, with what it has read.
LEMMA AdvanceStep ==
    ASSUME IndInv, NEW r \in Requests, NEW request \in Request,
           req' = [req EXCEPT ![r] = request], DataUnchanged,
           request.pc \notin {"choose", "create"} => request.group \in created,
           request.pc = "insert" => request.pid # 0,
           request.pc = "save" =>
               request.closed \in {"yes", "no"} /\ request.locked \in {"yes", "no"}
    PROVE  IndInv'
  <1> USE DEF DataUnchanged, courseVars, groupVars
  <1>1. TypeOK'
    BY DEF IndInv, TypeOK
  <1>2. RequestsConsistent'
    BY DEF IndInv, TypeOK, RequestsConsistent
  <1>3. ClosersConsistent'
    BY DEF IndInv, ClosersConsistent
  <1>4. RelationsReferToLiveRows' /\ RelationsUnique' /\ ParticipantsUnique'
    BY DEF IndInv, RelationsReferToLiveRows, RelationsUnique, ParticipantsUnique
  <1> QED
    BY <1>1, <1>2, <1>3, <1>4 DEF IndInv

-----------------------------------------------------------------------------
(* The inductive invariant: requests that begin *)

\* A request that begins has passed its guards and fills a free slot.
LEMMA StartRequestStep ==
    ASSUME IndInv, NEW r \in Requests, StartRequest(r)
    PROVE  IndInv'
  <1> USE DEF AllOps
  <1>0. created \subseteq GroupIds
    BY DEF IndInv, TypeOK
  <1>1. PICK a \in Users :
           \/ \E u \in Users, g \in created : StartJoin(r, a, u, g) \/ StartLeave(r, a, u, g)
           \/ StartRandom(r, a)
           \/ StartCreate(r, a)
           \/ \E g \in created : StartDelete(r, a, g) \/ StartUpdate(r, a, g)
    BY DEF StartRequest
  <1>2. ASSUME NEW u \in Users, NEW g \in created, StartJoin(r, a, u, g)
        PROVE  IndInv'
    <2> DEFINE request == NewRequest("join", "selected", a, u, g)
    <2>1. request \in Request
      BY <1>0, NewRequestType
    <2>2. request.pc = "selected" /\ request.group = g
      BY DEF NewRequest
    <2>3. Begin(r, request)
      BY <1>2 DEF StartJoin
    <2> QED
      BY <2>1, <2>2, <2>3, BeginStep
  <1>3. ASSUME NEW u \in Users, NEW g \in created, StartLeave(r, a, u, g)
        PROVE  IndInv'
    <2> DEFINE request == NewRequest("leave", "remove", a, u, g)
    <2>1. request \in Request
      BY <1>0, NewRequestType
    <2>2. request.pc = "remove" /\ request.group = g
      BY DEF NewRequest
    <2>3. Begin(r, request)
      BY <1>3 DEF StartLeave
    <2> QED
      BY <2>1, <2>2, <2>3, BeginStep
  <1>4. CASE StartRandom(r, a)
    <2> DEFINE request == [NewRequest("random", "choose", a, a, NoGroup)
                             EXCEPT !.free = HasNoGroup(a)]
    <2>1. request \in Request /\ request.pc = "choose"
      BY DEF NewRequest, Request, Column, HasNoGroup
    <2>2. Begin(r, request)
      BY <1>4 DEF StartRandom
    <2> QED
      BY <2>1, <2>2, BeginStep
  <1>5. CASE StartCreate(r, a)
    <2> DEFINE request == NewRequest("create", "create", a, a, NoGroup)
    <2>1. request \in Request
      BY NewRequestType
    <2>2. request.pc = "create"
      BY DEF NewRequest
    <2>3. Begin(r, request)
      BY <1>5 DEF StartCreate
    <2> QED
      BY <2>1, <2>2, <2>3, BeginStep
  <1>6. ASSUME NEW g \in created, StartDelete(r, a, g)
        PROVE  IndInv'
    <2> DEFINE request == NewRequest("delete", "drop", a, a, g)
    <2>1. request \in Request
      BY <1>0, NewRequestType
    <2>2. request.pc = "drop" /\ request.group = g
      BY DEF NewRequest
    <2>3. Begin(r, request)
      BY <1>6 DEF StartDelete
    <2> QED
      BY <2>1, <2>2, <2>3, BeginStep
  <1>7. ASSUME NEW g \in created, StartUpdate(r, a, g)
        PROVE  IndInv'
    <2>1. PICK isClosed \in Column, hasPassword \in Column :
             Begin(r, [NewRequest("update", "load", a, a, g)
                         EXCEPT !.closed = isClosed, !.locked = hasPassword])
      BY <1>7 DEF StartUpdate
    <2> DEFINE request == [NewRequest("update", "load", a, a, g)
                             EXCEPT !.closed = isClosed, !.locked = hasPassword]
    <2>2. request \in Request /\ request.pc = "load" /\ request.group = g
      BY <1>0 DEF NewRequest, Request
    <2> QED
      BY <2>1, <2>2, BeginStep
  <1> QED
    BY <1>1, <1>2, <1>3, <1>4, <1>5, <1>6, <1>7

-----------------------------------------------------------------------------
(* The inductive invariant: steps of requests *)

\* Going on to a step that needs nothing but the group the request already has.
LEMMA GoToStep ==
    ASSUME IndInv, NEW r \in Requests, NEW pc \in {"group", "create", "lookup"},
           req[r] \in Request, GoTo(r, pc), DataUnchanged,
           pc # "create" => req[r].group \in created
    PROVE  IndInv'
  <1> DEFINE request == [req[r] EXCEPT !.pc = pc]
  <1>1. request \in Request
    BY DEF Request
  <1>2. request.pc = pc /\ request.group = req[r].group
    BY DEF Request
  <1>3. req' = [req EXCEPT ![r] = request]
    BY DEF GoTo
  <1> QED
    BY <1>1, <1>2, <1>3, AdvanceStep

\* The two guards of addUserToGroup let the request go on or end it.
LEMMA JoinStep ==
    ASSUME IndInv, NEW r \in Requests,
           JoinSelectParticipant(r) \/ JoinCheckGroup(r)
    PROVE  IndInv'
  <1>1. req[r] \in Request /\ req[r].group \in created
    BY BusySlot DEF JoinSelectParticipant, JoinCheckGroup, At, IndInv, RequestsConsistent
  <1>2. DataUnchanged /\ (Finish(r) \/ GoTo(r, "group") \/ GoTo(r, "lookup"))
    BY DEF JoinSelectParticipant, JoinCheckGroup
  <1> QED
    BY <1>1, <1>2, FinishStep, GoToStep

\* A participant id that was found is not 0.
LEMMA AddLookupStep ==
    ASSUME IndInv, NEW r \in Requests, AddLookup(r)
    PROVE  IndInv'
  <1>1. req[r] \in Request /\ req[r].group \in created
    BY BusySlot DEF AddLookup, At, IndInv, RequestsConsistent
  <1>2. CASE ~IsParticipant(req[r].user)
    BY <1>2, FinishStep DEF AddLookup
  <1>3. CASE IsParticipant(req[r].user)
    <2> DEFINE request == [req[r] EXCEPT !.pc = "insert", !.pid = enrol[req[r].user]]
    <2>1. enrol[req[r].user] \in Nat \ {0}
      BY <1>1, <1>3 DEF IndInv, TypeOK, Request, IsParticipant
    <2>2. request \in Request
      BY <1>1, <2>1 DEF Request
    <2>3. request.pc = "insert" /\ request.pid # 0 /\ request.group = req[r].group
      BY <1>1, <2>1 DEF Request
    <2>4. req' = [req EXCEPT ![r] = request] /\ DataUnchanged
      BY <1>3 DEF AddLookup
    <2> QED
      BY <1>1, <2>2, <2>3, <2>4, AdvanceStep
  <1> QED
    BY <1>2, <1>3

\* The unique indexes and foreign keys decide which row is inserted.
LEMMA AddInsertStep ==
    ASSUME IndInv, NEW r \in Requests, AddInsert(r)
    PROVE  IndInv'
  <1> DEFINE u == req[r].user
             g == req[r].group
             row == [pid |-> req[r].pid, user |-> u, group |-> g]
  <1>1. /\ req[r] \in Request
        /\ g \in created /\ g \in GroupIds
        /\ req[r].pid # 0
    BY BusySlot DEF AddInsert, At, IndInv, RequestsConsistent, TypeOK
  <1>2. CASE Reject(r)
    BY <1>2, FinishStep DEF Reject
  <1>3. CASE /\ ~UniqueViolation(r)
             /\ rel' = IF ReferencesExist(r) THEN rel \cup {row} ELSE rel
             /\ Publish("joined", u, g)
             /\ Finish(r)
             /\ UNCHANGED <<courseVars, groupVars, closers, started>>
    <2> USE <1>3 DEF courseVars, groupVars
    <2>1. row \in Row /\ [kind |-> "joined", user |-> u, group |-> g] \in Event
      BY <1>1 DEF Row, Event, Request
    <2>2. TypeOK'
      BY <2>1 DEF IndInv, TypeOK, Finish, Publish
    <2>3. RequestsConsistent'
      BY DEF IndInv, RequestsConsistent, TypeOK, Finish, Idle
    <2>4. ClosersConsistent'
      BY DEF IndInv, ClosersConsistent
    <2>5. RelationsReferToLiveRows'
      BY DEF IndInv, RelationsReferToLiveRows, ReferencesExist
    <2>6. RelationsUnique'
      BY <1>1 DEF IndInv, RelationsUnique, UniqueViolation
    <2>7. ParticipantsUnique'
      BY DEF IndInv, ParticipantsUnique
    <2> QED
      BY <2>2, <2>3, <2>4, <2>5, <2>6, <2>7 DEF IndInv
  <1> QED
    BY <1>2, <1>3 DEF AddInsert

\* The group that was chosen is a row of the table.
LEMMA RandomChooseStep ==
    ASSUME IndInv, NEW r \in Requests, RandomChoose(r)
    PROVE  IndInv'
  <1>1. req[r] \in Request /\ DataUnchanged
    BY BusySlot DEF RandomChoose, At, IndInv
  <1>2. ASSUME NEW g \in Joinable, req' = [req EXCEPT ![r].pc = "lookup", ![r].group = g]
        PROVE  IndInv'
    <2> DEFINE request == [req[r] EXCEPT !.pc = "lookup", !.group = g]
    <2>1. g \in created /\ g \in GroupIds
      BY DEF Joinable, TooSmall, LargeEnough, OpenGroups, IndInv, TypeOK
    <2>2. request \in Request /\ request.pc = "lookup" /\ request.group = g
      BY <1>1, <2>1 DEF Request
    <2>3. req' = [req EXCEPT ![r] = request]
      BY <1>2
    <2> QED
      BY <1>1, <2>1, <2>2, <2>3, AdvanceStep
  <1>3. CASE GoTo(r, "create")
    BY <1>1, <1>3, GoToStep
  <1>4. CASE Finish(r)
    BY <1>1, <1>4, FinishStep
  <1> QED
    BY <1>2, <1>3, <1>4 DEF RandomChoose

\* A new group has an id that was never handed out.
LEMMA CreateInsertStep ==
    ASSUME IndInv, NEW r \in Requests, CreateInsert(r)
    PROVE  IndInv'
  <1>1. req[r] \in Request
    BY BusySlot DEF CreateInsert, At, IndInv
  <1>2. PICK g \in GroupIds \ created, isClosed \in BOOLEAN, hasPassword \in BOOLEAN :
          /\ groups' = groups \cup {g}
          /\ created' = created \cup {g}
          /\ closed' = IF isClosed THEN closed \cup {g} ELSE closed
          /\ locked' = IF hasPassword THEN locked \cup {g} ELSE locked
          /\ IF IsStudent(req[r].actor)
             THEN req' = [req EXCEPT ![r].pc = "lookup", ![r].group = g]
             ELSE Finish(r)
    BY DEF CreateInsert
  <1>3. UNCHANGED <<enrol, nextPid, courseClosed, rel, closers, events, started>>
    BY DEF CreateInsert, courseVars
  <1>4. req' = [req EXCEPT ![r] = [req[r] EXCEPT !.pc = "lookup", !.group = g]]
          \/ req' = [req EXCEPT ![r] = Idle]
    BY <1>2 DEF Finish
  <1>5. [req[r] EXCEPT !.pc = "lookup", !.group = g] \in Request
    BY <1>1 DEF Request
  <1>6. TypeOK'
    BY <1>2, <1>3, <1>4, <1>5 DEF IndInv, TypeOK
  <1>7. RequestsConsistent'
    <2> DEFINE next == [req[r] EXCEPT !.pc = "lookup", !.group = g]
    <2>1. next.pc = "lookup" /\ next.group = g /\ Idle.pc = "idle"
      BY <1>1 DEF Request, Idle
    <2>2. \A q \in Requests : req'[q] = IF q = r THEN req'[r] ELSE req[q]
      BY <1>4 DEF IndInv, TypeOK
    <2>3. req'[r] = next \/ req'[r] = Idle
      BY <1>4 DEF IndInv, TypeOK
    <2>4. g \in created' /\ created \subseteq created'
      BY <1>2
    <2> HIDE DEF next
    <2> QED
      BY <2>1, <2>2, <2>3, <2>4 DEF IndInv, RequestsConsistent
  <1>8. ClosersConsistent'
    BY <1>2, <1>3 DEF IndInv, ClosersConsistent
  <1>9. RelationsReferToLiveRows' /\ RelationsUnique' /\ ParticipantsUnique'
    BY <1>2, <1>3 DEF IndInv, RelationsReferToLiveRows, RelationsUnique, ParticipantsUnique
  <1> QED
    BY <1>6, <1>7, <1>8, <1>9 DEF IndInv

\* The relation goes; the handler that is called knows the group.
LEMMA LeaveRemoveStep ==
    ASSUME IndInv, NEW r \in Requests, LeaveRemove(r)
    PROVE  IndInv'
  <1> DEFINE u == req[r].user
             g == req[r].group
             rows == {x \in rel : x.user = u /\ x.group = g}
             closer == [event |-> Len(events) + 1, group |-> g, pc |-> "check",
                        locked |-> "keep"]
  <1>1. /\ req[r] \in Request
        /\ g \in created /\ g \in GroupIds
    BY BusySlot DEF LeaveRemove, At, IndInv, RequestsConsistent, TypeOK
  <1>2. CASE Reject(r)
    BY <1>2, FinishStep DEF Reject
  <1>3. CASE /\ rel' = rel \ rows
             /\ Publish("left", u, g)
             /\ closers' = closers \cup {closer}
             /\ Finish(r)
             /\ UNCHANGED <<courseVars, groupVars, started>>
    <2> USE <1>3 DEF courseVars, groupVars
    <2>1. closer \in Closer /\ [kind |-> "left", user |-> u, group |-> g] \in Event
      BY <1>1 DEF Closer, Column, Event, Request, IndInv, TypeOK
    <2>2. TypeOK'
      BY <2>1 DEF IndInv, TypeOK, Finish, Publish
    <2>3. RequestsConsistent'
      BY DEF IndInv, RequestsConsistent, TypeOK, Finish, Idle
    <2>4. ClosersConsistent'
      BY <1>1 DEF IndInv, ClosersConsistent
    <2>5. RelationsReferToLiveRows' /\ RelationsUnique' /\ ParticipantsUnique'
      BY DEF IndInv, RelationsReferToLiveRows, RelationsUnique, ParticipantsUnique
    <2> QED
      BY <2>2, <2>3, <2>4, <2>5 DEF IndInv
  <1> QED
    BY <1>2, <1>3 DEF LeaveRemove

\* The relations go with the group they refer to.
LEMMA DeleteDropStep ==
    ASSUME IndInv, NEW r \in Requests, DeleteDrop(r)
    PROVE  IndInv'
  <1> USE DEF DeleteDrop, courseVars
  <1>1. TypeOK'
    BY DEF IndInv, TypeOK, Finish
  <1>2. RequestsConsistent'
    BY DEF IndInv, RequestsConsistent, TypeOK, Finish, Idle
  <1>3. ClosersConsistent'
    BY DEF IndInv, ClosersConsistent
  <1>4. RelationsReferToLiveRows' /\ RelationsUnique' /\ ParticipantsUnique'
    BY DEF IndInv, RelationsReferToLiveRows, RelationsUnique, ParticipantsUnique
  <1> QED
    BY <1>1, <1>2, <1>3, <1>4 DEF IndInv

\* What saving a group does: the group is back if it was gone.
LEMMA SaveGroupLemma ==
    ASSUME IndInv, NEW g \in created,
           NEW isClosed \in {"yes", "no"}, NEW hasPassword \in {"yes", "no"},
           SaveGroup(g, isClosed, hasPassword), created' = created
    PROVE  /\ groups \subseteq groups' /\ groups' \subseteq created'
           /\ created' \subseteq GroupIds
           /\ closed' \subseteq groups' /\ locked' \subseteq groups'
  BY DEF SaveGroup, Apply, IndInv, TypeOK

\* After the load every column of the entity has a value.
LEMMA UpdateLoadStep ==
    ASSUME IndInv, NEW r \in Requests, UpdateLoad(r)
    PROVE  IndInv'
  <1>1. req[r] \in Request /\ req[r].group \in created
    BY BusySlot DEF UpdateLoad, At, IndInv, RequestsConsistent
  <1>2. CASE req[r].group \notin groups
    BY <1>2, FinishStep DEF UpdateLoad
  <1>3. CASE req[r].group \in groups
    <2> DEFINE g == req[r].group
               filled(set, column) == IF column = "keep" THEN Value(set, g) ELSE column
               request == [req[r] EXCEPT !.pc = "save",
                             !.closed = filled(closed, req[r].closed),
                             !.locked = filled(locked, req[r].locked)]
    <2>1. /\ filled(closed, req[r].closed) \in {"yes", "no"}
          /\ filled(locked, req[r].locked) \in {"yes", "no"}
      BY <1>1 DEF Request, Column, Value
    <2>2. request \in Request
      BY <1>1, <2>1 DEF Request, Column
    <2>3. /\ request.pc = "save" /\ request.group = g
          /\ request.closed \in {"yes", "no"} /\ request.locked \in {"yes", "no"}
      BY <1>1, <2>1 DEF Request
    <2>4. req' = [req EXCEPT ![r] = request] /\ DataUnchanged
      BY <1>3 DEF UpdateLoad
    <2> HIDE DEF request
    <2> QED
      BY <1>1, <2>2, <2>3, <2>4, AdvanceStep
  <1> QED
    BY <1>2, <1>3

\* The save may insert the row again, never one without an id handed out.
LEMMA UpdateSaveStep ==
    ASSUME IndInv, NEW r \in Requests, UpdateSave(r)
    PROVE  IndInv'
  <1>1. /\ req[r].group \in created
        /\ req[r].closed \in {"yes", "no"} /\ req[r].locked \in {"yes", "no"}
    BY DEF UpdateSave, At, IndInv, RequestsConsistent
  <1>2. /\ UNCHANGED <<enrol, nextPid, courseClosed, created, rel, closers, events, started>>
        /\ Finish(r)
    BY DEF UpdateSave, courseVars
  <1>3. /\ groups \subseteq groups' /\ groups' \subseteq created'
        /\ created' \subseteq GroupIds
        /\ closed' \subseteq groups' /\ locked' \subseteq groups'
    BY <1>1, <1>2, SaveGroupLemma DEF UpdateSave
  <1>4. TypeOK'
    BY <1>2, <1>3 DEF IndInv, TypeOK, Finish
  <1>5. RequestsConsistent'
    BY <1>2 DEF IndInv, RequestsConsistent, TypeOK, Finish, Idle
  <1>6. ClosersConsistent'
    BY <1>2 DEF IndInv, ClosersConsistent
  <1>7. RelationsReferToLiveRows' /\ RelationsUnique' /\ ParticipantsUnique'
    BY <1>2, <1>3 DEF IndInv, RelationsReferToLiveRows, RelationsUnique, ParticipantsUnique
  <1> QED
    BY <1>4, <1>5, <1>6, <1>7 DEF IndInv

\* All steps of a request together.
LEMMA RequestStepStep ==
    ASSUME IndInv, NEW r \in Requests, RequestStep(r)
    PROVE  IndInv'
  <1>1. CASE CreateNameTaken(r) \/ UpdateNameTaken(r)
    BY <1>1, FinishStep DEF CreateNameTaken, UpdateNameTaken, Reject
  <1> QED
    BY <1>1, JoinStep, AddLookupStep, AddInsertStep, RandomChooseStep, CreateInsertStep,
       LeaveRemoveStep, DeleteDropStep, UpdateLoadStep, UpdateSaveStep
    DEF RequestStep

-----------------------------------------------------------------------------
(* The inductive invariant: the handler of empty groups, the course *)

\* The handler loads and saves as an update does.
LEMMA CloserStepStep ==
    ASSUME IndInv, CloserStep
    PROVE  IndInv'
  <1>1. PICK c \in closers : CloserCheck(c) \/ CloserLoad(c) \/ CloserSave(c)
    BY DEF CloserStep
  <1>2. c \in Closer /\ c.group \in created
    BY DEF IndInv, TypeOK, ClosersConsistent
  <1>3. CASE CloserCheck(c) \/ CloserLoad(c)
    <2>1. UNCHANGED <<enrol, nextPid, courseClosed, groups, created, closed, locked,
                      rel, req, events, started>>
      BY <1>3 DEF CloserCheck, CloserLoad, courseVars, groupVars
    <2>2. \E d \in Closer :
             /\ closers' \subseteq closers \cup {d}
             /\ d.group = c.group
             /\ d.pc = "save" => d.locked \in {"yes", "no"}
      <3>1. CASE CloserCheck(c)
        <4>1. [c EXCEPT !.pc = "load"] \in Closer
          BY <1>2 DEF Closer
        <4> WITNESS [c EXCEPT !.pc = "load"] \in Closer
        <4> QED
          BY <1>2, <3>1 DEF CloserCheck, Closer
      <3>2. CASE CloserLoad(c)
        <4>1. [c EXCEPT !.pc = "save", !.locked = Value(locked, c.group)] \in Closer
          BY <1>2 DEF Closer, Column, Value
        <4> WITNESS [c EXCEPT !.pc = "save", !.locked = Value(locked, c.group)] \in Closer
        <4> QED
          BY <1>2, <3>2 DEF CloserLoad, Closer, Value
      <3> QED
        BY <1>3, <3>1, <3>2
    <2>3. TypeOK'
      BY <2>1, <2>2 DEF IndInv, TypeOK
    <2>4. ClosersConsistent'
      BY <1>2, <2>1, <2>2 DEF IndInv, ClosersConsistent
    <2>5. /\ RequestsConsistent' /\ RelationsReferToLiveRows'
          /\ RelationsUnique' /\ ParticipantsUnique'
      BY <2>1 DEF IndInv, RequestsConsistent, RelationsReferToLiveRows,
                       RelationsUnique, ParticipantsUnique
    <2> QED
      BY <2>3, <2>4, <2>5 DEF IndInv
  <1>4. CASE CloserSave(c)
    <2>1. /\ UNCHANGED <<enrol, nextPid, courseClosed, created, rel, req, events, started>>
          /\ closers' = closers \ {c}
      BY <1>4 DEF CloserSave, courseVars
    <2>2. /\ groups \subseteq groups' /\ groups' \subseteq created'
          /\ created' \subseteq GroupIds
          /\ closed' \subseteq groups' /\ locked' \subseteq groups'
      <3>1. c.locked \in {"yes", "no"}
        BY <1>4 DEF CloserSave, IndInv, ClosersConsistent
      <3> QED
        BY <1>2, <1>4, <2>1, <3>1, SaveGroupLemma DEF CloserSave
    <2>3. TypeOK'
      BY <2>1, <2>2 DEF IndInv, TypeOK
    <2>4. RequestsConsistent' /\ ClosersConsistent'
      BY <2>1 DEF IndInv, RequestsConsistent, ClosersConsistent
    <2>5. RelationsReferToLiveRows' /\ RelationsUnique' /\ ParticipantsUnique'
      BY <2>1, <2>2 DEF IndInv, RelationsReferToLiveRows, RelationsUnique, ParticipantsUnique
    <2> QED
      BY <2>3, <2>4, <2>5 DEF IndInv
  <1> QED
    BY <1>1, <1>3, <1>4

\* A participant id is never used again; relations go with their participant.
LEMMA CourseStepStep ==
    ASSUME IndInv, CourseStep
    PROVE  IndInv'
  <1> USE DEF groupVars, courseVars
  <1>1. ASSUME NEW u \in Users, JoinCourse(u)
        PROVE  IndInv'
    <2> USE <1>1 DEF JoinCourse, IsParticipant
    <2>1. TypeOK'
      BY DEF IndInv, TypeOK
    <2>2. RelationsReferToLiveRows'
      BY DEF IndInv, TypeOK, RelationsReferToLiveRows, RelationsUnique, Row
    <2>3. RequestsConsistent' /\ ClosersConsistent' /\ RelationsUnique'
      BY DEF IndInv, RequestsConsistent, ClosersConsistent, RelationsUnique
    <2>4. ParticipantsUnique'
      BY DEF IndInv, TypeOK, ParticipantsUnique
    <2> QED
      BY <2>1, <2>2, <2>3, <2>4 DEF IndInv
  <1>2. ASSUME NEW u \in Users, LeaveCourse(u)
        PROVE  IndInv'
    <2> USE <1>2 DEF LeaveCourse, IsParticipant
    <2>1. TypeOK'
      BY DEF IndInv, TypeOK
    <2>2. RelationsReferToLiveRows'
      BY DEF IndInv, TypeOK, RelationsReferToLiveRows, RelationsUnique, Row
    <2>3. RequestsConsistent' /\ ClosersConsistent' /\ RelationsUnique'
      BY DEF IndInv, RequestsConsistent, ClosersConsistent, RelationsUnique
    <2>4. ParticipantsUnique'
      BY DEF IndInv, TypeOK, ParticipantsUnique
    <2> QED
      BY <2>1, <2>2, <2>3, <2>4 DEF IndInv
  <1>3. ASSUME NEW u \in Users, CreateMultipleGroups(u)
        PROVE  IndInv'
    <2> USE <1>3 DEF CreateMultipleGroups
    <2>1. TypeOK'
      BY DEF IndInv, TypeOK
    <2>2. RequestsConsistent' /\ ClosersConsistent'
      BY DEF IndInv, RequestsConsistent, ClosersConsistent
    <2>3. RelationsReferToLiveRows' /\ RelationsUnique' /\ ParticipantsUnique'
      BY DEF IndInv, RelationsReferToLiveRows, RelationsUnique, ParticipantsUnique
    <2> QED
      BY <2>1, <2>2, <2>3 DEF IndInv
  <1>4. ASSUME SetCourseClosed
        PROVE  IndInv'
    BY <1>4 DEF SetCourseClosed, IndInv, TypeOK, RequestsConsistent, ClosersConsistent,
                RelationsReferToLiveRows, RelationsUnique, ParticipantsUnique
  <1> QED
    BY <1>1, <1>2, <1>3, <1>4 DEF CourseStep

-----------------------------------------------------------------------------
(* The theorems *)

\* The invariant holds initially.
LEMMA InitIndInv == Init => IndInv
  <1> SUFFICES ASSUME Init
               PROVE  IndInv
    OBVIOUS
  <1> USE DEF Init
  <1>1. TypeOK
    <2>1. events \in Seq(Event)
      BY DEF Event
    <2>2. enrol \in [Users -> Nat]
      OBVIOUS
    <2>3. req \in [Requests -> Request \cup {Idle}]
      OBVIOUS
    <2>4. nextPid \in Nat \ {0} /\ started \in Nat
      OBVIOUS
    <2>5. courseClosed \in BOOLEAN
      BY Zenon
    <2>6. /\ groups \subseteq created /\ created \subseteq GroupIds
          /\ closed \subseteq groups /\ locked \subseteq groups
          /\ rel \subseteq Row /\ closers \subseteq Closer
      OBVIOUS
    <2> QED
      BY <2>1, <2>2, <2>3, <2>4, <2>5, <2>6, Zenon DEF TypeOK
  <1>2. RequestsConsistent
    BY DEF RequestsConsistent, Idle
  <1>4. ParticipantsUnique
    BY DEF ParticipantsUnique
  <1>3. ClosersConsistent /\ RelationsReferToLiveRows /\ RelationsUnique
    BY DEF ClosersConsistent, RelationsReferToLiveRows, RelationsUnique
  <1> QED
    BY <1>1, <1>2, <1>3, <1>4 DEF IndInv

\* Every step keeps it.
LEMMA NextIndInv == IndInv /\ [Next]_vars => IndInv'
  <1> SUFFICES ASSUME IndInv, [Next]_vars
               PROVE  IndInv'
    OBVIOUS
  <1>1. CASE UNCHANGED vars
    BY <1>1 DEF vars, IndInv, TypeOK, RequestsConsistent, ClosersConsistent,
                RelationsReferToLiveRows, RelationsUnique, ParticipantsUnique
  <1>2. CASE Next
    BY <1>2, StartRequestStep, RequestStepStep, CloserStepStep, CourseStepStep DEF Next
  <1> QED
    BY <1>1, <1>2

\* All reachable states are consistent: the types of the state, the requests and
\* handlers in flight, and the relations the database holds.
THEOREM Consistency == Spec => []IndInv
  BY InitIndInv, NextIndInv, PTL DEF Spec

\* Every variable keeps its type: flags belong to rows, rows to ids handed out.
THEOREM TypeCorrectness == Spec => []TypeOK
  BY Consistency, PTL DEF IndInv

\* No relation refers to a group or a participant row that is gone, although
\* groups and participants are deleted under the requests that add members.
THEOREM ReferentialIntegrity == Spec => []RelationsReferToLiveRows
  BY Consistency, PTL DEF IndInv

\* Nobody is ever in two groups of the course.
THEOREM SingleGroup == Spec => []OneGroupPerParticipant
  <1>1. IndInv => OneGroupPerParticipant
    BY DEF IndInv, RelationsReferToLiveRows, RelationsUnique, OneGroupPerParticipant
  <1> QED
    BY <1>1, Consistency, PTL

-----------------------------------------------------------------------------
(* Refinement: CourseGroups implements GroupMembership *)

\* The group that a set of relations gives a user.
LEMMA GroupInMember ==
    ASSUME NEW R, NEW x \in R, \A y \in R : y.user = x.user => y = x
    PROVE  GroupIn(R, x.user) = x.group
  <1>1. (CHOOSE y \in R : y.user = x.user) = x
    OBVIOUS
  <1> QED
    BY <1>1 DEF GroupIn

\* Who has no relation has no group.
LEMMA GroupInNobody ==
    ASSUME NEW R, NEW u, \A x \in R : x.user # u
    PROVE  GroupIn(R, u) = NoGroup
  BY DEF GroupIn

\* Sets of relations that agree on a user give him the same group.
LEMMA GroupInSame ==
    ASSUME NEW R, NEW S, NEW u,
           \A x, y \in R : x.user = y.user => x = y,
           \A x, y \in S : x.user = y.user => x = y,
           \A x \in R \cup S : x.user = u => x \in R /\ x \in S
    PROVE  GroupIn(R, u) = GroupIn(S, u)
  <1>1. CASE \E x \in R : x.user = u
    <2>1. PICK x \in R : x.user = u
      BY <1>1
    <2>2. GroupIn(R, x.user) = x.group
      BY GroupInMember
    <2>3. GroupIn(S, x.user) = x.group
      BY <2>1, GroupInMember
    <2> QED
      BY <2>1, <2>2, <2>3
  <1>2. CASE \A x \in R : x.user # u
    BY <1>2, GroupInNobody
  <1> QED
    BY <1>1, <1>2

\* In a consistent state a user has at most one relation.
LEMMA RelationsOfUsers ==
    ASSUME IndInv
    PROVE  /\ \A x, y \in rel : x.user = y.user => x = y
           /\ \A x \in rel : x.user \in Users /\ x.group \in GroupIds
  BY DEF IndInv, TypeOK, Row, RelationsReferToLiveRows, RelationsUnique

\* The steps of requests that write to user_group_relations.
LEMMA AddImplementsJoin ==
    ASSUME IndInv, IndInv', NEW r \in Requests, AddInsert(r), rel' # rel
    PROVE  Membership!Next
  <1> DEFINE u == req[r].user
             g == req[r].group
             row == [pid |-> req[r].pid, user |-> u, group |-> g]
  <1>1. rel' = rel \cup {row} /\ ~UniqueViolation(r) /\ ReferencesExist(r)
    BY DEF AddInsert, Reject, DataUnchanged
  <1>2. req[r] \in Request /\ g \in GroupIds
    BY <1>1, BusySlot DEF AddInsert, At, ReferencesExist, IndInv, TypeOK
  <1>3. u \in Users
    BY <1>2 DEF Request
  <1>4. row \in rel' /\ row.user = u /\ row.group = g
    BY <1>1
  <1>5. \A x \in rel : x.user # u
    BY <1>1 DEF UniqueViolation, ReferencesExist, IndInv, RelationsReferToLiveRows
  <1>6. \A x, y \in rel : x.user = y.user => x = y
    BY RelationsOfUsers
  <1>7. \A x, y \in rel' : x.user = y.user => x = y
    BY <1>1, <1>4, <1>5, <1>6
  <1> HIDE DEF row
  <1>8. GroupIn(rel', u) = g
    BY <1>4, <1>7, GroupInMember
  <1>9. GroupIn(rel, u) = NoGroup
    BY <1>5, GroupInNobody
  <1>10. \A v \in Users : v # u => GroupIn(rel', v) = GroupIn(rel, v)
    BY <1>1, <1>4, <1>6, <1>7, GroupInSame
  <1>11. Membership!Join(u, g)
    BY <1>3, <1>8, <1>9, <1>10 DEF Membership!Join, GroupOf
  <1> QED
    BY <1>2, <1>3, <1>11 DEF Membership!Next

\* Deleting the relations of one user, or all those of one group.
LEMMA RemoveImplementsLeave ==
    ASSUME IndInv, NEW u \in Users,
           rel' = {x \in rel : x.user # u}
    PROVE  Membership!Leave(u)
  <1>1. \A x, y \in rel : x.user = y.user => x = y
    BY RelationsOfUsers
  <1>2. GroupIn(rel', u) = NoGroup
    BY GroupInNobody
  <1>3. \A v \in Users : v # u => GroupIn(rel', v) = GroupIn(rel, v)
    BY <1>1, GroupInSame
  <1> QED
    BY <1>2, <1>3 DEF Membership!Leave, GroupOf

\* To remove all relations of a group is to dissolve it.
LEMMA RemoveImplementsDissolve ==
    ASSUME IndInv, NEW g \in GroupIds,
           rel' = {x \in rel : x.group # g}
    PROVE  Membership!Dissolve(g)
  <1>1. \A x, y \in rel : x.user = y.user => x = y
    BY RelationsOfUsers
  <1>2. ASSUME NEW v \in Users
        PROVE  GroupIn(rel', v) = IF GroupIn(rel, v) = g THEN NoGroup ELSE GroupIn(rel, v)
    <2>1. CASE \E x \in rel : x.user = v
      <3>1. PICK x \in rel : x.user = v
        BY <2>1
      <3>2. GroupIn(rel, v) = x.group
        BY <1>1, <3>1, GroupInMember
      <3>3. CASE x.group = g
        <4>1. \A y \in rel' : y.user # v
          BY <1>1, <3>1, <3>3
        <4> QED
          BY <3>2, <3>3, <4>1, GroupInNobody
      <3>4. CASE x.group # g
        <4>1. \A y \in rel \cup rel' : y.user = v => y \in rel /\ y \in rel'
          BY <1>1, <3>1, <3>4
        <4>2. GroupIn(rel', v) = GroupIn(rel, v)
          BY <1>1, <4>1, GroupInSame
        <4> QED
          BY <3>2, <3>4, <4>2
      <3> QED
        BY <3>3, <3>4
    <2>2. CASE \A x \in rel : x.user # v
      <3>1. \A x \in rel' : x.user # v
        BY <2>2
      <3>2. GroupIn(rel, v) = NoGroup /\ GroupIn(rel', v) = NoGroup
        BY <2>2, <3>1, GroupInNobody
      <3> QED
        BY <3>2
    <2> QED
      BY <2>1, <2>2
  <1> QED
    BY <1>2 DEF Membership!Dissolve, GroupOf

\* Every step of the code is a step of GroupMembership, or none.
LEMMA StepRefines ==
    ASSUME IndInv, IndInv', [Next]_vars
    PROVE  [Membership!Next]_GroupOf
  <1>1. CASE rel' = rel
    BY <1>1 DEF GroupOf
  <1>2. ASSUME NEW r \in Requests, AddInsert(r)
        PROVE  [Membership!Next]_GroupOf
    BY <1>1, <1>2, AddImplementsJoin
  <1>3. ASSUME NEW r \in Requests, LeaveRemove(r), rel' # rel
        PROVE  [Membership!Next]_GroupOf
    <2>1. req[r] \in Request
      BY <1>3, BusySlot DEF LeaveRemove, At, IndInv
    <2>2. PICK x \in rel : x.user = req[r].user /\ x.group = req[r].group
      BY <1>3 DEF LeaveRemove, Reject, DataUnchanged
    <2>3. \A y \in rel : y.user = x.user => y = x
      BY DEF IndInv, RelationsReferToLiveRows, RelationsUnique
    <2>4. rel' = rel \ {y \in rel : y.user = req[r].user /\ y.group = req[r].group}
      BY <1>3 DEF LeaveRemove, Reject, DataUnchanged
    <2>6. rel' = {y \in rel : y.user # req[r].user}
      BY <2>2, <2>3, <2>4
    <2>5. req[r].user \in Users
      BY <2>1 DEF Request
    <2> QED
      BY <2>5, <2>6, RemoveImplementsLeave DEF Membership!Next
  <1>4. ASSUME NEW r \in Requests, DeleteDrop(r)
        PROVE  [Membership!Next]_GroupOf
    <2>1. req[r].group \in GroupIds
      BY <1>4 DEF DeleteDrop, At, IndInv, RequestsConsistent, TypeOK
    <2> QED
      BY <1>4, <2>1, RemoveImplementsDissolve DEF DeleteDrop, Membership!Next
  <1>5. ASSUME NEW u \in Users, LeaveCourse(u)
        PROVE  [Membership!Next]_GroupOf
    <2>1. \A x \in rel : (x.user = u) <=> (x.pid = enrol[u])
      BY <1>5, RelationsOfUsers
      DEF LeaveCourse, IsParticipant, IndInv, RelationsReferToLiveRows, ParticipantsUnique
    <2>2. rel' = {x \in rel : x.user # u}
      BY <1>5, <2>1 DEF LeaveCourse
    <2> QED
      BY <2>2, RemoveImplementsLeave DEF Membership!Next
  <1>6. CASE UNCHANGED vars
    BY <1>1, <1>6 DEF vars
  <1>7. ASSUME NEW r \in Requests, StartRequest(r)
        PROVE  rel' = rel
    <2>1. \E request : Begin(r, request)
      BY <1>7 DEF StartRequest, StartJoin, StartLeave, StartRandom, StartCreate,
                  StartDelete, StartUpdate
    <2> QED
      BY <2>1 DEF Begin
  <1>8. ASSUME NEW r \in Requests, RequestStep(r),
               ~AddInsert(r), ~LeaveRemove(r), ~DeleteDrop(r)
        PROVE  rel' = rel
    BY <1>8 DEF RequestStep, JoinSelectParticipant, JoinCheckGroup, AddLookup,
                RandomChoose, CreateInsert, CreateNameTaken, UpdateLoad, UpdateSave,
                UpdateNameTaken, Reject, DataUnchanged
  <1>9. ASSUME CloserStep
        PROVE  rel' = rel
    BY <1>9 DEF CloserStep, CloserCheck, CloserLoad, CloserSave
  <1>10. ASSUME CourseStep, \A u \in Users : ~LeaveCourse(u)
         PROVE  rel' = rel
    BY <1>10 DEF CourseStep, JoinCourse, CreateMultipleGroups, SetCourseClosed
  <1> QED
    BY <1>1, <1>2, <1>3, <1>4, <1>5, <1>6, <1>7, <1>8, <1>9, <1>10 DEF Next, CourseStep,
       RequestStep

\* Seen from the relations, the code makes only the steps GroupMembership has:
\* nobody is moved from one group to another, and a step that removes more than
\* one user removes a whole group.
THEOREM MembershipRefinement == Spec => ImplementsMembership
  <1>1. Init => Membership!Init
    <2> SUFFICES ASSUME Init
                 PROVE  GroupOf = [u \in Users |-> NoGroup]
      BY DEF Membership!Init
    <2>1. \A u \in Users : GroupIn(rel, u) = NoGroup
      BY GroupInNobody DEF Init
    <2> QED
      BY <2>1 DEF GroupOf
  <1> QED
    BY <1>1, StepRefines, Consistency, PTL DEF Spec, ImplementsMembership, Membership!Spec

-----------------------------------------------------------------------------
(* The bound on the size of groups *)

\* What CapacityBound needs besides: the sets it counts are finite.
CapacityInv == IndInv /\ IsFiniteSet(rel) /\ CapacityBound

\* The sets that the bound counts are finite.
LEMMA Counting ==
    ASSUME IsFiniteSet(rel), NEW g
    PROVE  /\ IsFiniteSet(Members(g)) /\ Size(g) \in Nat
           /\ IsFiniteSet(Joining(g)) /\ Cardinality(Joining(g)) \in Nat
           /\ Cardinality(Requests) \in Nat
           /\ Cardinality(Joining(g)) <= Cardinality(Requests)
  <1>1. Members(g) \subseteq rel /\ Joining(g) \subseteq Requests
    BY DEF Members, Joining
  <1> QED
    BY <1>1, ConstantsAssumption, FS_Subset, FS_CardinalityType DEF Size

\* A step that adds no relation keeps the bound for g if it lets nobody new in,
\* or if it has seen room in g.
LEMMA NoNewMember ==
    ASSUME IsFiniteSet(rel), NEW g, SizeMax \in Nat,
           Size(g) + Cardinality(Joining(g)) <= Capacity,
           rel' \subseteq rel,
           Joining(g)' \subseteq Joining(g) \/ Size(g) < SizeMax
    PROVE  Size(g)' + Cardinality(Joining(g)') <= Capacity
  <1>1. IsFiniteSet(rel')
    BY FS_Subset
  <1>2. Size(g)' \in Nat /\ Size(g)' <= Size(g)
    <2>1. Members(g)' \subseteq Members(g)
      BY DEF Members
    <2> QED
      BY <2>1, Counting, FS_Subset, FS_CardinalityType DEF Size
  <1>3. /\ Cardinality(Joining(g)') \in Nat
        /\ Cardinality(Joining(g)') <= Cardinality(Requests)
    <2>1. Joining(g)' \subseteq Requests
      BY DEF Joining
    <2> QED
      BY <2>1, ConstantsAssumption, FS_Subset, FS_CardinalityType
  <1>4. CASE Joining(g)' \subseteq Joining(g)
    <2>1. Cardinality(Joining(g)') <= Cardinality(Joining(g))
      BY <1>4, Counting, FS_Subset
    <2> QED
      BY <1>2, <1>3, <2>1, Counting DEF Capacity
  <1>5. CASE Size(g) < SizeMax
    BY <1>2, <1>3, <1>5, Counting DEF Capacity
  <1> QED
    BY <1>4, <1>5

\* The step that adds the relation is the one that ends the request.
LEMMA NewMember ==
    ASSUME IsFiniteSet(rel), NEW g, NEW row, NEW r \in Joining(g),
           Size(g) + Cardinality(Joining(g)) <= Capacity, SizeMax \in Nat,
           rel' = rel \cup {row},
           Joining(g)' \subseteq Joining(g) \ {r}
    PROVE  Size(g)' + Cardinality(Joining(g)') <= Capacity
  <1>1. Members(g)' \subseteq Members(g) \cup {row}
    BY DEF Members
  <1>2. /\ IsFiniteSet(Members(g) \cup {row})
        /\ Cardinality(Members(g) \cup {row}) <= Size(g) + 1
    <2>1. IsFiniteSet(Members(g)) /\ Size(g) \in Nat
      BY Counting
    <2>2. /\ IsFiniteSet(Members(g) \cup {row})
          /\ Cardinality(Members(g) \cup {row})
               = IF row \in Members(g) THEN Size(g) ELSE Size(g) + 1
      BY <2>1, FS_AddElement DEF Size
    <2> QED
      BY <2>1, <2>2
  <1>3. Size(g)' <= Size(g) + 1 /\ Size(g)' \in Nat
    <2>1. /\ Cardinality(Members(g) \cup {row}) \in Nat
          /\ Size(g)' <= Cardinality(Members(g) \cup {row})
          /\ Size(g)' \in Nat
      BY <1>1, <1>2, FS_Subset, FS_CardinalityType DEF Size
    <2> QED
      BY <1>2, <2>1, Counting
  <1>4. /\ IsFiniteSet(Joining(g) \ {r})
        /\ Cardinality(Joining(g) \ {r}) = Cardinality(Joining(g)) - 1
    BY Counting, FS_RemoveElement
  <1>5. /\ Cardinality(Joining(g)') <= Cardinality(Joining(g)) - 1
        /\ Cardinality(Joining(g)') \in Nat
    BY <1>4, FS_Subset, FS_CardinalityType
  <1> QED
    BY <1>3, <1>5, Counting DEF Capacity

\* A request that moves on without taking a new group in hand.
LEMMA SlotMoves ==
    ASSUME IndInv, NEW r \in Requests, NEW request, NEW g,
           req' = [req EXCEPT ![r] = request],
           request.pc \in {"lookup", "insert"} /\ request.group = g => r \in Joining(g)
    PROVE  /\ Joining(g)' \subseteq Joining(g)
           /\ request.pc \notin {"lookup", "insert"} => Joining(g)' \subseteq Joining(g) \ {r}
  <1>1. \A q \in Requests : req'[q] = IF q = r THEN request ELSE req[q]
    BY DEF IndInv, TypeOK
  <1> QED
    BY <1>1 DEF Joining

\* A request that ends was the only one to leave the set of joining ones.
LEMMA FinishLetsNobodyIn ==
    ASSUME IndInv, NEW r \in Requests, NEW g, Finish(r)
    PROVE  Joining(g)' \subseteq Joining(g) \ {r}
  <1>1. Idle.pc \notin {"lookup", "insert"}
    BY DEF Idle
  <1> QED
    BY <1>1, SlotMoves DEF Finish

\* Every step either lets nobody new into g, or has seen room in g, or adds the
\* relation of a request that ends.
LEMMA StepOnGroup ==
    ASSUME IndInv, IsFiniteSet(rel), Staff = {}, SizeMax \in Nat \ {0},
           [Next]_vars, NEW g \in GroupIds
    PROVE  \/ rel' \subseteq rel /\ (Joining(g)' \subseteq Joining(g) \/ Size(g) < SizeMax)
           \/ \E r \in Joining(g) : \E row :
                 rel' = rel \cup {row} /\ Joining(g)' \subseteq Joining(g) \ {r}
           \/ \E row : /\ rel' = rel \cup {row} /\ row.group # g
                       /\ Joining(g)' \subseteq Joining(g)
  <1>1. CASE UNCHANGED <<req, rel>>
    BY <1>1 DEF Joining
  <1>2. CASE UNCHANGED vars
    BY <1>1, <1>2 DEF vars
  <1>3. ASSUME CloserStep
        PROVE  UNCHANGED <<req, rel>>
    BY <1>3 DEF CloserStep, CloserCheck, CloserLoad, CloserSave
  <1>4. CASE CourseStep
    <2>1. req' = req /\ rel' \subseteq rel
      BY <1>4 DEF CourseStep, JoinCourse, LeaveCourse, CreateMultipleGroups, SetCourseClosed
    <2> QED
      BY <2>1 DEF Joining
  <1>5. ASSUME NEW r \in Requests, StartRequest(r)
        PROVE  rel' = rel /\ Joining(g)' \subseteq Joining(g)
    <2>1. \A op, pc, a, u, h :
             NewRequest(op, pc, a, u, h).pc = pc
      BY DEF NewRequest
    <2>2. \E request : Begin(r, request) /\ request.pc \notin {"lookup", "insert"}
      <3>1. CASE \E a \in Users, u \in Users, h \in created : StartJoin(r, a, u, h)
        BY <2>1, <3>1 DEF StartJoin
      <3>2. CASE \E a \in Users, u \in Users, h \in created : StartLeave(r, a, u, h)
        BY <2>1, <3>2 DEF StartLeave
      <3>3. CASE \E a \in Users : StartRandom(r, a)
        <4>1. PICK a \in Users :
                 Begin(r, [NewRequest("random", "choose", a, a, NoGroup)
                             EXCEPT !.free = HasNoGroup(a)])
          BY <3>3 DEF StartRandom
        <4>2. [NewRequest("random", "choose", a, a, NoGroup)
                 EXCEPT !.free = HasNoGroup(a)].pc = "choose"
          BY DEF NewRequest
        <4> QED
          BY <4>1, <4>2
      <3>4. CASE \E a \in Users : StartCreate(r, a)
        BY <2>1, <3>4 DEF StartCreate
      <3>5. CASE \E a \in Users, h \in created : StartDelete(r, a, h)
        BY <2>1, <3>5 DEF StartDelete
      <3>6. CASE \E a \in Users, h \in created : StartUpdate(r, a, h)
        <4>1. PICK a \in Users, h \in created, c \in Column, l \in Column :
                 Begin(r, [NewRequest("update", "load", a, a, h)
                             EXCEPT !.closed = c, !.locked = l])
          BY <3>6 DEF StartUpdate
        <4>2. [NewRequest("update", "load", a, a, h)
                 EXCEPT !.closed = c, !.locked = l].pc = "load"
          BY DEF NewRequest
        <4> QED
          BY <4>1, <4>2
      <3> QED
        BY <1>5, <3>1, <3>2, <3>3, <3>4, <3>5, <3>6 DEF StartRequest
    <2> QED
      BY <2>2, SlotMoves DEF Begin
  <1>6. ASSUME NEW r \in Requests, GoTo(r, "group") \/ GoTo(r, "create"), req[r] \in Request
        PROVE  Joining(g)' \subseteq Joining(g)
    <2>1. /\ [req[r] EXCEPT !.pc = "group"].pc = "group"
          /\ [req[r] EXCEPT !.pc = "create"].pc = "create"
      BY <1>6 DEF Request
    <2> QED
      BY <1>6, <2>1, SlotMoves DEF GoTo
  <1>7. ASSUME NEW r \in Requests, RequestStep(r)
        PROVE  \/ rel' \subseteq rel /\ (Joining(g)' \subseteq Joining(g) \/ Size(g) < SizeMax)
               \/ \E row : /\ rel' = rel \cup {row}
                           /\ r \in Joining(g) /\ Joining(g)' \subseteq Joining(g) \ {r}
               \/ \E row : /\ rel' = rel \cup {row} /\ row.group # g
                           /\ Joining(g)' \subseteq Joining(g)
    <2>1. CASE Finish(r) /\ rel' \subseteq rel
      BY <2>1, FinishLetsNobodyIn
    <2>2. CASE JoinSelectParticipant(r)
      BY <2>1, <2>2, <1>6, BusySlot DEF JoinSelectParticipant, DataUnchanged, At, IndInv
    <2>3. CASE JoinCheckGroup(r)
      <3>1. rel' = rel /\ req[r] \in Request
        BY <2>3, BusySlot DEF JoinCheckGroup, DataUnchanged, At, IndInv
      <3>2. CASE Finish(r)
        BY <2>1, <3>1, <3>2
      <3>3. CASE GoTo(r, "lookup") /\ HasCapacity(req[r].group)
        <4>1. CASE req[r].group = g
          BY <3>1, <3>3, <4>1 DEF HasCapacity
        <4>2. CASE req[r].group # g
          <5>1. [req[r] EXCEPT !.pc = "lookup"].group = req[r].group
            BY <3>1 DEF Request
          <5> QED
            BY <3>1, <3>3, <4>2, <5>1, SlotMoves DEF GoTo
        <4> QED
          BY <4>1, <4>2
      <3> QED
        BY <2>3, <3>2, <3>3 DEF JoinCheckGroup, IsStudent
    <2>4. CASE AddLookup(r)
      <3>1. rel' = rel /\ req[r] \in Request /\ req[r].pc = "lookup"
        BY <2>4, BusySlot DEF AddLookup, DataUnchanged, At, IndInv
      <3>2. CASE Finish(r)
        BY <2>1, <3>1, <3>2
      <3>3. CASE req' = [req EXCEPT ![r].pc = "insert", ![r].pid = enrol[req[r].user]]
        <4> DEFINE request == [req[r] EXCEPT !.pc = "insert", !.pid = enrol[req[r].user]]
        <4>1. request.group = req[r].group
          BY <3>1 DEF Request
        <4>2. req' = [req EXCEPT ![r] = request]
          BY <3>3
        <4>3. req[r].group = g => r \in Joining(g)
          BY <3>1 DEF Joining
        <4> HIDE DEF request
        <4> QED
          BY <3>1, <4>1, <4>2, <4>3, SlotMoves
      <3> QED
        BY <2>4, <3>2, <3>3 DEF AddLookup
    <2>5. CASE AddInsert(r)
      <3>1. CASE rel' = rel
        BY <2>1, <2>5, <3>1 DEF AddInsert, Reject
      <3>2. CASE rel' # rel
        <4> DEFINE row == [pid |-> req[r].pid, user |-> req[r].user, group |-> req[r].group]
        <4>1. rel' = rel \cup {row} /\ Finish(r) /\ req[r].pc = "insert"
          BY <2>5, <3>2 DEF AddInsert, Reject, DataUnchanged, At
        <4>2. Joining(g)' \subseteq Joining(g) \ {r}
          BY <4>1, FinishLetsNobodyIn
        <4>3. row.group = req[r].group
          OBVIOUS
        <4> HIDE DEF row
        <4>4. CASE req[r].group = g
          BY <4>1, <4>2, <4>4 DEF Joining
        <4>5. CASE req[r].group # g
          BY <4>1, <4>2, <4>3, <4>5
        <4> QED
          BY <4>4, <4>5
      <3> QED
        BY <3>1, <3>2
    <2>6. CASE RandomChoose(r)
      <3>1. rel' = rel /\ req[r] \in Request
        BY <2>6, BusySlot DEF RandomChoose, DataUnchanged, At, IndInv
      <3>2. CASE Finish(r) \/ GoTo(r, "create")
        BY <1>6, <2>1, <3>1, <3>2
      <3>3. ASSUME NEW h \in Joinable, req' = [req EXCEPT ![r].pc = "lookup", ![r].group = h]
            PROVE  Joining(g)' \subseteq Joining(g) \/ Size(g) < SizeMax
        <4>1. Size(h) < SizeMax
          BY DEF Joinable, TooSmall, LargeEnough, OpenGroups
        <4> DEFINE request == [req[r] EXCEPT !.pc = "lookup", !.group = h]
        <4>2. request.group = h /\ req' = [req EXCEPT ![r] = request]
          BY <3>1, <3>3 DEF Request
        <4> HIDE DEF request
        <4> QED
          BY <4>1, <4>2, SlotMoves
      <3> QED
        BY <2>6, <3>1, <3>2, <3>3 DEF RandomChoose
    <2>7. CASE CreateInsert(r)
      <3>1. rel' = rel /\ req[r] \in Request
        BY <2>7, BusySlot DEF CreateInsert, At, IndInv
      <3>2. PICK h \in GroupIds \ created :
               req' = [req EXCEPT ![r].pc = "lookup", ![r].group = h] \/ Finish(r)
        BY <2>7 DEF CreateInsert
      <3>3. CASE Finish(r)
        BY <2>1, <3>1, <3>3
      <3>4. CASE req' = [req EXCEPT ![r].pc = "lookup", ![r].group = h]
        <4>1. CASE h = g
          <5>1. Members(g) = {}
            BY <4>1, <3>2 DEF Members, IndInv, TypeOK, RelationsReferToLiveRows
          <5>2. Size(g) = 0
            BY <5>1, FS_EmptySet DEF Size
          <5> QED
            BY <3>1, <5>2
        <4>2. CASE h # g
          <5> DEFINE request == [req[r] EXCEPT !.pc = "lookup", !.group = h]
          <5>1. request.group = h /\ req' = [req EXCEPT ![r] = request]
            BY <3>1, <3>4 DEF Request
          <5> HIDE DEF request
          <5> QED
            BY <3>1, <4>2, <5>1, SlotMoves
        <4> QED
          BY <4>1, <4>2
      <3> QED
        BY <3>2, <3>3, <3>4
    <2>8. CASE UpdateLoad(r)
      <3>1. rel' = rel /\ req[r] \in Request
        BY <2>8, BusySlot DEF UpdateLoad, DataUnchanged, At, IndInv
      <3>2. \E c, l : Finish(r) \/ req' = [req EXCEPT ![r].pc = "save", ![r].closed = c,
                                                       ![r].locked = l]
        BY <2>8 DEF UpdateLoad
      <3>3. ASSUME NEW request, req' = [req EXCEPT ![r] = request], request.pc = "save"
            PROVE  Joining(g)' \subseteq Joining(g)
        BY <3>3, SlotMoves
      <3>4. CASE Finish(r)
        BY <2>1, <3>1, <3>4
      <3>5. ASSUME NEW c, NEW l,
                   req' = [req EXCEPT ![r].pc = "save", ![r].closed = c, ![r].locked = l]
            PROVE  Joining(g)' \subseteq Joining(g)
        <4> DEFINE request == [req[r] EXCEPT !.pc = "save", !.closed = c, !.locked = l]
        <4>1. request.pc = "save" /\ req' = [req EXCEPT ![r] = request]
          BY <3>1, <3>5 DEF Request
        <4> HIDE DEF request
        <4> QED
          BY <3>3, <4>1
      <3> QED
        BY <3>1, <3>2, <3>4, <3>5
    <2>9. CASE \/ CreateNameTaken(r) \/ LeaveRemove(r) \/ DeleteDrop(r)
               \/ UpdateSave(r) \/ UpdateNameTaken(r)
      <3>1. Finish(r) /\ rel' \subseteq rel
        BY <2>9 DEF CreateNameTaken, LeaveRemove, DeleteDrop, UpdateSave, UpdateNameTaken,
                    Reject, DataUnchanged
      <3> QED
        BY <2>1, <3>1
    <2> QED
      BY <1>7, <2>2, <2>3, <2>4, <2>5, <2>6, <2>7, <2>8, <2>9 DEF RequestStep
  <1> QED
    BY <1>1, <1>2, <1>3, <1>4, <1>5, <1>7 DEF Next, Joining

\* The bound survives every step.
LEMMA CapacityNext ==
    ASSUME CapacityInv, [Next]_vars
    PROVE  CapacityInv'
  <1>1. IndInv'
    BY NextIndInv DEF CapacityInv
  <1>2. IsFiniteSet(rel')
    <2>1. \E row : rel' \subseteq rel \cup {row}
      BY DEF Next, vars, StartRequest, StartJoin, StartLeave, StartRandom, StartCreate,
             StartDelete, StartUpdate, Begin, RequestStep, JoinSelectParticipant,
             JoinCheckGroup, AddLookup, AddInsert, RandomChoose, CreateInsert,
             CreateNameTaken, LeaveRemove, DeleteDrop, UpdateLoad, UpdateSave,
             UpdateNameTaken, Reject, DataUnchanged, CloserStep, CloserCheck, CloserLoad,
             CloserSave, CourseStep, JoinCourse, LeaveCourse, CreateMultipleGroups,
             SetCourseClosed
    <2> QED
      BY <2>1, FS_AddElement, FS_Subset DEF CapacityInv
  <1>3. CapacityBound'
    <2> SUFFICES ASSUME Staff = {}, SizeMax > 0, NEW g \in GroupIds
                 PROVE  Size(g)' + Cardinality(Joining(g)') <= Capacity
      BY DEF CapacityBound, Capacity
    <2>1. /\ IsFiniteSet(rel) /\ IndInv
          /\ Size(g) + Cardinality(Joining(g)) <= Capacity
          /\ SizeMax \in Nat \ {0}
      BY ConstantsAssumption DEF CapacityInv, CapacityBound
    <2>2. CASE rel' \subseteq rel /\ (Joining(g)' \subseteq Joining(g) \/ Size(g) < SizeMax)
      BY <2>1, <2>2, NoNewMember
    <2>3. CASE \E r \in Joining(g) : \E row :
                  rel' = rel \cup {row} /\ Joining(g)' \subseteq Joining(g) \ {r}
      BY <2>1, <2>3, NewMember
    <2>4. CASE \E row : /\ rel' = rel \cup {row} /\ row.group # g
                        /\ Joining(g)' \subseteq Joining(g)
      <3>1. Members(g)' = Members(g)
        BY <2>4 DEF Members
      <3>2. Size(g)' = Size(g)
        BY <3>1 DEF Size
      <3>3. /\ Cardinality(Joining(g)') \in Nat
            /\ Cardinality(Joining(g)') <= Cardinality(Joining(g))
        BY <2>1, <2>4, Counting, FS_Subset, FS_CardinalityType
      <3> QED
        BY <2>1, <3>2, <3>3, Counting DEF Capacity
    <2> QED
      BY <2>1, <2>2, <2>3, <2>4, StepOnGroup
  <1> QED
    BY <1>1, <1>2, <1>3 DEF CapacityInv

\* Without staff, requests that overlap let a group grow beyond sizeMax by less
\* than their number; in particular sizeMax holds if requests come one by one.
THEOREM CapacityTheorem == Spec => []CapacityBound
  <1>1. Init => CapacityInv
    <2> SUFFICES ASSUME Init
                 PROVE  CapacityInv
      OBVIOUS
    <2>1. IsFiniteSet(rel)
      BY FS_EmptySet DEF Init
    <2>2. ASSUME NEW g \in GroupIds
          PROVE  Size(g) = 0 /\ Cardinality(Joining(g)) = 0
      <3>1. Members(g) = {} /\ Joining(g) = {}
        BY DEF Init, Members, Joining, Idle
      <3> QED
        BY <3>1, FS_EmptySet DEF Size
    <2>3. CapacityBound
      BY <2>2, ConstantsAssumption, FS_CardinalityType DEF CapacityBound, Capacity
    <2> QED
      BY <2>1, <2>3, InitIndInv DEF CapacityInv
  <1>2. CapacityInv => CapacityBound
    BY DEF CapacityInv
  <1> QED
    BY <1>1, <1>2, CapacityNext, PTL DEF Spec

-----------------------------------------------------------------------------
(* The ledger of the published events *)

Kept == Ops \cap {"delete", "quit"} = {}
RowsOf(u, g) == {x \in rel : x.user = u /\ x.group = g}

\* What the ledger needs besides: no group and no participant row ever goes, so
\* that a relation that is about to be inserted finds both.
LedgerInv ==
    /\ IndInv
    /\ groups = created
    /\ \A r \in Requests :
          /\ req[r].pc # "drop"
          /\ req[r].pc = "insert" => enrol[req[r].user] = req[r].pid
    /\ \A u \in Users, g \in GroupIds :
          Published("joined", u, g) - Published("left", u, g) = Cardinality(RowsOf(u, g))

\* Publishing counts one event more, of its kind, its user and its group.
LEMMA PublishedOneMore ==
    ASSUME events \in Seq(Event), NEW event \in Event, events' = Append(events, event),
           NEW kind, NEW u, NEW g
    PROVE  /\ Published(kind, u, g) \in Nat
           /\ Published(kind, u, g)' = IF event = [kind |-> kind, user |-> u, group |-> g]
                                       THEN Published(kind, u, g) + 1 ELSE Published(kind, u, g)
  <1> DEFINE e == [kind |-> kind, user |-> u, group |-> g]
             I == {i \in DOMAIN events : events[i] = e}
             n == Len(events) + 1
  <1>1. /\ DOMAIN events = 1 .. Len(events) /\ Len(events) \in Nat /\ n \in Nat
        /\ DOMAIN events' = 1 .. n /\ events'[n] = event
        /\ \A i \in DOMAIN events : events'[i] = events[i]
    OBVIOUS
  <1>2. IsFiniteSet(DOMAIN events)
    BY <1>1, FS_Interval
  <1>3. IsFiniteSet(I) /\ Cardinality(I) \in Nat /\ n \notin I
    BY <1>1, <1>2, FS_Subset, FS_CardinalityType
  <1>4. {i \in DOMAIN events' : events'[i] = e} = IF event = e THEN I \cup {n} ELSE I
    BY <1>1
  <1>5. Cardinality(I \cup {n}) = Cardinality(I) + 1
    BY <1>3, FS_AddElement
  <1>6. Published(kind, u, g) = Cardinality(I)
    BY DEF Published
  <1>7. Published(kind, u, g)' = Cardinality({i \in DOMAIN events' : events'[i] = e})
    BY DEF Published
  <1> HIDE DEF e, I, n
  <1>8. Published(kind, u, g)' = IF event = e THEN Published(kind, u, g) + 1 ELSE Published(kind, u, g)
    BY <1>4, <1>5, <1>6, <1>7
  <1> QED
    BY <1>3, <1>6, <1>8 DEF e

\* A user is in a group once or not at all.
LEMMA RowsAreFew ==
    ASSUME RelationsUnique, RelationsReferToLiveRows, NEW u, NEW g
    PROVE  Cardinality(RowsOf(u, g)) = IF RowsOf(u, g) = {} THEN 0 ELSE 1
  <1>1. \A x, y \in RowsOf(u, g) : x = y
    BY DEF RowsOf, RelationsUnique, RelationsReferToLiveRows
  <1>2. CASE RowsOf(u, g) = {}
    BY <1>2, FS_EmptySet
  <1>3. CASE RowsOf(u, g) # {}
    <2>1. PICK x : RowsOf(u, g) = {x}
      BY <1>1, <1>3
    <2> QED
      BY <1>3, <2>1, FS_Singleton
  <1> QED
    BY <1>2, <1>3

\* No request deletes a group, and whoever is about to be added is a participant.
LEMMA LedgerRequests ==
    ASSUME LedgerInv, Kept, Next, NEW q \in Requests
    PROVE  /\ req'[q].pc # "drop"
           /\ req'[q].pc = "insert" => enrol'[req'[q].user] = req'[q].pid
  <1>0. /\ IndInv /\ TypeOK /\ RequestsConsistent
        /\ req[q].pc # "drop" /\ (req[q].pc = "insert" => enrol[req[q].user] = req[q].pid)
    BY DEF LedgerInv, IndInv
  <1>1. ASSUME req'[q] = req[q], enrol' = enrol
        PROVE  /\ req'[q].pc # "drop"
               /\ req'[q].pc = "insert" => enrol'[req'[q].user] = req'[q].pid
    BY <1>0, <1>1
  <1>2. ASSUME NEW r \in Requests, NEW request, req' = [req EXCEPT ![r] = request], enrol' = enrol,
               request.pc # "drop", request.pc = "insert" => enrol[request.user] = request.pid
        PROVE  /\ req'[q].pc # "drop"
               /\ req'[q].pc = "insert" => enrol'[req'[q].user] = req'[q].pid
    <2>1. req'[q] = request \/ req'[q] = req[q]
      BY <1>0, <1>2 DEF TypeOK
    <2> QED
      BY <1>0, <1>2, <2>1
  <1>3. ASSUME NEW r \in Requests, Finish(r), enrol' = enrol
        PROVE  /\ req'[q].pc # "drop"
               /\ req'[q].pc = "insert" => enrol'[req'[q].user] = req'[q].pid
    <2>1. Idle.pc = "idle"
      BY DEF Idle
    <2> QED
      BY <1>2, <1>3, <2>1 DEF Finish
  <1>4. CASE CloserStep
    BY <1>1, <1>4 DEF CloserStep, CloserCheck, CloserLoad, CloserSave, courseVars
  <1>5. CASE CourseStep
    <2>1. req' = req
      BY <1>5 DEF CourseStep, JoinCourse, LeaveCourse, CreateMultipleGroups, SetCourseClosed
    <2>2. enrol' = enrol \/ \E u \in Users : enrol[u] = 0 /\ \E pid : enrol' = [enrol EXCEPT ![u] = pid]
      BY <1>5 DEF CourseStep, JoinCourse, LeaveCourse, CreateMultipleGroups, SetCourseClosed, courseVars,
                  IsParticipant, Kept
    <2>3. req[q].pc = "insert" => req[q].pid # 0 /\ req[q].user \in Users
      BY <1>0, BusySlot DEF RequestsConsistent, At, Request
    <2> QED
      BY <1>0, <2>1, <2>2, <2>3 DEF TypeOK
  <1>6. ASSUME NEW r \in Requests, StartRequest(r)
        PROVE  /\ req'[q].pc # "drop"
               /\ req'[q].pc = "insert" => enrol'[req'[q].user] = req'[q].pid
    <2>1. \A op, pc, a, u, h : NewRequest(op, pc, a, u, h).pc = pc /\ NewRequest(op, pc, a, u, h).op = op
      BY DEF NewRequest
    <2>2. \E request : Begin(r, request) /\ request.pc \notin {"drop", "insert"}
      <3>1. CASE \E a \in Users, u \in Users, h \in created : StartJoin(r, a, u, h)
        BY <2>1, <3>1 DEF StartJoin
      <3>2. CASE \E a \in Users, u \in Users, h \in created : StartLeave(r, a, u, h)
        BY <2>1, <3>2 DEF StartLeave
      <3>3. CASE \E a \in Users : StartRandom(r, a)
        <4>1. PICK a \in Users :
                 Begin(r, [NewRequest("random", "choose", a, a, NoGroup) EXCEPT !.free = HasNoGroup(a)])
          BY <3>3 DEF StartRandom
        <4>2. [NewRequest("random", "choose", a, a, NoGroup) EXCEPT !.free = HasNoGroup(a)].pc = "choose"
          BY DEF NewRequest
        <4> QED
          BY <4>1, <4>2
      <3>4. CASE \E a \in Users : StartCreate(r, a)
        BY <2>1, <3>4 DEF StartCreate
      <3>5. CASE \E a \in Users, h \in created : StartDelete(r, a, h)
        BY <2>1, <3>5 DEF StartDelete, Begin, Kept
      <3>6. CASE \E a \in Users, h \in created : StartUpdate(r, a, h)
        <4>1. PICK a \in Users, h \in created, c \in Column, l \in Column :
                 Begin(r, [NewRequest("update", "load", a, a, h) EXCEPT !.closed = c, !.locked = l])
          BY <3>6 DEF StartUpdate
        <4>2. [NewRequest("update", "load", a, a, h) EXCEPT !.closed = c, !.locked = l].pc = "load"
          BY DEF NewRequest
        <4> QED
          BY <4>1, <4>2
      <3> QED
        BY <1>6, <3>1, <3>2, <3>3, <3>4, <3>5, <3>6 DEF StartRequest
    <2>3. PICK request : Begin(r, request) /\ request.pc \notin {"drop", "insert"}
      BY <2>2
    <2> QED
      BY <1>2, <2>3 DEF Begin, courseVars
  <1>7. ASSUME NEW r \in Requests, RequestStep(r)
        PROVE  /\ req'[q].pc # "drop"
               /\ req'[q].pc = "insert" => enrol'[req'[q].user] = req'[q].pid
    <2>0. enrol' = enrol
      BY <1>7 DEF RequestStep, JoinSelectParticipant, JoinCheckGroup, AddLookup, AddInsert, RandomChoose,
                  CreateInsert, CreateNameTaken, LeaveRemove, DeleteDrop, UpdateLoad, UpdateSave,
                  UpdateNameTaken, Reject, DataUnchanged, courseVars
    <2>1. CASE Finish(r)
      BY <1>3, <2>0, <2>1
    <2>2. CASE ~Finish(r)
      <3>1. req[r] \in Request
        BY <1>0, <1>7, <2>2, BusySlot DEF RequestStep, JoinSelectParticipant, JoinCheckGroup, AddLookup,
           AddInsert, RandomChoose, CreateInsert, CreateNameTaken, LeaveRemove, DeleteDrop, UpdateLoad,
           UpdateSave, UpdateNameTaken, Reject, IndInv
      <3>2. CASE JoinSelectParticipant(r) \/ JoinCheckGroup(r) \/ RandomChoose(r) \/ CreateInsert(r)
        <4>1. \/ \E pc \in {"group", "lookup", "create"} : GoTo(r, pc)
              \/ \E g : req' = [req EXCEPT ![r].pc = "lookup", ![r].group = g]
          BY <2>2, <3>2 DEF JoinSelectParticipant, JoinCheckGroup, RandomChoose, CreateInsert
        <4>2. CASE \E pc \in {"group", "lookup", "create"} : GoTo(r, pc)
          <5>1. PICK pc \in {"group", "lookup", "create"} : GoTo(r, pc)
            BY <4>2
          <5>2. /\ req' = [req EXCEPT ![r] = [req[r] EXCEPT !.pc = pc]]
                /\ [req[r] EXCEPT !.pc = pc].pc = pc
            BY <3>1, <5>1 DEF GoTo, Request
          <5> QED
            BY <1>2, <2>0, <5>2
        <4>3. ASSUME NEW g, req' = [req EXCEPT ![r].pc = "lookup", ![r].group = g]
              PROVE  /\ req'[q].pc # "drop"
                     /\ req'[q].pc = "insert" => enrol'[req'[q].user] = req'[q].pid
          <5>1. /\ req' = [req EXCEPT ![r] = [req[r] EXCEPT !.pc = "lookup", !.group = g]]
                /\ [req[r] EXCEPT !.pc = "lookup", !.group = g].pc = "lookup"
            BY <3>1, <4>3 DEF Request
          <5> QED
            BY <1>2, <2>0, <5>1
        <4> QED
          BY <4>1, <4>2, <4>3
      <3>3. CASE AddLookup(r)
        <4> DEFINE request == [req[r] EXCEPT !.pc = "insert", !.pid = enrol[req[r].user]]
        <4>1. req' = [req EXCEPT ![r] = request]
          BY <2>2, <3>3 DEF AddLookup
        <4>2. request.pc = "insert" /\ request.pid = enrol[req[r].user] /\ request.user = req[r].user
          BY <3>1 DEF Request
        <4> HIDE DEF request
        <4> QED
          BY <1>2, <2>0, <4>1, <4>2
      <3>4. CASE UpdateLoad(r)
        <4>1. PICK c, l : req' = [req EXCEPT ![r].pc = "save", ![r].closed = c, ![r].locked = l]
          BY <2>2, <3>4 DEF UpdateLoad
        <4>2. /\ req' = [req EXCEPT ![r] = [req[r] EXCEPT !.pc = "save", !.closed = c, !.locked = l]]
              /\ [req[r] EXCEPT !.pc = "save", !.closed = c, !.locked = l].pc = "save"
          BY <3>1, <4>1 DEF Request
        <4> QED
          BY <1>2, <2>0, <4>2
      <3> QED
        BY <1>7, <2>2, <3>2, <3>3, <3>4 DEF RequestStep, AddInsert, CreateNameTaken, LeaveRemove,
           DeleteDrop, UpdateSave, UpdateNameTaken, Reject
    <2> QED
      BY <2>1, <2>2
  <1> QED
    BY <1>4, <1>5, <1>6, <1>7 DEF Next

\* No group goes.
LEMMA GroupsAreKept ==
    ASSUME LedgerInv, Kept, Next
    PROVE  groups' = created'
  <1>0. /\ groups = created /\ RequestsConsistent /\ ClosersConsistent
        /\ \A r \in Requests : ~DeleteDrop(r)
    BY DEF LedgerInv, IndInv, DeleteDrop, At
  <1>1. ASSUME NEW r \in Requests, StartRequest(r)
        PROVE  groups' = created'
    <2>1. \E request : Begin(r, request)
      BY <1>1 DEF StartRequest, StartJoin, StartLeave, StartRandom, StartCreate, StartDelete, StartUpdate
    <2> QED
      BY <1>0, <2>1 DEF Begin, groupVars
  <1>2. ASSUME NEW r \in Requests, RequestStep(r)
        PROVE  groups' = created'
    <2>1. CASE UNCHANGED groupVars
      BY <1>0, <2>1 DEF groupVars
    <2>2. CASE CreateInsert(r)
      BY <1>0, <2>2 DEF CreateInsert
    <2>3. CASE UpdateSave(r)
      BY <1>0, <2>3 DEF UpdateSave, SaveGroup, RequestsConsistent, At
    <2> QED
      BY <1>0, <1>2, <2>1, <2>2, <2>3 DEF RequestStep, JoinSelectParticipant, JoinCheckGroup, AddLookup,
         AddInsert, RandomChoose, CreateNameTaken, LeaveRemove, UpdateLoad, UpdateNameTaken, Reject,
         DataUnchanged
  <1>3. CASE CloserStep
    BY <1>0, <1>3 DEF CloserStep, CloserCheck, CloserLoad, CloserSave, SaveGroup, ClosersConsistent, groupVars
  <1>4. CASE CourseStep
    BY <1>0, <1>4 DEF CourseStep, JoinCourse, LeaveCourse, CreateMultipleGroups, SetCourseClosed, groupVars
  <1> QED
    BY <1>1, <1>2, <1>3, <1>4 DEF Next

\* A step publishes what it does to the relations.
LEMMA LedgerStep ==
    ASSUME LedgerInv, Kept, Next, IndInv', NEW u \in Users, NEW g \in GroupIds
    PROVE  Published("joined", u, g)' - Published("left", u, g)' = Cardinality(RowsOf(u, g)')
  <1>0. /\ IndInv /\ TypeOK /\ groups = created /\ \A r \in Requests : ~DeleteDrop(r)
        /\ Published("joined", u, g) - Published("left", u, g) = Cardinality(RowsOf(u, g))
    BY DEF LedgerInv, IndInv, DeleteDrop, At
  <1>1. CASE UNCHANGED <<rel, events>>
    BY <1>0, <1>1 DEF Published, RowsOf
  <1>2. ASSUME NEW r \in Requests, StartRequest(r)
        PROVE  UNCHANGED <<rel, events>>
    <2>1. \E request : Begin(r, request)
      BY <1>2 DEF StartRequest, StartJoin, StartLeave, StartRandom, StartCreate, StartDelete, StartUpdate
    <2> QED
      BY <2>1 DEF Begin
  <1>3. ASSUME CloserStep \/ CourseStep
        PROVE  UNCHANGED <<rel, events>>
    BY <1>3 DEF CloserStep, CloserCheck, CloserLoad, CloserSave, CourseStep, JoinCourse, LeaveCourse,
                CreateMultipleGroups, SetCourseClosed, Kept
  <1>4. ASSUME NEW r \in Requests, RequestStep(r)
        PROVE  UNCHANGED <<rel, events>> \/ AddInsert(r) \/ LeaveRemove(r)
    BY <1>0, <1>4 DEF RequestStep, JoinSelectParticipant, JoinCheckGroup, AddLookup, RandomChoose,
       CreateInsert, CreateNameTaken, UpdateLoad, UpdateSave, UpdateNameTaken, Reject, DataUnchanged
  <1>5. /\ Cardinality(RowsOf(u, g)) = IF RowsOf(u, g) = {} THEN 0 ELSE 1
        /\ Cardinality(RowsOf(u, g)') = IF RowsOf(u, g)' = {} THEN 0 ELSE 1
    <2>1. RelationsUnique /\ RelationsReferToLiveRows
      BY <1>0 DEF IndInv
    <2>2. \A x, y \in rel' : x.user = y.user => x = y
      BY DEF IndInv, RelationsUnique, RelationsReferToLiveRows
    <2>3. CASE RowsOf(u, g)' = {}
      BY <2>1, <2>3, RowsAreFew, FS_EmptySet
    <2>4. CASE RowsOf(u, g)' # {}
      <3>1. PICK x : RowsOf(u, g)' = {x}
        BY <2>2, <2>4 DEF RowsOf
      <3> QED
        BY <2>1, <2>4, <3>1, RowsAreFew, FS_Singleton
    <2> QED
      BY <2>3, <2>4
  <1>6. ASSUME NEW r \in Requests, AddInsert(r)
        PROVE  Published("joined", u, g)' - Published("left", u, g)' = Cardinality(RowsOf(u, g)')
    <2>1. CASE Reject(r)
      BY <1>1, <2>1 DEF Reject, DataUnchanged
    <2>2. CASE ~Reject(r)
      <3> DEFINE row == [pid |-> req[r].pid, user |-> req[r].user, group |-> req[r].group]
                 event == [kind |-> "joined", user |-> req[r].user, group |-> req[r].group]
      <3>1. /\ req[r] \in Request /\ req[r].pc = "insert" /\ req[r].group \in created
            /\ enrol[req[r].user] = req[r].pid
        BY <1>0, <1>6, BusySlot DEF AddInsert, At, LedgerInv, IndInv, RequestsConsistent
      <3>2. ReferencesExist(r)
        BY <1>0, <3>1 DEF ReferencesExist
      <3>3. rel' = rel \cup {row} /\ events' = Append(events, event) /\ ~UniqueViolation(r)
        BY <1>6, <2>2, <3>2 DEF AddInsert, Publish
      <3>4. event \in Event /\ events \in Seq(Event)
        BY <1>0, <3>1 DEF Event, Request, TypeOK, IndInv
      <3>5. event.kind = "joined" /\ event.user = req[r].user /\ event.group = req[r].group
        OBVIOUS
      <3>6. row.user = req[r].user /\ row.group = req[r].group
        OBVIOUS
      <3>7. event = [kind |-> "joined", user |-> u, group |-> g] <=> req[r].user = u /\ req[r].group = g
        OBVIOUS
      <3>8. event # [kind |-> "left", user |-> u, group |-> g]
        OBVIOUS
      <3> HIDE DEF row, event
      <3>9. /\ Published("left", u, g) \in Nat /\ Published("left", u, g)' = Published("left", u, g)
            /\ Published("joined", u, g) \in Nat
            /\ Published("joined", u, g)' = IF req[r].user = u /\ req[r].group = g
                                            THEN Published("joined", u, g) + 1
                                            ELSE Published("joined", u, g)
        BY <3>3, <3>4, <3>7, <3>8, PublishedOneMore
      <3>10. CASE req[r].user = u /\ req[r].group = g
        <4>1. RowsOf(u, g) = {} /\ RowsOf(u, g)' # {}
          BY <3>3, <3>6, <3>10 DEF UniqueViolation, RowsOf
        <4> QED
          BY <1>0, <1>5, <3>9, <3>10, <4>1
      <3>11. CASE ~(req[r].user = u /\ req[r].group = g)
        <4>1. RowsOf(u, g)' = RowsOf(u, g)
          BY <3>3, <3>6, <3>11 DEF RowsOf
        <4> QED
          BY <1>0, <3>9, <3>11, <4>1
      <3> QED
        BY <3>10, <3>11
    <2> QED
      BY <2>1, <2>2
  <1>7. ASSUME NEW r \in Requests, LeaveRemove(r)
        PROVE  Published("joined", u, g)' - Published("left", u, g)' = Cardinality(RowsOf(u, g)')
    <2>1. CASE Reject(r)
      BY <1>1, <2>1 DEF Reject, DataUnchanged
    <2>2. CASE ~Reject(r)
      <3> DEFINE event == [kind |-> "left", user |-> req[r].user, group |-> req[r].group]
      <3>1. req[r] \in Request /\ req[r].pc = "remove" /\ req[r].group \in created
        BY <1>0, <1>7, BusySlot DEF LeaveRemove, At, LedgerInv, IndInv, RequestsConsistent
      <3>2. /\ RowsOf(req[r].user, req[r].group) # {}
            /\ rel' = rel \ RowsOf(req[r].user, req[r].group)
            /\ events' = Append(events, event)
        BY <1>7, <2>2 DEF LeaveRemove, Publish, RowsOf
      <3>3. event \in Event /\ events \in Seq(Event)
        BY <1>0, <3>1 DEF Event, Request, TypeOK, IndInv
      <3>4. event = [kind |-> "left", user |-> u, group |-> g] <=> req[r].user = u /\ req[r].group = g
        OBVIOUS
      <3>5. event # [kind |-> "joined", user |-> u, group |-> g]
        OBVIOUS
      <3> HIDE DEF event
      <3>6. /\ Published("joined", u, g) \in Nat /\ Published("joined", u, g)' = Published("joined", u, g)
            /\ Published("left", u, g) \in Nat
            /\ Published("left", u, g)' = IF req[r].user = u /\ req[r].group = g
                                          THEN Published("left", u, g) + 1
                                          ELSE Published("left", u, g)
        BY <3>2, <3>3, <3>4, <3>5, PublishedOneMore
      <3>7. CASE req[r].user = u /\ req[r].group = g
        <4>1. RowsOf(u, g) # {} /\ RowsOf(u, g)' = {}
          BY <3>2, <3>7 DEF RowsOf
        <4> QED
          BY <1>0, <1>5, <3>6, <3>7, <4>1
      <3>8. CASE ~(req[r].user = u /\ req[r].group = g)
        <4>1. RowsOf(u, g)' = RowsOf(u, g)
          BY <3>2, <3>8 DEF RowsOf
        <4> QED
          BY <1>0, <3>6, <3>8, <4>1
      <3> QED
        BY <3>7, <3>8
    <2> QED
      BY <2>1, <2>2
  <1> QED
    BY <1>1, <1>2, <1>3, <1>4, <1>6, <1>7 DEF Next

\* Where groups are not deleted and nobody leaves the course, UserJoinedGroupEvent
\* and UserLeftGroupEvent add up to the relations of the groups.
THEOREM LedgerIsTrue == Spec => []LedgerMatchesRelations
  <1>1. Init /\ Kept => LedgerInv
    <2> SUFFICES ASSUME Init
                 PROVE  LedgerInv
      OBVIOUS
    <2>1. IndInv
      BY InitIndInv
    <2>2. ASSUME NEW u \in Users, NEW g \in GroupIds
          PROVE  Published("joined", u, g) - Published("left", u, g) = Cardinality(RowsOf(u, g))
      <3>1. \A kind : {i \in DOMAIN events : events[i] = [kind |-> kind, user |-> u, group |-> g]} = {}
        BY DEF Init
      <3>2. RowsOf(u, g) = {}
        BY DEF Init, RowsOf
      <3>3. \A kind : Published(kind, u, g) = 0
        BY <3>1, FS_EmptySet DEF Published
      <3> QED
        BY <3>2, <3>3, FS_EmptySet
    <2> QED
      BY <2>1, <2>2 DEF LedgerInv, Init, Idle
  <1>2. LedgerInv /\ [Next]_vars /\ Kept => LedgerInv'
    <2> SUFFICES ASSUME LedgerInv, [Next]_vars, Kept
                 PROVE  LedgerInv'
      OBVIOUS
    <2>1. IndInv'
      BY NextIndInv DEF LedgerInv
    <2>2. CASE UNCHANGED vars
      BY <2>1, <2>2 DEF LedgerInv, Published, RowsOf, vars
    <2>3. CASE Next
      BY <2>1, <2>3, LedgerRequests, GroupsAreKept, LedgerStep DEF LedgerInv
    <2> QED
      BY <2>2, <2>3
  <1>3. (Kept => LedgerInv) => LedgerMatchesRelations
    BY DEF LedgerInv, LedgerMatchesRelations, RowsOf, Kept
  <1> DEFINE Ledger == Kept => LedgerInv
  <1>4. Init => Ledger
    BY <1>1
  <1>5. Ledger /\ [Next]_vars => Ledger'
    BY <1>2 DEF Kept
  <1>6. Ledger => LedgerMatchesRelations
    BY <1>3
  <1> HIDE DEF Ledger
  <1> QED
    BY <1>4, <1>5, <1>6, PTL DEF Spec
=============================================================================
