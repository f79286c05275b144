----------------------- MODULE AssignmentSchedulerProofs -----------------------
(***************************************************************************)
(* Proofs about AssignmentScheduler, for every value of its constants: the *)
(* types, and that a first start registers the groups.                     *)
(***************************************************************************)
EXTENDS AssignmentScheduler, TLAPS

WF == INSTANCE WellFoundedInduction

-----------------------------------------------------------------------------
(* Lemmas about the bags of calls in flight *)

\* One more call: all others are as before.
LEMMA Added ==
    ASSUME NEW B, IsABag(B), NEW x
    PROVE  /\ IsABag(BagAdd(B, x))
           /\ BagToSet(BagAdd(B, x)) = BagToSet(B) \cup {x}
           /\ \A y \in BagToSet(B) \ {x} : BagAdd(B, x)[y] = B[y]
           /\ x \notin BagToSet(B) => BagAdd(B, x)[x] = 1
  <1>1. CASE x \in DOMAIN B
    <2>1. BagAdd(B, x) = [e \in DOMAIN B |-> IF e = x THEN B[e] + 1 ELSE B[e]]
      BY <1>1 DEF BagAdd
    <2> QED
      BY <1>1, <2>1 DEF IsABag, BagToSet
  <1>2. CASE x \notin DOMAIN B
    <2>1. BagAdd(B, x) = [e \in DOMAIN B \cup {x} |-> IF e = x THEN 1 ELSE B[e]]
      BY <1>2 DEF BagAdd
    <2> QED
      BY <1>2, <2>1 DEF IsABag, BagToSet
  <1> QED
    BY <1>1, <1>2

\* One call less: it is gone if it was the only one of its kind.
LEMMA Removed ==
    ASSUME NEW B, IsABag(B), NEW x \in BagToSet(B)
    PROVE  /\ IsABag(BagRemove(B, x))
           /\ BagToSet(BagRemove(B, x)) \subseteq BagToSet(B)
           /\ BagToSet(B) \ {x} \subseteq BagToSet(BagRemove(B, x))
           /\ \A y \in BagToSet(B) \ {x} : BagRemove(B, x)[y] = B[y]
           /\ B[x] = 1 => x \notin BagToSet(BagRemove(B, x))
  <1>1. CASE B[x] = 1
    BY <1>1 DEF IsABag, BagRemove, BagToSet
  <1>2. CASE B[x] # 1
    BY <1>2 DEF IsABag, BagRemove, BagToSet
  <1> QED
    BY <1>1, <1>2

\* A call goes on to its next step.
LEMMA Stepped ==
    ASSUME NEW B, IsABag(B), NEW x \in BagToSet(B), NEW y
    PROVE  /\ IsABag(Becomes(B, x, y))
           /\ BagToSet(Becomes(B, x, y)) \subseteq BagToSet(B) \cup {y}
           /\ BagToSet(B) \ {x} \subseteq BagToSet(Becomes(B, x, y))
           /\ y \in BagToSet(Becomes(B, x, y))
           /\ \A z \in BagToSet(B) \ {x, y} : Becomes(B, x, y)[z] = B[z]
           /\ B[x] = 1 /\ x # y => x \notin BagToSet(Becomes(B, x, y))
           /\ y \notin BagToSet(B) => Becomes(B, x, y)[y] = 1
  <1> DEFINE C == BagRemove(B, x)
  <1>1. /\ IsABag(C)
        /\ BagToSet(C) \subseteq BagToSet(B)
        /\ BagToSet(B) \ {x} \subseteq BagToSet(C)
        /\ \A z \in BagToSet(B) \ {x} : C[z] = B[z]
        /\ B[x] = 1 => x \notin BagToSet(C)
    BY Removed
  <1> HIDE DEF C
  <1>2. /\ IsABag(BagAdd(C, y))
        /\ BagToSet(BagAdd(C, y)) = BagToSet(C) \cup {y}
        /\ \A z \in BagToSet(C) \ {y} : BagAdd(C, y)[z] = C[z]
        /\ y \notin BagToSet(C) => BagAdd(C, y)[y] = 1
    BY <1>1, Added
  <1>3. Becomes(B, x, y) = BagAdd(C, y)
    BY DEF Becomes, C
  <1> HIDE DEF Becomes
  <1> QED
    BY <1>1, <1>2, <1>3

\* One call for each element of a set.
LEMMA AddedAll ==
    ASSUME NEW B, IsABag(B), NEW S
    PROVE  /\ IsABag(B (+) SetToBag(S))
           /\ BagToSet(B (+) SetToBag(S)) = BagToSet(B) \cup S
           /\ \A x \in BagToSet(B) \ S : (B (+) SetToBag(S))[x] = B[x]
           /\ \A x \in S \ BagToSet(B) : (B (+) SetToBag(S))[x] = 1
  BY DEF IsABag, BagToSet, SetToBag, (+)

\* The calls with which the process starts.
LEMMA Started ==
    ASSUME NEW S
    PROVE  /\ IsABag(SetToBag(S)) /\ BagToSet(SetToBag(S)) = S
           /\ \A x \in S : SetToBag(S)[x] = 1
           /\ IsABag(EmptyBag) /\ BagToSet(EmptyBag) = {}
  BY DEF IsABag, BagToSet, SetToBag, EmptyBag

-----------------------------------------------------------------------------
(* Types *)

Sound(u, ids) ==
    /\ u \in Update
    /\ u.id \in ids
    /\ u.pc # "load" => u.values \in Row
    /\ u.pc \in {"check", "register"} => u.id \in Collab
    /\ u.by = "create" => u.pc = "register"
    /\ u.by = "job" => u.change \in [{"state"} -> {"IN_PROGRESS", "IN_REVIEW"}]

TableOK ==
    /\ row \in [Assignments -> Row \cup {None}]
    /\ made \subseteq Assignments
    /\ \A a \in Assignments \ made : row[a] = None
    /\ registered \subseteq {a \in Collab : row[a] # None}
    /\ tried \subseteq Assignments

TimersOK == now \in 0 .. MaxTime /\ startTimer \in Date /\ stopTimer \in Date

RunsOK == IsABag(runs) /\ BagToSet(runs) \subseteq Run

JobsOK == IsABag(jobs) /\ BagToSet(jobs) \subseteq Job

UpdatesOK == IsABag(updates) /\ \A u \in BagToSet(updates) : Sound(u, made)

\* The invariant, variable by variable.
LEMMA Parts == SchedulerInv <=> TableOK /\ TimersOK /\ RunsOK /\ JobsOK /\ UpdatesOK
  BY DEF SchedulerInv, TypeOK, UpdatesConsistent, TableOK, TimersOK, RunsOK, JobsOK,
         UpdatesOK, Sound

\* The same, a step later.
LEMMA PartsNext ==
    ASSUME TableOK', TimersOK', RunsOK', JobsOK', UpdatesOK'
    PROVE  SchedulerInv'
  BY Parts, PTL

\* A clock reading is a natural number, and dates are integers.
LEMMA Numbers ==
    /\ Date \subseteq Int /\ NoDate = -1 /\ Unread = -2 /\ Unread \notin Date
    /\ MaxTime \in Nat \ {0}
    /\ Dates \subseteq Nat /\ Date = Dates \cup {NoDate}
  BY ConstantsAssumption DEF Date, Dates, NoDate, Unread

\* The next date of a set is one of its dates that is not over, or there is none.
LEMMA NextDateIsAhead ==
    ASSUME NEW dates, dates \subseteq Date, NEW cut \in Nat
    PROVE  /\ NextDate(dates, cut) \in Date
           /\ NextDate(dates, cut) # NoDate => NextDate(dates, cut) >= cut
  <1> DEFINE ahead == {d \in dates : d >= cut}
  <1>1. NextDate(dates, cut) = IF ahead = {} THEN NoDate ELSE Min(ahead)
    BY DEF NextDate
  <1>2. ahead \subseteq Nat /\ \A d \in ahead : d \in Date /\ d >= cut
    <2> SUFFICES ASSUME NEW d \in ahead
                 PROVE  d \in Nat /\ d \in Date /\ d >= cut
      OBVIOUS
    <2>1. d \in Date /\ d >= cut
      OBVIOUS
    <2> QED
      BY <2>1, Numbers
  <1>3. ASSUME ahead # {}
        PROVE  Min(ahead) \in ahead
    <2> HIDE DEF ahead
    <2>1. \E x \in ahead : \A y \in ahead : ~(<<y, x>> \in WF!OpToRel(<, Nat))
      BY <1>2, <1>3, WF!NatLessThanWellFounded, WF!WFMin
    <2>2. PICK x \in ahead : \A y \in ahead : ~(y < x)
      BY <1>2, <2>1 DEF WF!OpToRel
    <2>3. \A y \in ahead : x <= y
      BY <1>2, <2>2
    <2> QED
      BY <2>3 DEF Min
  <1> HIDE DEF ahead
  <1> QED
    BY <1>1, <1>2, <1>3, Numbers

\* What the two queries of a scheduling run return.
LEMMA QueriesReturnDates ==
    ASSUME TableOK, NEW cut \in Nat
    PROVE  /\ NextStart(cut) \in Date /\ (NextStart(cut) # NoDate => NextStart(cut) >= cut)
           /\ NextStop(cut) \in Date /\ (NextStop(cut) # NoDate => NextStop(cut) >= cut)
  <1>1. \A a \in Assignments : Exists(a) => row[a] \in Row
    BY DEF TableOK, Exists
  <1>2. {row[a].start : a \in {b \in Assignments : In(b, "INVISIBLE")}} \subseteq Date
    BY <1>1 DEF In, Row
  <1>3. {row[a].end : a \in {b \in Assignments : Exists(b)}} \subseteq Date
    BY <1>1 DEF Row
  <1> QED
    BY <1>2, <1>3, NextDateIsAhead DEF NextStart, NextStop

\* An event begins a run at this moment.
LEMMA Published ==
    ASSUME RunsOK, TimersOK, Publish
    PROVE  /\ RunsOK'
           /\ BagToSet(runs') = BagToSet(runs)
                \cup {[at |-> now, start |-> Unread, stop |-> Unread]}
  <1>1. [at |-> now, start |-> Unread, stop |-> Unread] \in Run
    BY ConstantsAssumption DEF Run, TimersOK
  <1> QED
    BY <1>1, Added DEF RunsOK, Publish

\* Variables that a step leaves alone keep their parts of the invariant.
LEMMA Untouched ==
    /\ TableOK /\ UNCHANGED table => TableOK'
    /\ TimersOK /\ UNCHANGED <<now, timers>> => TimersOK'
    /\ RunsOK /\ UNCHANGED runs => RunsOK'
    /\ JobsOK /\ UNCHANGED jobs => JobsOK'
    /\ UpdatesOK /\ UNCHANGED <<updates, made>> => UpdatesOK'
  BY DEF TableOK, TimersOK, RunsOK, JobsOK, UpdatesOK, table, timers

\* A step that keeps the ids keeps what it says of updates, one by one.
LEMMA UpdatesStay ==
    ASSUME UpdatesOK, made \subseteq made', IsABag(updates'),
           \A u \in BagToSet(updates') : u \in BagToSet(updates) \/ Sound(u, made')
    PROVE  UpdatesOK'
  BY DEF UpdatesOK, Sound

\* Initially.
LEMMA InitTypes == Init => SchedulerInv
  <1> SUFFICES ASSUME Init
               PROVE  TableOK /\ TimersOK /\ RunsOK /\ JobsOK /\ UpdatesOK
    BY Parts
  <1>1. TableOK
    BY ConstantsAssumption DEF Init, TableOK, Exists, InProgress
  <1>2. TimersOK
    BY Numbers DEF Init, TimersOK
  <1>3. RunsOK
    <2>1. [at |-> 0, start |-> Unread, stop |-> Unread] \in Run
      BY DEF Run
    <2> QED
      BY <2>1, Started DEF Init, BootRuns, RunsOK
  <1>4. JobsOK
    <2>1. [kind |-> "start", at |-> 0] \in Job /\ [kind |-> "stop", at |-> 0] \in Job
      BY DEF Job
    <2> QED
      BY <2>1, Started DEF Init, BootJobs, JobsOK
  <1>5. UpdatesOK
    BY Started DEF Init, UpdatesOK
  <1> QED
    BY <1>1, <1>2, <1>3, <1>4, <1>5

\* Scheduling runs and timers.
LEMMA RunTypes ==
    ASSUME SchedulerInv, NEW r \in BagToSet(runs),
           RunReadStart(r) \/ RunReadStop(r) \/ RunArm(r)
    PROVE  SchedulerInv'
  <1> USE Parts
  <1>1. r \in Run /\ IsABag(runs)
    BY DEF RunsOK
  <1>2. CASE RunReadStart(r)
    <2>1. [r EXCEPT !.start = NextStart(r.at)] \in Run
      BY <1>1, QueriesReturnDates DEF Run
    <2>2. RunsOK'
      BY <1>1, <1>2, <2>1, Stepped DEF RunReadStart, RunsOK
    <2> QED
      BY <1>2, <2>2, Untouched, PartsNext DEF RunReadStart, table, timers
  <1>3. CASE RunReadStop(r)
    <2>1. [r EXCEPT !.stop = NextStop(r.at)] \in Run
      BY <1>1, QueriesReturnDates DEF Run
    <2>2. RunsOK'
      BY <1>1, <1>3, <2>1, Stepped DEF RunReadStop, RunsOK
    <2> QED
      BY <1>3, <2>2, Untouched, PartsNext DEF RunReadStop, table, timers
  <1>4. CASE RunArm(r)
    <2>1. \A date \in Date : Armed(date) \in Date
      BY Numbers, ConstantsAssumption DEF Armed, TimersOK, Dates
    <2>2. TimersOK'
      BY <1>1, <1>4, <2>1 DEF RunArm, TimersOK, Run
    <2>3. RunsOK'
      BY <1>1, <1>4, Removed DEF RunArm, RunsOK
    <2> QED
      BY <1>4, <2>2, <2>3, Untouched, PartsNext DEF RunArm, table
  <1> QED
    BY <1>2, <1>3, <1>4

\* A timer expires, and its job begins.
LEMMA FireTypes ==
    ASSUME SchedulerInv, FireStart \/ FireStop
    PROVE  SchedulerInv'
  <1> USE Parts
  <1>1. \A kind \in {"start", "stop"} : [kind |-> kind, at |-> now] \in Job
    BY ConstantsAssumption DEF Job, TimersOK
  <1>2. JobsOK'
    BY <1>1, Added DEF JobsOK, FireStart, FireStop
  <1>3. TimersOK'
    BY Numbers DEF TimersOK, FireStart, FireStop
  <1> QED
    BY <1>2, <1>3, Untouched, PartsNext DEF FireStart, FireStop, table

\* A new update of an assignment that is there.
LEMMA NewUpdateIsSound ==
    ASSUME SchedulerInv, NEW a \in Assignments, Exists(a), NEW by \in {"client", "job"},
           NEW change \in Change,
           by = "job" => change \in [{"state"} -> {"IN_PROGRESS", "IN_REVIEW"}]
    PROVE  Sound(NewUpdate(a, by, change), made)
  <1>1. row[a] \in Row /\ a \in made
    BY Parts DEF TableOK, Exists
  <1>2. row[a].state \in AssignmentState
    BY <1>1 DEF Row
  <1>3. NewUpdate(a, by, change) \in Update
    BY <1>2 DEF NewUpdate, Update
  <1> QED
    BY <1>1, <1>3 DEF Sound, NewUpdate

\* What a job finds and what it makes of it.
Found(j) == {a \in Assignments : IF j.kind = "start" THEN ShouldBeStarted(a, j.at)
                                                     ELSE ShouldBeStopped(a, j.at)}
JobChange(j) == [state |-> IF j.kind = "start" THEN "IN_PROGRESS" ELSE "IN_REVIEW"]
JobUpdates(j) == {NewUpdate(a, "job", JobChange(j)) : a \in Found(j)}

\* The job's step in these words.
LEMMA JobFindAdds ==
    ASSUME NEW j, JobFind(j)
    PROVE  /\ updates' = updates (+) SetToBag(JobUpdates(j))
           /\ jobs' = BagRemove(jobs, j)
           /\ UNCHANGED <<now, row, made, registered, tried, startTimer, stopTimer, runs>>
  BY DEF JobFind, JobUpdates, JobChange, Found, table, timers

\* A job's change is one of the two.
LEMMA JobChangesState ==
    ASSUME NEW j \in Job
    PROVE  /\ JobChange(j) \in [{"state"} -> {"IN_PROGRESS", "IN_REVIEW"}]
           /\ JobChange(j) \in Change
           /\ JobChange(j).state = IF j.kind = "start" THEN "IN_PROGRESS" ELSE "IN_REVIEW"
  BY DEF JobChange, Change, AssignmentState, Job

\* A job looks for its assignments.
LEMMA JobTypes ==
    ASSUME SchedulerInv, NEW j \in BagToSet(jobs), JobFind(j)
    PROVE  SchedulerInv'
  <1> USE Parts
  <1>1. j \in Job /\ IsABag(jobs)
    BY DEF JobsOK
  <1>2. JobsOK'
    BY <1>1, JobFindAdds, Removed DEF JobsOK
  <1>3. ASSUME NEW u \in JobUpdates(j)
        PROVE  Sound(u, made)
    <2>1. PICK a \in Found(j) : u = NewUpdate(a, "job", JobChange(j))
      BY <1>3 DEF JobUpdates
    <2>2. a \in Assignments /\ Exists(a)
      BY DEF Found, ShouldBeStarted, ShouldBeStopped, In
    <2> QED
      BY <1>1, <2>1, <2>2, JobChangesState, NewUpdateIsSound
  <1>4. /\ IsABag(updates')
        /\ BagToSet(updates') = BagToSet(updates) \cup JobUpdates(j)
    BY JobFindAdds, AddedAll DEF UpdatesOK
  <1>5. UpdatesOK'
    BY <1>3, <1>4, JobFindAdds, UpdatesStay
  <1> QED
    BY <1>2, <1>5, JobFindAdds, Untouched, PartsNext DEF table, timers

\* AssignmentGuard lets a request to an assignment that is there in.
LEMMA PatchTypes ==
    ASSUME SchedulerInv, NEW a \in Assignments, NEW change \in Changes, StartPatch(a, change)
    PROVE  SchedulerInv'
  <1> USE Parts
  <1>1. Sound(NewUpdate(a, "client", change), made)
    BY ConstantsAssumption, NewUpdateIsSound DEF StartPatch
  <1>2. UpdatesOK'
    <2>1. /\ IsABag(updates')
          /\ BagToSet(updates') = BagToSet(updates) \cup {NewUpdate(a, "client", change)}
          /\ made' = made
      BY Added DEF StartPatch, UpdatesOK, table
    <2> QED
      BY <1>1, <2>1, UpdatesStay
  <1> QED
    BY <1>2, Untouched, PartsNext DEF StartPatch, table, timers

\* The columns that an update will write: those of the change, the others as loaded.
LEMMA LoadedIsRow ==
    ASSUME NEW old \in Row, NEW change \in Change
    PROVE  [c \in DOMAIN old |-> IF c \in DOMAIN change THEN change[c] ELSE old[c]] \in Row
  <1> DEFINE new == [c \in {"state", "start", "end"} |->
                        IF c \in DOMAIN change THEN change[c] ELSE old[c]]
  <1>1. /\ DOMAIN old = {"state", "start", "end"}
        /\ old.state \in AssignmentState /\ old.start \in Date /\ old.end \in Date
    BY DEF Row
  <1>2. /\ new.state \in AssignmentState /\ new.start \in Date /\ new.end \in Date
    <2>1. CASE change \in [{"state"} -> AssignmentState]
      BY <1>1, <2>1
    <2>2. CASE change \in [{"start"} -> Date]
      BY <1>1, <2>2
    <2>3. CASE change \in [{"end"} -> Date]
      BY <1>1, <2>3
    <2> QED
      BY <2>1, <2>2, <2>3 DEF Change
  <1>3. new = [state |-> new.state, start |-> new.start, end |-> new.end]
    OBVIOUS
  <1>4. new \in Row
    BY <1>2, <1>3 DEF Row
  <1> QED
    BY <1>1, <1>4

\* updateAssignment of the repository loads the assignment, if it is still there.
LEMMA LoadTypes ==
    ASSUME SchedulerInv, NEW u \in BagToSet(updates), UpdateLoad(u)
    PROVE  SchedulerInv'
  <1> USE Parts
  <1>1. Sound(u, made) /\ IsABag(updates) /\ made' = made
    BY DEF UpdatesOK, UpdateLoad, table
  <1>2. CASE Exists(u.id)
    <2> DEFINE values == [c \in DOMAIN row[u.id] |->
                            IF c \in DOMAIN u.change THEN u.change[c] ELSE row[u.id][c]]
               v == [u EXCEPT !.pc = "save", !.values = values]
    <2>1. values \in Row
      BY <1>1, <1>2, LoadedIsRow DEF TableOK, Exists, Sound, Update
    <2>2. updates' = Becomes(updates, u, v)
      BY <1>2 DEF UpdateLoad
    <2> HIDE DEF values
    <2>3. Sound(v, made)
      BY <1>1, <2>1 DEF Sound, Update, UpdateLoad
    <2> HIDE DEF v
    <2>4. UpdatesOK'
      BY <1>1, <2>2, <2>3, Stepped, UpdatesStay
    <2> QED
      BY <2>4, Untouched, PartsNext DEF UpdateLoad, table, timers
  <1>3. CASE ~Exists(u.id)
    <2>1. UpdatesOK'
      BY <1>1, <1>3, Removed, UpdatesStay DEF UpdateLoad
    <2> QED
      BY <2>1, Untouched, PartsNext DEF UpdateLoad, table, timers
  <1> QED
    BY <1>2, <1>3

\* updateAssignment saves what it has loaded, and publishes.
LEMMA SaveTypes ==
    ASSUME SchedulerInv, NEW u \in BagToSet(updates), UpdateSave(u)
    PROVE  SchedulerInv'
  <1> USE Parts
  <1>1. /\ Sound(u, made) /\ IsABag(updates) /\ u.pc = "save" /\ u.values \in Row
        /\ u.id \in Assignments
    BY DEF UpdatesOK, UpdateSave, Sound, Update
  <1>2. TableOK'
    BY <1>1, ConstantsAssumption DEF UpdateSave, TableOK, Sound
  <1>3. CASE Registers(u)
    <2> DEFINE v == [u EXCEPT !.pc = "check"]
    <2>1. Sound(v, made)
      BY <1>1, <1>3 DEF Sound, Update, Registers
    <2>2. updates' = Becomes(updates, u, v) /\ made' = made /\ runs' = runs
      BY <1>3 DEF UpdateSave
    <2> HIDE DEF v
    <2>3. UpdatesOK'
      BY <1>1, <2>1, <2>2, Stepped, UpdatesStay
    <2> QED
      BY <1>2, <2>2, <2>3, Untouched, PartsNext DEF UpdateSave, timers
  <1>4. CASE ~Registers(u)
    <2>1. updates' = BagRemove(updates, u) /\ made' = made /\ Publish
      BY <1>4 DEF UpdateSave
    <2>2. UpdatesOK'
      BY <1>1, <2>1, Removed, UpdatesStay
    <2> QED
      BY <1>2, <2>1, <2>2, Published, Untouched, PartsNext DEF UpdateSave, timers
  <1> QED
    BY <1>3, <1>4

\* An update that has started an assignment looks whether it has registrations.
LEMMA CheckTypes ==
    ASSUME SchedulerInv, NEW u \in BagToSet(updates), UpdateCheck(u)
    PROVE  SchedulerInv'
  <1> USE Parts
  <1>1. Sound(u, made) /\ IsABag(updates) /\ u.pc = "check" /\ made' = made
    BY DEF UpdatesOK, UpdateCheck
  <1>0. TableOK'
    BY <1>1 DEF TableOK, UpdateCheck, Sound, Update
  <1>2. CASE u.id \in registered
    <2>1. updates' = BagRemove(updates, u) /\ Publish
      BY <1>2 DEF UpdateCheck
    <2>2. UpdatesOK'
      BY <1>1, <2>1, Removed, UpdatesStay
    <2> QED
      BY <1>0, <2>1, <2>2, Published, Untouched, PartsNext DEF UpdateCheck, timers
  <1>3. CASE u.id \notin registered
    <2> DEFINE v == [u EXCEPT !.pc = "register"]
    <2>1. Sound(v, made)
      BY <1>1 DEF Sound, Update
    <2>2. updates' = Becomes(updates, u, v) /\ runs' = runs
      BY <1>3 DEF UpdateCheck
    <2> HIDE DEF v
    <2>3. UpdatesOK'
      BY <1>1, <2>1, <2>2, Stepped, UpdatesStay
    <2> QED
      BY <1>0, <2>2, <2>3, Untouched, PartsNext DEF UpdateCheck, timers
  <1> QED
    BY <1>2, <1>3

\* The groups are registered, or that fails.
LEMMA RegisterTypes ==
    ASSUME SchedulerInv, NEW u \in BagToSet(updates), Register(u)
    PROVE  SchedulerInv'
  <1> USE Parts
  <1>1. /\ Sound(u, made) /\ IsABag(updates) /\ u.pc = "register"
        /\ row' = row /\ made' = made /\ updates' = BagRemove(updates, u)
    BY DEF UpdatesOK, Register
  <1>2. UpdatesOK'
    BY <1>1, Removed, UpdatesStay
  <1>3. TableOK'
    <2>1. registered' = registered \/ (Exists(u.id) /\ registered' = registered \cup {u.id})
      BY DEF Register
    <2>2. u.id \in Collab
      BY <1>1 DEF Sound
    <2> QED
      BY <1>1, <2>1, <2>2 DEF TableOK, Exists, Register, Sound, Update
  <1>4. RunsOK'
    <2>1. runs' = runs \/ Publish
      BY DEF Register
    <2> QED
      BY <2>1, Published, Untouched
  <1> QED
    BY <1>2, <1>3, <1>4, Untouched, PartsNext DEF Register, timers

\* Lecturers create and delete assignments.
LEMMA CreateTypes ==
    ASSUME SchedulerInv, NEW a \in Assignments, NEW new \in NewRows, CreateAssignment(a, new)
    PROVE  SchedulerInv'
  <1> USE Parts
  <1>1. new \in Row /\ new.state \in AssignmentState /\ IsABag(updates)
    BY ConstantsAssumption DEF Row, UpdatesOK
  <1>2. TableOK'
    BY <1>1, ConstantsAssumption DEF CreateAssignment, TableOK
  <1>3. UpdatesOK'
    <2> DEFINE v == [id |-> a, by |-> "create", pc |-> "register", oldState |-> new.state,
                     change |-> [state |-> new.state], values |-> new]
    <2>1. CASE new.state = "IN_PROGRESS" /\ a \in Collab
      <3>1. v \in Update
        <4>1. [state |-> new.state] \in Change
          BY <1>1 DEF Change
        <4> QED
          BY <1>1, <4>1 DEF Update
      <3>2. Sound(v, made') /\ made \subseteq made'
        BY <1>1, <2>1, <3>1 DEF Sound, CreateAssignment
      <3>3. updates' = BagAdd(updates, v)
        BY <2>1 DEF CreateAssignment
      <3> HIDE DEF v
      <3> QED
        BY <1>1, <3>2, <3>3, Added, UpdatesStay
    <2>2. CASE ~(new.state = "IN_PROGRESS" /\ a \in Collab)
      <3>1. updates' = updates /\ made \subseteq made'
        BY <2>2 DEF CreateAssignment
      <3> QED
        BY <1>1, <3>1, UpdatesStay
    <2> QED
      BY <2>1, <2>2
  <1> QED
    BY <1>2, <1>3, Published, Untouched, PartsNext DEF CreateAssignment, timers

\* deleteAssignment
LEMMA DeleteTypes ==
    ASSUME SchedulerInv, NEW a \in Assignments, DeleteAssignment(a)
    PROVE  SchedulerInv'
  <1> USE Parts
  <1>1. TableOK'
    BY DEF DeleteAssignment, TableOK
  <1> QED
    BY <1>1, Published, Untouched, PartsNext DEF DeleteAssignment, timers

\* Time goes on, and the process ends and starts again.
LEMMA TickTypes ==
    ASSUME SchedulerInv, Tick
    PROVE  SchedulerInv'
  <1>1. TimersOK'
    BY Parts, ConstantsAssumption DEF Tick, TimersOK, timers
  <1> QED
    BY <1>1, Parts, Untouched, PartsNext DEF Tick, table

\* The process ends and starts again with the tables.
LEMMA RestartTypes ==
    ASSUME SchedulerInv, Restart
    PROVE  SchedulerInv'
  <1> USE Parts
  <1>1. TimersOK'
    BY Numbers DEF Restart, TimersOK
  <1>2. RunsOK'
    <2>1. [at |-> now, start |-> Unread, stop |-> Unread] \in Run
      BY ConstantsAssumption DEF TimersOK, Run
    <2> QED
      BY <2>1, Started DEF Restart, BootRuns, RunsOK
  <1>3. JobsOK'
    <2>1. \A kind \in {"start", "stop"} : [kind |-> kind, at |-> now] \in Job
      BY ConstantsAssumption DEF TimersOK, Job
    <2> QED
      BY <2>1, Started DEF Restart, BootJobs, JobsOK
  <1>4. UpdatesOK'
    BY Started DEF Restart, UpdatesOK
  <1>5. TableOK'
    BY DEF Restart, TableOK, InProgress
  <1> QED
    BY <1>1, <1>2, <1>3, <1>4, <1>5, PartsNext

\* Every step keeps the types and what calls in flight carry.
LEMMA TypesStep == SchedulerInv /\ [Next]_vars => SchedulerInv'
  <1> SUFFICES ASSUME SchedulerInv, [Next]_vars
               PROVE  SchedulerInv'
    OBVIOUS
  <1>1. CASE UNCHANGED vars
    BY <1>1, Parts, Untouched, PartsNext DEF vars, table, timers
  <1>2. CASE ServerStep
    BY <1>2, RunTypes, FireTypes, JobTypes, LoadTypes, SaveTypes, CheckTypes, RegisterTypes
       DEF ServerStep
  <1>3. CASE LecturerStep
    BY <1>3, PatchTypes, CreateTypes, DeleteTypes DEF LecturerStep
  <1> QED
    BY <1>1, <1>2, <1>3, TickTypes, RestartTypes DEF Next

-----------------------------------------------------------------------------
(* The first start of an assignment *)

\* Nobody gets out of a registration but by having tried it.
LEMMA StillSettled ==
    ASSUME tried \subseteq tried',
           \A u \in BagToSet(updates) : u.pc \in {"check", "register"} =>
               \/ u \in BagToSet(updates')
               \/ u.id \in tried'
               \/ \E v \in BagToSet(updates') : v.id = u.id /\ v.pc \in {"check", "register"}
    PROVE  \A a : Settled(a) => Settled(a)'
  BY DEF Settled, Registering

\* What is left to show of a step: who is in progress now, and what updates have seen.
LEMMA ProgressStays ==
    ASSUME ProgressConsistent,
           \A a : Settled(a) => Settled(a)',
           \A a \in Collab : In(a, "IN_PROGRESS")' => In(a, "IN_PROGRESS") \/ Settled(a)',
           \A u \in BagToSet(updates') :
               u \in BagToSet(updates) \/ (SawProgress(u) => Settled(u.id)')
               \/ (u.id \in Collab /\ SawProgress(u) => Settled(u.id))
    PROVE  ProgressConsistent'
  <1>1. \A a \in Collab : In(a, "IN_PROGRESS")' => Settled(a)'
    BY DEF ProgressConsistent
  <1>2. \A u \in BagToSet(updates') : u.id \in Collab /\ SawProgress(u) => Settled(u.id)'
    BY DEF ProgressConsistent
  <1> QED
    BY <1>1, <1>2 DEF ProgressConsistent

\* Steps that leave rows and updates alone.
LEMMA OtherProgress ==
    ASSUME ProgressConsistent, UNCHANGED <<row, updates, tried>>
    PROVE  ProgressConsistent'
  BY DEF ProgressConsistent, Settled, Registering, In, Exists

\* A new update has seen what the table says.
LEMMA NewUpdateProgress ==
    ASSUME ProgressConsistent, NEW a \in Assignments, Exists(a), NEW by, NEW change
    PROVE  LET u == NewUpdate(a, by, change)
           IN  u.id \in Collab /\ SawProgress(u) => Settled(u.id)
  BY DEF NewUpdate, SawProgress, ProgressConsistent, In

\* The jobs start their updates.
LEMMA JobProgress ==
    ASSUME SchedulerInv, ProgressConsistent, NEW j \in BagToSet(jobs), JobFind(j)
    PROVE  ProgressConsistent'
  <1>1. BagToSet(updates') = BagToSet(updates) \cup JobUpdates(j)
    BY JobFindAdds, AddedAll, Parts DEF UpdatesOK
  <1>2. \A u \in JobUpdates(j) : u.id \in Collab /\ SawProgress(u) => Settled(u.id)
    BY NewUpdateProgress DEF JobUpdates, Found, ShouldBeStarted, ShouldBeStopped, In
  <1>3. row' = row /\ tried' = tried
    BY JobFindAdds
  <1>4. \A a : Settled(a) => Settled(a)'
    BY <1>1, <1>3, StillSettled
  <1>5. \A a : In(a, "IN_PROGRESS")' => In(a, "IN_PROGRESS")
    BY <1>3 DEF In, Exists
  <1> QED
    BY <1>1, <1>2, <1>4, <1>5, ProgressStays

\* A lecturer starts an update.
LEMMA PatchProgress ==
    ASSUME SchedulerInv, ProgressConsistent, NEW a \in Assignments, NEW change \in Changes,
           StartPatch(a, change)
    PROVE  ProgressConsistent'
  <1> DEFINE u == NewUpdate(a, "client", change)
  <1>1. u.id \in Collab /\ SawProgress(u) => Settled(u.id)
    BY NewUpdateProgress DEF StartPatch
  <1>2. updates' = BagAdd(updates, u) /\ row' = row /\ tried' = tried
    BY DEF StartPatch, table
  <1> HIDE DEF u
  <1>3. BagToSet(updates') = BagToSet(updates) \cup {u}
    BY <1>2, Added, Parts DEF UpdatesOK
  <1>4. \A b : Settled(b) => Settled(b)'
    BY <1>2, <1>3, StillSettled
  <1>5. \A b : In(b, "IN_PROGRESS")' => In(b, "IN_PROGRESS")
    BY <1>2 DEF In, Exists
  <1> QED
    BY <1>1, <1>3, <1>4, <1>5, ProgressStays

\* What an update loads and does not change is what the table says.
LEMMA LoadProgress ==
    ASSUME SchedulerInv, ProgressConsistent, NEW u \in BagToSet(updates), UpdateLoad(u)
    PROVE  ProgressConsistent'
  <1>1. Sound(u, made) /\ IsABag(updates) /\ u.pc = "load" /\ row' = row /\ tried' = tried
    BY Parts DEF UpdatesOK, UpdateLoad, table
  <1>2. \A a : In(a, "IN_PROGRESS")' => In(a, "IN_PROGRESS")
    BY <1>1 DEF In, Exists
  <1>3. CASE ~Exists(u.id)
    <2>1. updates' = BagRemove(updates, u)
      BY <1>3 DEF UpdateLoad
    <2>2. /\ BagToSet(updates') \subseteq BagToSet(updates)
          /\ BagToSet(updates) \ {u} \subseteq BagToSet(updates')
      BY <1>1, <2>1, Removed
    <2>3. \A a : Settled(a) => Settled(a)'
      BY <1>1, <2>2, StillSettled
    <2> QED
      BY <1>2, <2>2, <2>3, ProgressStays
  <1>4. CASE Exists(u.id)
    <2> DEFINE values == [c \in DOMAIN row[u.id] |->
                  IF c \in DOMAIN u.change THEN u.change[c] ELSE row[u.id][c]]
               v == [u EXCEPT !.pc = "save", !.values = values]
    <2>1. updates' = Becomes(updates, u, v)
      BY <1>4 DEF UpdateLoad
    <2>2. u \in Update /\ u.id \in Assignments
      BY <1>1 DEF Sound, Update
    <2>3. row[u.id] \in Row
      BY <1>4, <2>2, Parts DEF TableOK, Exists
    <2>4. "state" \notin DOMAIN u.change => values.state = row[u.id].state
      BY <2>3 DEF Row
    <2> HIDE DEF values
    <2>5. /\ v.id = u.id /\ v.oldState = u.oldState /\ v.change = u.change
          /\ v.values = values
      BY <2>2 DEF Update
    <2>6. SawProgress(v) => SawProgress(u) \/ In(u.id, "IN_PROGRESS")
      BY <1>4, <2>4, <2>5 DEF SawProgress, In
    <2>7. v.id \in Collab /\ SawProgress(v) => Settled(v.id)
      BY <2>5, <2>6 DEF ProgressConsistent
    <2> HIDE DEF v
    <2>8. /\ BagToSet(updates') \subseteq BagToSet(updates) \cup {v}
          /\ BagToSet(updates) \ {u} \subseteq BagToSet(updates')
      BY <1>1, <2>1, Stepped
    <2>9. \A a : Settled(a) => Settled(a)'
      BY <1>1, <2>8, StillSettled
    <2> QED
      BY <1>2, <2>7, <2>8, <2>9, ProgressStays
  <1> QED
    BY <1>3, <1>4

\* A save that sets an assignment to IN_PROGRESS goes on to its registration, or has
\* seen it in progress before.
LEMMA SaveProgress ==
    ASSUME SchedulerInv, ProgressConsistent, NEW u \in BagToSet(updates), UpdateSave(u)
    PROVE  ProgressConsistent'
  <1>1. /\ Sound(u, made) /\ IsABag(updates) /\ u.pc = "save" /\ tried' = tried
        /\ u \in Update /\ u.id \in Assignments
    BY Parts DEF UpdatesOK, UpdateSave, Sound, Update
  <1>2. \A a \in Collab : In(a, "IN_PROGRESS")' =>
            In(a, "IN_PROGRESS") \/ (a = u.id /\ u.values.state = "IN_PROGRESS")
    <2>1. row' = [row EXCEPT ![u.id] = u.values] /\ row = [a \in Assignments |-> row[a]]
      BY Parts DEF UpdateSave, TableOK
    <2> QED
      BY <1>1, <2>1, ConstantsAssumption DEF In, Exists
  <1>3. CASE Registers(u)
    <2> DEFINE v == [u EXCEPT !.pc = "check"]
    <2>1. updates' = Becomes(updates, u, v) /\ v.pc = "check" /\ v.id = u.id
      BY <1>1, <1>3 DEF UpdateSave, Update
    <2> HIDE DEF v
    <2>2. /\ BagToSet(updates') \subseteq BagToSet(updates) \cup {v}
          /\ BagToSet(updates) \ {u} \subseteq BagToSet(updates')
          /\ v \in BagToSet(updates')
      BY <1>1, <2>1, Stepped
    <2>3. \A a : Settled(a) => Settled(a)'
      BY <1>1, <2>2, StillSettled
    <2>4. Settled(u.id)' /\ Settled(v.id)'
      BY <2>1, <2>2 DEF Settled, Registering
    <2> QED
      BY <1>2, <2>2, <2>3, <2>4, ProgressStays
  <1>4. CASE ~Registers(u)
    <2>1. updates' = BagRemove(updates, u)
      BY <1>4 DEF UpdateSave
    <2>2. /\ BagToSet(updates') \subseteq BagToSet(updates)
          /\ BagToSet(updates) \ {u} \subseteq BagToSet(updates')
      BY <1>1, <2>1, Removed
    <2>3. \A a : Settled(a) => Settled(a)'
      BY <1>1, <2>2, StillSettled
    <2>4. u.id \in Collab /\ u.values.state = "IN_PROGRESS" => Settled(u.id)
      BY <1>4 DEF Registers, SawProgress, ProgressConsistent
    <2> QED
      BY <1>2, <2>2, <2>3, <2>4, ProgressStays
  <1> QED
    BY <1>3, <1>4

\* The registration of the groups, from the look at what is there to its end.
LEMMA RegisterProgress ==
    ASSUME SchedulerInv, ProgressConsistent, NEW u \in BagToSet(updates),
           UpdateCheck(u) \/ Register(u)
    PROVE  ProgressConsistent'
  <1>1. IsABag(updates) /\ u \in Update /\ row' = row /\ tried \subseteq tried'
    BY Parts DEF UpdatesOK, UpdateCheck, Register, Sound
  <1>2. \A a : In(a, "IN_PROGRESS")' => In(a, "IN_PROGRESS")
    BY <1>1 DEF In, Exists
  <1> DEFINE v == [u EXCEPT !.pc = "register"]
  <1>3. v.pc = "register" /\ v.id = u.id
    BY <1>1 DEF Update
  <1>4. \/ updates' = BagRemove(updates, u) /\ u.id \in tried'
        \/ updates' = Becomes(updates, u, v)
    BY DEF UpdateCheck, Register
  <1> HIDE DEF v
  <1>5. CASE updates' = BagRemove(updates, u) /\ u.id \in tried'
    <2>1. /\ BagToSet(updates') \subseteq BagToSet(updates)
          /\ BagToSet(updates) \ {u} \subseteq BagToSet(updates')
      BY <1>1, <1>5, Removed
    <2>2. \A a : Settled(a) => Settled(a)'
      BY <1>1, <1>5, <2>1, StillSettled
    <2> QED
      BY <1>2, <2>1, <2>2, ProgressStays
  <1>6. CASE updates' = Becomes(updates, u, v)
    <2>1. /\ BagToSet(updates') \subseteq BagToSet(updates) \cup {v}
          /\ BagToSet(updates) \ {u} \subseteq BagToSet(updates')
          /\ v \in BagToSet(updates')
      BY <1>1, <1>6, Stepped
    <2>2. \A a : Settled(a) => Settled(a)'
      BY <1>1, <1>3, <2>1, StillSettled
    <2>3. Settled(v.id)'
      BY <1>3, <2>1 DEF Settled, Registering
    <2> QED
      BY <1>2, <2>1, <2>2, <2>3, ProgressStays
  <1> QED
    BY <1>4, <1>5, <1>6

\* An assignment that is created in progress registers its groups.
LEMMA CreateProgress ==
    ASSUME SchedulerInv, ProgressConsistent, NEW a \in Assignments, NEW new \in NewRows,
           CreateAssignment(a, new)
    PROVE  ProgressConsistent'
  <1> DEFINE v == [id |-> a, by |-> "create", pc |-> "register", oldState |-> new.state,
                   change |-> [state |-> new.state], values |-> new]
  <1>1. IsABag(updates) /\ tried' = tried /\ v.id = a /\ v.pc = "register"
    BY Parts DEF UpdatesOK, CreateAssignment
  <1>2. \A b \in Collab : In(b, "IN_PROGRESS")' =>
            In(b, "IN_PROGRESS") \/ (b = a /\ new.state = "IN_PROGRESS")
    <2>1. row' = [row EXCEPT ![a] = new] /\ row = [b \in Assignments |-> row[b]]
      BY Parts DEF CreateAssignment, TableOK
    <2> QED
      BY <2>1, ConstantsAssumption DEF In, Exists
  <1>3. \/ updates' = updates /\ ~(new.state = "IN_PROGRESS" /\ a \in Collab)
        \/ updates' = BagAdd(updates, v)
    BY DEF CreateAssignment
  <1> HIDE DEF v
  <1>4. CASE updates' = updates /\ ~(new.state = "IN_PROGRESS" /\ a \in Collab)
    <2>1. \A b : Settled(b) => Settled(b)'
      BY <1>1, <1>4 DEF Settled, Registering
    <2> QED
      BY <1>2, <1>4, <2>1, ProgressStays
  <1>5. CASE updates' = BagAdd(updates, v)
    <2>1. BagToSet(updates') = BagToSet(updates) \cup {v}
      BY <1>1, <1>5, Added
    <2>2. \A b : Settled(b) => Settled(b)'
      BY <1>1, <2>1, StillSettled
    <2>3. Settled(a)' /\ Settled(v.id)'
      BY <1>1, <2>1 DEF Settled, Registering
    <2> QED
      BY <1>2, <2>1, <2>2, <2>3, ProgressStays
  <1> QED
    BY <1>3, <1>4, <1>5

\* An assignment is deleted.
LEMMA DeleteProgress ==
    ASSUME SchedulerInv, ProgressConsistent, NEW a \in Assignments, DeleteAssignment(a)
    PROVE  ProgressConsistent'
  <1>1. /\ UNCHANGED <<updates, tried>>
        /\ row' = [row EXCEPT ![a] = None] /\ row = [b \in Assignments |-> row[b]]
    BY Parts DEF DeleteAssignment, TableOK
  <1>2. \A b : Settled(b) => Settled(b)'
    BY <1>1 DEF Settled, Registering
  <1>3. \A b \in Collab : In(b, "IN_PROGRESS")' => In(b, "IN_PROGRESS")
    BY <1>1, ConstantsAssumption DEF In, Exists
  <1> QED
    BY <1>1, <1>2, <1>3, ProgressStays

\* At a start of the process no update is in flight.
LEMMA BootProgress ==
    /\ updates = EmptyBag /\ (\A a \in Collab : In(a, "IN_PROGRESS") => a \in tried)
       => ProgressConsistent
    /\ updates' = EmptyBag /\ (\A a \in Collab : In(a, "IN_PROGRESS")' => a \in tried')
       => ProgressConsistent'
  <1>1. BagToSet(EmptyBag) = {}
    BY DEF EmptyBag, SetToBag, BagToSet
  <1> QED
    BY <1>1 DEF ProgressConsistent, Settled

\* The process ends and starts again.
LEMMA RestartProgress ==
    ASSUME Restart
    PROVE  ProgressConsistent'
  <1>1. updates' = EmptyBag /\ \A a \in Assignments : In(a, "IN_PROGRESS")' => a \in tried'
    BY DEF Restart, InProgress, In, Exists
  <1> QED
    BY <1>1, BootProgress, ConstantsAssumption

\* Every step.
LEMMA ProgressStep == SchedulerInv /\ ProgressConsistent /\ [Next]_vars => ProgressConsistent'
  <1> SUFFICES ASSUME SchedulerInv, ProgressConsistent, [Next]_vars
               PROVE  ProgressConsistent'
    OBVIOUS
  <1>1. CASE UNCHANGED vars \/ Tick
    BY <1>1, OtherProgress DEF vars, Tick, table
  <1>2. CASE ServerStep
    <2>1. ASSUME NEW r \in BagToSet(runs), RunReadStart(r) \/ RunReadStop(r) \/ RunArm(r)
          PROVE  ProgressConsistent'
      BY <2>1, OtherProgress DEF RunReadStart, RunReadStop, RunArm, table
    <2>2. CASE FireStart \/ FireStop
      BY <2>2, OtherProgress DEF FireStart, FireStop, table
    <2> QED
      BY <1>2, <2>1, <2>2, JobProgress, LoadProgress, SaveProgress, RegisterProgress
         DEF ServerStep
  <1>3. CASE LecturerStep
    BY <1>3, PatchProgress, CreateProgress, DeleteProgress DEF LecturerStep
  <1> QED
    BY <1>1, <1>2, <1>3, RestartProgress DEF Next

-----------------------------------------------------------------------------
(* The theorems *)

\* The inductive invariant: types, and what updates in flight carry.
THEOREM Consistency == Spec => []SchedulerInv
  BY InitTypes, TypesStep, PTL DEF Spec

\* Every variable keeps its type; only assignments that allow groups and are still
\* there have registrations.
THEOREM TypeCorrectness == Spec => []TypeOK
  <1>1. SchedulerInv => TypeOK
    BY DEF SchedulerInv
  <1> QED
    BY <1>1, Consistency, PTL

\* The invariant behind the first start: who has seen an assignment in progress has
\* come after its registration was tried, or while it is.
THEOREM StartConsistency == Spec => []StartInv
  <1>1. Init => ProgressConsistent
    BY BootProgress, ConstantsAssumption DEF Init, InProgress
  <1>2. Spec => []ProgressConsistent
    BY <1>1, ProgressStep, Consistency, PTL DEF Spec
  <1> QED
    BY <1>2, Consistency, PTL DEF StartInv

\* updateAssignment and createAssignment: no assignment of groups gets into progress
\* past the registration of its groups, at whatever moment lecturers, jobs and
\* deletions write, and with whatever old copies of its state.
THEOREM FirstStartRegisters == Spec => []StartsRegisterGroups
  <1>1. StartInv => StartsRegisterGroups
    BY DEF StartInv, ProgressConsistent, StartsRegisterGroups, Settled
  <1> QED
    BY <1>1, StartConsistency, PTL

=============================================================================
