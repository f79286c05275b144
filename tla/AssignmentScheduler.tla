------------------------ MODULE AssignmentScheduler ------------------------
(***************************************************************************)
(* The life of assignments: AssignmentService with its repository, and the *)
(* AssignmentSchedulerService, which starts and stops assignments at their *)
(* dates with one timer for the next start and one for the next stop.      *)
(*                                                                         *)
(* Every AssignmentCreated, AssignmentUpdated and AssignmentRemoved event  *)
(* begins a run of scheduleNextStartAndStop; runs, the jobs of the timers  *)
(* and the requests of lecturers interleave at every database call.  The   *)
(* calls in flight are bags: two calls may be in the same state.  A timer  *)
(* calls back after its date, when the clock already shows more.           *)
(***************************************************************************)
EXTENDS Integers, FiniteSets, FiniteSetsExt, Bags, BagsExt

CONSTANTS
    None,          \* what is not there: a row, the values not yet loaded
    Assignments,   \* uuids: an id is never handed out twice
    Collab,        \* the assignments that allow groups
    OldRows,       \* the assignments left by an earlier life of the process
    NewRows,       \* the assignments that lecturers create
    Changes,       \* what a lecturer's PATCH sets: the state or a date
    MaxDelay,      \* the longest delay that setTimeout can wait for, 2^31 - 1 ms
    RegistrationFails, \* whether the database may fail while groups register
    Calm,          \* clock and lecturers wait until the server is at rest
    MaxTime,       \* bound: the last reading of the clock
    MaxRequests,   \* bound: the requests of lecturers
    MaxCrashes     \* bound: how often the process restarts

VARIABLES
    now,         \* new Date()
    row,         \* table assignments
    made,        \* ids handed out so far
    registered,  \* the assignments that have registrations
    startTimer,  \* date of timeout "nextAssignmentStart", or NoDate
    stopTimer,   \* date of timeout "nextAssignmentStop", or NoDate
    runs,        \* bag of scheduleNextStartAndStop calls in flight
    jobs,        \* bag of startAssignments, stopAssignments that wait for find
    updates,     \* bag of updateAssignment, createAssignment calls in flight
    requests, crashes,   \* counters, only to bound
    tried        \* history: assignments that were in progress when the process
                 \* started, or whose registration an update has tried

vars == <<now, row, made, registered, startTimer, stopTimer, runs, jobs, updates,
          requests, crashes, tried>>

table == <<row, made, registered, tried>>
timers == <<startTimer, stopTimer>>
counters == <<requests, crashes>>

-----------------------------------------------------------------------------
NoDate == -1
Unread == -2
Dates == 0 .. MaxTime - 1      \* leaves a clock reading for the last timer
Date == Dates \cup {NoDate}

AssignmentState == {"INVISIBLE", "CLOSED", "IN_PROGRESS", "IN_REVIEW", "EVALUATED"}

Row == [state : AssignmentState, start : Date, end : Date]

\* at: when the two queries were sent; what they have returned.
Run == [at : Nat, start : Date \cup {Unread}, stop : Date \cup {Unread}]

Job == [kind : {"start", "stop"}, at : Nat]

\* oldState is the state in the caller's copy; change: the columns that the
\* update sets; values: what save will write.
Change == [{"state"} -> AssignmentState] \cup [{"start"} -> Date] \cup [{"end"} -> Date]
Update == [id : Assignments, by : {"client", "job", "create"},
           pc : {"load", "save", "check", "register"},
           oldState : AssignmentState, change : Change, values : Row \cup {None}]

ASSUME ConstantsAssumption ==
    /\ None \notin Row
    /\ OldRows \subseteq Row /\ NewRows \subseteq Row /\ Changes \subseteq Change
    /\ Collab \subseteq Assignments
    /\ RegistrationFails \in BOOLEAN /\ Calm \in BOOLEAN
    /\ MaxDelay \in Nat /\ MaxTime \in Nat \ {0}
    /\ MaxRequests \in Nat /\ MaxCrashes \in Nat

TypeOK ==
    /\ now \in 0 .. MaxTime
    /\ row \in [Assignments -> Row \cup {None}]
    /\ made \subseteq Assignments
    /\ \A a \in Assignments \ made : row[a] = None
    /\ registered \subseteq {a \in Collab : row[a] # None}
    /\ startTimer \in Date /\ stopTimer \in Date
    /\ IsABag(runs) /\ BagToSet(runs) \subseteq Run
    /\ IsABag(jobs) /\ BagToSet(jobs) \subseteq Job
    /\ IsABag(updates) /\ BagToSet(updates) \subseteq Update
    /\ tried \subseteq Assignments

Exists(a) == row[a] # None
In(a, state) == Exists(a) /\ row[a].state = state
InProgress == {a \in Assignments : In(a, "IN_PROGRESS")}

\* The event loop serves timers that have expired before it waits for answers:
\* one that was due when queries were sent has fired when they are answered.
Fired(timer, cut) == timer = NoDate \/ timer >= cut

AtRest ==
    /\ runs = EmptyBag /\ jobs = EmptyBag /\ updates = EmptyBag
    /\ Fired(startTimer, now) /\ Fired(stopTimer, now)

\* The saga: an event was published, both queries are sent.
Publish == runs' = BagAdd(runs, [at |-> now, start |-> Unread, stop |-> Unread])

Becomes(bag, old, new) == BagAdd(BagRemove(bag, old), new)

-----------------------------------------------------------------------------
(* scheduleNextStartAndStop *)

\* Mutant: a date that is right now is no longer ahead.
NextDateAfter(dates, cut) ==
    LET ahead == {d \in dates : d > cut} IN IF ahead = {} THEN NoDate ELSE Min(ahead)

\* findNextAssignment: the cut is the date at which the query was sent.
NextDate(dates, cut) ==
    LET ahead == {d \in dates : d >= cut} IN IF ahead = {} THEN NoDate ELSE Min(ahead)

NextStart(cut) == NextDate({row[a].start : a \in {b \in Assignments : In(b, "INVISIBLE")}}, cut)
NextStop(cut) == NextDate({row[a].end : a \in {b \in Assignments : Exists(b)}}, cut)

RunReadStart(r) ==
    /\ r.start = Unread
    /\ runs' = Becomes(runs, r, [r EXCEPT !.start = NextStart(r.at)])
    /\ UNCHANGED <<now, table, timers, jobs, updates, counters>>

RunReadStop(r) ==
    /\ r.stop = Unread
    /\ runs' = Becomes(runs, r, [r EXCEPT !.stop = NextStop(r.at)])
    /\ UNCHANGED <<now, table, timers, jobs, updates, counters>>

\* setTimeout turns a delay it cannot represent into 1 ms.
Armed(date) == IF date # NoDate /\ date - now > MaxDelay THEN now ELSE date

\* updateJob for both timers, without a pause in between.
RunArm(r) ==
    /\ r.start # Unread /\ r.stop # Unread
    /\ Fired(startTimer, r.at) /\ Fired(stopTimer, r.at)
    /\ startTimer' = Armed(r.start)
    /\ stopTimer' = Armed(r.stop)
    /\ runs' = BagRemove(runs, r)
    /\ UNCHANGED <<now, table, jobs, updates, counters>>

-----------------------------------------------------------------------------
(* startAssignments, stopAssignments *)

FireStart ==
    /\ ~Fired(startTimer, now)
    /\ jobs' = BagAdd(jobs, [kind |-> "start", at |-> now])
    /\ startTimer' = NoDate
    /\ UNCHANGED <<now, table, stopTimer, runs, updates, counters>>

FireStop ==
    /\ ~Fired(stopTimer, now)
    /\ jobs' = BagAdd(jobs, [kind |-> "stop", at |-> now])
    /\ stopTimer' = NoDate
    /\ UNCHANGED <<now, table, startTimer, runs, updates, counters>>

\* Mutant: an assignment whose date has passed is not found any more.
ShouldBeStartedNow(a, cut) == In(a, "INVISIBLE") /\ row[a].start = cut

ShouldBeStarted(a, cut) == In(a, "INVISIBLE") /\ row[a].start # NoDate /\ row[a].start <= cut
ShouldBeStopped(a, cut) == In(a, "IN_PROGRESS") /\ row[a].end # NoDate /\ row[a].end <= cut

NewUpdate(a, by, change) ==
    [id |-> a, by |-> by, pc |-> "load", oldState |-> row[a].state, change |-> change,
     values |-> None]

\* find, then tryUpdateAssignment for all it found, side by side.
JobFind(j) ==
    LET found == {a \in Assignments : IF j.kind = "start" THEN ShouldBeStarted(a, j.at)
                                                          ELSE ShouldBeStopped(a, j.at)}
        state == IF j.kind = "start" THEN "IN_PROGRESS" ELSE "IN_REVIEW"
    IN
    /\ updates' = updates (+) SetToBag({NewUpdate(a, "job", [state |-> state]) : a \in found})
    /\ jobs' = BagRemove(jobs, j)
    /\ UNCHANGED <<now, table, timers, runs, counters>>

-----------------------------------------------------------------------------
(* updateAssignment *)

\* AssignmentGuard has loaded the assignment.
StartPatch(a, change) ==
    /\ Calm => AtRest
    /\ Exists(a)
    /\ requests < MaxRequests /\ requests' = requests + 1
    /\ updates' = BagAdd(updates, NewUpdate(a, "client", change))
    /\ UNCHANGED <<now, table, timers, runs, jobs, crashes>>

\* findOneOrFail, { ...assignment, ...update }
UpdateLoad(u) ==
    /\ u.pc = "load"
    /\ updates' =
         IF Exists(u.id)
         THEN Becomes(updates, u, [u EXCEPT !.pc = "save",
                 !.values = [c \in DOMAIN row[u.id] |->
                     IF c \in DOMAIN u.change THEN u.change[c] ELSE row[u.id][c]]])
         ELSE BagRemove(updates, u)
    /\ UNCHANGED <<now, table, timers, runs, jobs, counters>>

\* Mutant: oldState is taken from the assignment that was saved.
RegistersChangeOfSaved(u) ==
    u.values.state = "IN_PROGRESS" /\ u.values.state # "IN_PROGRESS" /\ u.id \in Collab

\* wasStarted and allowsGroups: oldState is what the guard, or the job, had loaded.
Registers(u) ==
    u.values.state = "IN_PROGRESS" /\ u.oldState # "IN_PROGRESS" /\ u.id \in Collab

\* save writes all columns as they were loaded, and inserts a row that has gone.
UpdateSave(u) ==
    /\ u.pc = "save"
    /\ row' = [row EXCEPT ![u.id] = u.values]
    /\ \/ /\ Registers(u)
          /\ updates' = Becomes(updates, u, [u EXCEPT !.pc = "check"])
          /\ UNCHANGED runs
       \/ /\ ~Registers(u)
          /\ updates' = BagRemove(updates, u)
          /\ Publish
    /\ UNCHANGED <<now, made, registered, tried, timers, jobs, counters>>

\* hasRegistrations
UpdateCheck(u) ==
    /\ u.pc = "check"
    /\ \/ /\ u.id \in registered
          /\ updates' = BagRemove(updates, u)
          /\ Publish
          /\ tried' = tried \cup {u.id}
       \/ /\ u.id \notin registered
          /\ updates' = Becomes(updates, u, [u EXCEPT !.pc = "register"])
          /\ UNCHANGED <<runs, tried>>
    /\ UNCHANGED <<now, row, made, registered, timers, jobs, counters>>

\* registerGroupsForAssignment does nothing where no group has members.  It throws
\* if somebody else has registered the groups meanwhile, if the assignment is gone
\* or the database fails: then the update publishes nothing.
Register(u) ==
    /\ u.pc = "register"
    /\ \/ /\ \/ u.id \notin registered /\ Exists(u.id) /\ registered' = registered \cup {u.id}
             \/ UNCHANGED registered
          /\ IF u.by = "create" THEN UNCHANGED runs ELSE Publish
       \/ /\ u.id \in registered \/ ~Exists(u.id) \/ RegistrationFails
          /\ UNCHANGED <<registered, runs>>
    /\ updates' = BagRemove(updates, u)
    /\ tried' = tried \cup {u.id}
    /\ UNCHANGED <<now, row, made, timers, jobs, counters>>

-----------------------------------------------------------------------------
(* createAssignment, deleteAssignment: save or remove, then the event *)

CreateAssignment(a, new) ==
    /\ Calm => AtRest
    /\ a \notin made
    /\ requests < MaxRequests /\ requests' = requests + 1
    /\ made' = made \cup {a}
    /\ row' = [row EXCEPT ![a] = new]
    /\ Publish
    /\ updates' =
         IF new.state = "IN_PROGRESS" /\ a \in Collab
         THEN BagAdd(updates, [id |-> a, by |-> "create", pc |-> "register",
                oldState |-> new.state, change |-> [state |-> new.state], values |-> new])
         ELSE updates
    /\ UNCHANGED <<now, registered, tried, timers, jobs, crashes>>

\* Mutant: the registrations stay behind.
DeleteAssignmentAlone(a) ==
    /\ Calm => AtRest
    /\ Exists(a)
    /\ requests < MaxRequests /\ requests' = requests + 1
    /\ row' = [row EXCEPT ![a] = None]
    /\ Publish
    /\ UNCHANGED <<now, made, registered, tried, timers, jobs, updates, crashes>>

\* The registrations go with the assignment.
DeleteAssignment(a) ==
    /\ Calm => AtRest
    /\ Exists(a)
    /\ requests < MaxRequests /\ requests' = requests + 1
    /\ row' = [row EXCEPT ![a] = None]
    /\ registered' = registered \ {a}
    /\ Publish
    /\ UNCHANGED <<now, made, tried, timers, jobs, updates, crashes>>

-----------------------------------------------------------------------------
(* Time, and the process *)

Tick ==
    /\ now < MaxTime
    /\ Calm => AtRest
    /\ now' = now + 1
    /\ UNCHANGED <<table, timers, runs, jobs, updates, counters>>

\* onInit: both jobs and a scheduling run, side by side.
BootJobs(date) == SetToBag({[kind |-> "start", at |-> date], [kind |-> "stop", at |-> date]})
BootRuns(date) == SetToBag({[at |-> date, start |-> Unread, stop |-> Unread]})

\* The process ends and starts again: only the tables survive.
Restart ==
    /\ crashes < MaxCrashes /\ crashes' = crashes + 1
    /\ jobs' = BootJobs(now)
    /\ runs' = BootRuns(now)
    /\ updates' = EmptyBag
    /\ startTimer' = NoDate /\ stopTimer' = NoDate
    /\ tried' = tried \cup InProgress
    /\ UNCHANGED <<now, row, made, registered, requests>>

-----------------------------------------------------------------------------
Init ==
    /\ now = 0
    /\ row \in [Assignments -> OldRows \cup {None}]
    /\ made = {a \in Assignments : Exists(a)}
    /\ registered \in SUBSET (made \cap Collab)
    /\ startTimer = NoDate /\ stopTimer = NoDate
    /\ jobs = BootJobs(0) /\ runs = BootRuns(0) /\ updates = EmptyBag
    /\ requests = 0 /\ crashes = 0
    /\ tried = InProgress

ServerStep ==
    \/ \E r \in BagToSet(runs) : RunReadStart(r) \/ RunReadStop(r) \/ RunArm(r)
    \/ FireStart \/ FireStop
    \/ \E j \in BagToSet(jobs) : JobFind(j)
    \/ \E u \in BagToSet(updates) :
          UpdateLoad(u) \/ UpdateSave(u) \/ UpdateCheck(u) \/ Register(u)

LecturerStep ==
    \E a \in Assignments :
       \/ \E change \in Changes : StartPatch(a, change)
       \/ \E new \in NewRows : CreateAssignment(a, new)
       \/ DeleteAssignment(a)

Next == ServerStep \/ LecturerStep \/ Tick \/ Restart

Spec == Init /\ [][Next]_vars

\* The event loop goes on while there is work for it, and so does time.
Fairness == WF_vars(ServerStep) /\ WF_vars(Tick)

FairSpec == Spec /\ Fairness

-----------------------------------------------------------------------------
(* Properties *)

\* A job misses nothing: what is due when startAssignments or stopAssignments is
\* called, by a timer or after a crash by onInit, changes its state or its date,
\* whatever requests, other jobs and crashes come in between.
Pending(kind, d) == \E j \in BagToSet(jobs) : j.kind = kind /\ j.at >= d

JobsMissNothing ==
    \A a \in Assignments, d \in Dates :
       /\ (In(a, "INVISIBLE") /\ row[a].start = d /\ Pending("start", d))
             ~> ~(In(a, "INVISIBLE") /\ row[a].start = d)
       /\ (In(a, "IN_PROGRESS") /\ row[a].end = d /\ Pending("stop", d))
             ~> ~(In(a, "IN_PROGRESS") /\ row[a].end = d)

\* startDate: an invisible assignment whose start lies ahead does not stay
\* invisible beyond it, unless somebody moves the date.
StartsAtItsDate ==
    \A a \in Assignments, d \in Dates :
       (In(a, "INVISIBLE") /\ row[a].start = d /\ now <= d)
          ~> ~(In(a, "INVISIBLE") /\ row[a].start = d)

\* If an assignment is set to IN_PROGRESS for the first time, groups are registered
\* for it: an assignment in progress that allows groups has gone through that, or
\* an update of it is at it.  Lecturers, jobs and deletions may interleave as they
\* like, although a start is recognised by an old copy of the state.  What a crash
\* leaves in progress is not looked at again.
Registering(a) == \E u \in BagToSet(updates) : u.id = a /\ u.pc \in {"check", "register"}

StartsRegisterGroups ==
    \A a \in Collab : In(a, "IN_PROGRESS") => a \in tried \/ Registering(a)

-----------------------------------------------------------------------------
(* The inductive strengthening *)

\* What updates in flight carry: an assignment that was made, and all its columns
\* once they are loaded.  Only assignments that allow groups are registered.
UpdatesConsistent ==
    \A u \in BagToSet(updates) :
       /\ u.id \in made
       /\ u.pc # "load" => u.values \in Row
       /\ u.pc \in {"check", "register"} => u.id \in Collab
       /\ u.by = "create" => u.pc = "register"
       /\ u.by = "job" => u.change \in [{"state"} -> {"IN_PROGRESS", "IN_REVIEW"}]

SchedulerInv == TypeOK /\ UpdatesConsistent

\* Whoever has seen an assignment in progress, and may write that again without
\* taking it for a start, has come after its first start.
SawProgress(u) ==
    \/ u.oldState = "IN_PROGRESS"
    \/ u.pc = "save" /\ "state" \notin DOMAIN u.change /\ u.values.state = "IN_PROGRESS"

Settled(a) == a \in tried \/ Registering(a)

ProgressConsistent ==
    /\ \A a \in Collab : In(a, "IN_PROGRESS") => Settled(a)
    /\ \A u \in BagToSet(updates) : u.id \in Collab /\ SawProgress(u) => Settled(u.id)

StartInv == SchedulerInv /\ ProgressConsistent
=============================================================================
