# Verification of the student management backend

TLA+ models of the parts of StudentMgmt-Backend (NestJS, TypeORM, PostgreSQL) in which
requests, events, timers and the database interact; TLC configurations that check them on
small instances; and theorems that TLAPS proves for every instance. All paths below are
relative to the repository; `PROJECT.json` maps every definition to the lines it models.

## 1. The system

One Node.js process serves HTTP requests. A handler runs until it awaits something, nearly
always one SQL statement; then another handler runs. There are hardly any transactions: what a
guard has loaded is old when the service acts on it. Events of `@nestjs/cqrs` are delivered
inside the process, never stored; handlers and sagas run beside the request that published them.

| Component | State | Operations | Interacts with | Hard parts | What makes it correct |
|---|---|---|---|---|---|
| Groups (`course/services/group.service.ts`, `group.repository.ts`, `join-random-group.handler.ts`, `CloseEmptyGroupsHandler`) | tables `groups`, `user_group_relations` | join, join or create, create, bulk create, leave, delete, update, close when empty | guards load participants and groups first; events to history, mails, notifications | check-then-insert across awaits, swallowed errors, save of whole entities, cascades | one group per participant, no dangling relation, bounded capacity, events match the relations, emptied groups are closed |
| Group merging (`group-merge.strategy.ts`) | none; a list in memory | `merge` | called by the registrations | one index in two loops, boundaries | nobody is lost, no group too large, groups stay together, whoever can be placed is |
| Assignments (`assignment.service.ts`) | table `assignments` | create, update, delete | registrations, scheduler, mails | read-merge-save, two services call it at once | states and dates survive interleavings |
| Scheduler (`assignment-scheduler.service.ts`) | two timers in memory | `startAssignments`, `stopAssignments`, `scheduleNextStartAndStop`, `onInit` | reacts to assignment events, calls `updateAssignment` | timers, races between runs, restarts | assignments start and stop at their dates |
| Registrations (`assignment-registration.service.ts`) | tables `assignment_registration`, `group_registration_relation` | register all, a group, a participant; unregister each; remove all | started by assignments, merge groups; events to mails and notifications | check-then-insert, swallowed errors, participants and groups that go | a participant is registered once per assignment, no registration refers to what is gone, events tell the truth |
| Participants (`course-participants.service.ts`) | table `participant` | join with a password, remove, change role | groups, registrations, assessments by cascade or by user | the course is read before the insert, roles are saved as rows | one participant per user and course, nobody gets in who was not let in |
| Courses and configuration (`course.service.ts`, `course-config.service.ts`) | `courses`, `course_config`, `group_settings`, `admission_criteria`, `admission_from_previous_semester`, `assignment_template` | create, update, delete each; can-join query | read by everything | whole rows saved after a read, config removed under a running join | one config per course and one part of each kind, patches touch only what they name, the query foretells the join |
| Assessments (`assessment.service.ts`) | `assessments`, `assessment_user_relations`, `partial_assessment`, `assessment_event` | create for a group or participant, update, set a partial assessment, delete; record changes of scores | registered groups; events on score changes | find-then-save, swallowed errors, scores read before and after the update | one assessment per participant and assignment, a truthful list of score changes, points stay with users |
| Allocations (`assessment-allocation.service.ts` and two queries) | `assessment_allocation` | allocate, copy from another assignment, remove | groups, assessments | find-then-save against two unique indexes, a request without a target | one evaluator per group or participant, both lists of work change together |
| Admission status (`admission-status.service.ts`, rules) | none | evaluate rules, points overview | assessments, criteria | rounding, assignments without points, assessments of other courses | rules decide on the points that the overview shows |
| Group history (events) | `group_event` | list | groups | events that are missing | it is what happened |
| Notifications, mailing (`notification.service.ts`, `mailing-listener.service.ts`) | `subscriber`; nothing | subscribe, unsubscribe, post, send | all events | handlers read after the event, when members and settings have changed | the right events reach the right receivers |
| Authentication, users (`sparky-auth.strategy.ts`, `auth.service.ts`, `user.service.ts`) | cache of users by token; `users`, `user_settings` | log in, create, update, delete, settings | Sparkyservice | stale cache, double creation, whole rows written back | one account per name, the cache holds what is stored, logins leave roles alone |
| Submissions, export, utilities | `submission`; none; none | append, read, format | - | - | - |

## 2. Modules

| Module | Role |
|---|---|
| `CourseGroups` | groups, relations and participants of one course, the requests in flight, the closing handler |
| `GroupMembership` | abstract specification: at most one group per user; join, leave, dissolve |
| `MCCourseGroups` | constants and symmetry for TLC |
| `CourseGroupsProofs` | theorems about `CourseGroups` |
| `AssignmentScheduler` | assignments with state and dates, timers, jobs, scheduling runs, restarts |
| `AssignmentSchedulerProofs` | theorems about `AssignmentScheduler` |
| `MCAssignmentScheduler` | the rows and changes that lecturers make in the runs |
| `GroupMerge` | `GroupMergeStrategy.merge`, one action per round of a loop |
| `GroupMergeProofs` | theorems about `GroupMerge` |
| `AssignmentRegistration`, `MCAssignmentRegistration` | registrations of one course, with members, groups and assignments that come and go |
| `AssignmentRegistrationProofs` | theorems about `AssignmentRegistration` |
| `Assessments` | assessments and their parts, score changes; extended by `AdmissionStatus` and `Evaluators` |
| `AssessmentsProofs` | theorems about `Assessments` and `AdmissionStatus` |
| `AdmissionStatus`, `MCAdmissionStatus` | admission rules and points overview on the tables of `Assessments` |
| `Evaluators`, `MCEvaluators` | allocations and the lists of evaluators, composed with `Assessments` |
| `EvaluatorsProofs` | theorems about `Evaluators` |
| `CourseAdministration`, `MCCourseAdministration` | a course, its config and its participants |
| `CourseAdministrationProofs` | theorems about `CourseAdministration` |
| `Accounts` | accounts, logins, the cache and settings; extended by `EventDelivery` |
| `EventDelivery`, `MCEventDelivery` | mails and notifications, composed with `Accounts` |
| `EventDeliveryProofs` | theorems about `EventDelivery` and the accounts in it |

### CourseGroups

`rel` are the rows of `user_group_relations` (participant id, user, group); `enrol` gives the id of
a user's row in `participants` (0: none), so that a user who leaves and rejoins the course is another
participant; `groups`, `closed`, `locked` are the rows of `groups` and their columns `isClosed` and
`password`. `req` holds the requests in flight as records with a program counter `pc`; `closers` the
calls of `CloseEmptyGroupsHandler`; `events` everything published so far, in order.

An action is the code between two database calls. A request to join goes through

    StartJoin -> JoinSelectParticipant -> JoinCheckGroup -> AddLookup -> AddInsert
    CourseMember- SelectedParticipantGuard GroupGuard and     getParticipant  save, unique and
    Guard         hasNoGroup               checks of service                  foreign keys, event

and `random` and `create` end with the same two steps. `AddInsert` follows the catch clause of
`addUserToGroup`: error 23505 becomes a conflict, any other error (the group or the participant
row has gone) is swallowed and the joined event is published all the same. `SaveGroup` is
TypeORM's `save` of an entity that was loaded earlier: it writes the columns as they were loaded or
changed and inserts a row that has vanished meanwhile.

Abstractions: a password check may fail for a group that has one; a name conflict may happen
whenever there is another group; guards that only read are merged into the step that begins
leave, delete and update, as what they read there is not written by the same request; joining a
course is one step; `save` (TypeORM's select and write) is one step; the settings of the course and
the roles do not change while requests run.

### AssignmentScheduler

`row` is the table, `registered` the assignments that have registrations, `startTimer` and
`stopTimer` the two named timeouts. `runs`, `jobs`, `updates` are bags of the calls in flight of
`scheduleNextStartAndStop`, of the two jobs waiting for their `find`, and of `updateAssignment` and
`createAssignment`. The two queries of a run are answered separately and in either order; arming both
timers is one step (`RunArm`), as there is no await between them. `UpdateLoad` and `UpdateSave` are the
two halves of `assignmentRepository.updateAssignment`. `Publish` begins a run, as the saga does.
`Restart` keeps only the tables and does what `onInit` does.

Time: `now` is what `new Date()` reads, in units in which dates are given. A timer calls back once
the clock shows more than its date, because a millisecond passes before a callback runs; `Fired`
says that the event loop serves a timer that had expired when a query was sent before the answer
to it. `Armed` is `setTimeout` with its largest delay, 2^31 - 1 ms, as constant `MaxDelay`. `tried` is a history
variable: the assignments whose registration an update has tried, or that were in progress when the process started.

Abstractions: other columns of an assignment are left out; registering the groups is one step that
succeeds, does nothing because no group has members, or throws.

### GroupMerge

`before` is the input, sorted and without empty groups as `registerGroupsForAssignment` passes it;
`members` the current groups; `i`, `first`, `size` the local variables of `tryMergeInvalidGroups`;
`OpenGroups` the result of `splitGroups`, with its `else break`. Groups are numbered by their place in
the sorted list, so `find` is the smallest number (`FirstOf`).

### The database

The modules treat TypeORM and PostgreSQL alike:

 - `save` of an entity that was loaded writes the columns that differ, which TypeORM finds out by
   reading the row again. Read and write are one step here, and unchanged columns are written
   as they were loaded, so a concurrent change of them is lost. If the row has gone it is
   inserted again with its old id, as far as foreign keys and indexes allow.
   Columns that are `undefined` are skipped.
 - An entity whose one-to-many relation was loaded and does not hold a row that was added since
   makes `save` detach that row, which fails as the foreign key may not be null (`CanSave`, `EntityFits`).
 - Unique indexes and foreign keys refuse a statement as a whole; cascades happen with it.
 - A statement that the code does not wait for inside a transaction (the settings of a new user)
   is sent before the commit and takes effect with it.
 - Ids come from one counter that is bounded; rows of one insert share it.

### AssignmentRegistration

`reg` and `regRel` are the two tables, `enrol` and `memberOf` what the course's members are in. Requests of
the staff go through the steps of the service: `StartAssignment -> CheckFirstStart -> LoadGroups ->
SaveAll` for the start of an assignment (`updateAssignment`), `StartRegisterAll` enters it at
`LoadGroups`; `StartRegisterGroup -> LoadGroup -> SaveGroup`; `StartRegisterUser -> CheckNotRegistered ->
FindRegistration -> AddRelation -> InsertMember`, and three ways to unregister. `SaveGroup` and `InsertMember`
follow the catch clauses, in which a unique violation is a conflict and `createGroupRegistration` swallows the rest.
`Merged` lets any groups be merged: what the strategy does with them is `GroupMerge`'s question.
Students without a group are not registered, groups without members are left out, as in the service. `Crash` ends the
process between any two steps.

### Assessments, AdmissionStatus, Evaluators

`assessments`, `relations`, `partials`, `recorded` are the tables; `phase` says whether an assignment is
evaluated. `StartCreate -> FindMembers -> SaveCreate`, where the members of a group are those *registered*
with it for the assignment; `StartUpdate -> LoadOriginal -> LoadEntity -> SaveUpdate -> Reread -> RecordChange`;
`StartPartial -> FindPartial -> SavePartial`. `changes` remembers what really happened to a score since the release,
and `calm` which assessments never had two updates at once or one cut off: only for these
the records can be expected to agree. Comments, drafts, titles, and the points of partial assessments are left
out; the assignment in the body of a request is the one in its path.

`AdmissionStatus` adds the rules as operators on these tables, so that they are evaluated in every state that
assessments reach. The code calculates percentages as `(n / d) * 100` in floating point; here they are fractions with
the direction in which the calculation errs, given by the constants `TooLarge` and `TooSmall` for each quotient: 11/20
is a little more than 55 percent and 29/100 a little less than 29. A direction is all that matters: two different fractions of points
far below 10^13 differ by more than the calculation errs, so only where a quotient is *equal* to a
limit - the required percentage, the boundary of a rounding - does the direction decide. Points and required percentages are whole
numbers; a rounding to decimals is given by its scale, 10 to the power of their number (without `decimals`
the code gets NaN, which is not modelled). An assignment without points gives
`0/0` (NaN) or, with a bonus, `x/0` (infinite) in the code, and nobody fails it. `Evaluators` adds allocations, whose targets are two columns, a group and a user:
`TargetTaken` are the two unique indexes, which ignore nulls, and the DTO requires one of them (the routes that remove
allocations do not).

### CourseAdministration

One course with all tables of its configuration. The five relations to the config differ in whether they are one to
one, which `Fits` says. `addParticipant` is `LoadForJoin -> InsertParticipant`, changes of roles and removals are
`FindParticipant` and then `SaveRole` or `RemoveUser`. `ReadConfig` and `ReadExisting` are the two queries that
`setAdmissionFromPreviousSemester` makes at once. `welcome` and `overlapped` are history variables for two
properties. Two columns stand for the group settings, as many as it takes to lose one; the update of a
template writes only columns that nothing here depends on.

### Accounts, EventDelivery

A login is `StartLogin -> Verify -> FindAccount -> CreateAccount` or `Reread -> SaveLogin -> CacheUser`; a token
that is cached lets the request in without any of it. Administrators create, update and delete
accounts, users change their settings, Sparkyservice changes what it says, entries of the cache
expire, the process may end. Email and display name are one value.

In `EventDelivery`, `published` lists events; `mail[e]` and `posts[e]` are the handlers of event `e`. A mail
handler reads its audience (`ReadAudience`: the group, or the assessments), then the
participants with their settings (`ReadReceivers`), and sends (`SendMails`); `onAssignmentEvaluated` makes its two queries at once.
Settings hold a blacklist with keys of `Event`, as the entity and the DTO declare it, and `Accepts` asks it for a key of `MailEvent`, as
the listener does. An account without an address has the empty one; an undefined one, which `save` would skip, is not modelled.
`Notify` is one query and the posts. Languages, texts and what becomes of a mail or a post are left out.

## 3. Properties and runs

| Run | Instance | What it shows |
|---|---|---|
| `MCGroups` | a student, a tutor, 2 groups, 2 requests at once, 3 in all, 3 participant rows, every operation but closing the course, size 2 | `TypeOK`; `OneGroupPerParticipant`; `RelationsReferToLiveRows`; `IndInv`, the invariant of the proofs; `ImplementsMembership`, the refinement of `GroupMembership` |
| `MCGroupsLife` | 2 students, 1 group of size 1, 2 requests at once, 4 in all, fairness | `CapacityBound`: at most sizeMax - 1 + number of concurrent requests; `LedgerMatchesRelations`: joined minus left events is membership; `EmptiedGroupIsClosed`: who leaves last closes the group |
| `MCGroupsFalseJoin` (violation) | 2 students, 1 group that is deleted | `JoinedEventsAreTrue` fails: a joined event for nobody |
| `MCSchedCalm` | 2 assignments, 4 clock readings, 3 requests, calm | `TypeOK`; `StartsAtItsDate` |
| `MCSchedJobs` | 1 assignment, 3 clock readings, 1 request at any time, 1 restart, failing registrations | `StartsRegisterGroups`: no assignment of groups is in progress without its registration being tried, whatever old copies updates carry; `JobsMissNothing`: what is due when a job is called is changed, also after a crash |
| `MCMerge` | all sorted inputs of 4 groups of 1 to 3, settings 0 to 5, any groups closed | `MembersConserved`, `MergedGroupsFit`, `GroupsStayTogether`, `PlacedWherePossible`, `IndInv` (which includes the types), `Terminates` |
| `MCRegistration` | 2 users, 2 groups, 1 assignment, 2 participant rows, 2 requests at once, 3 in all, every operation, any merge, crashes | `TypeOK`; `RegisteredOnce`: nobody is registered twice for an assignment; `RegistrationsReferToLiveRows`; `NoSilentSwitch`: no step moves a participant to another group; `RegisteredEventsAreTrue` |
| `MCAdmission` | a student, a tutor, a group, an assignment of 40 points and one of a bonus of 22 alone, points of 22 and 23, 2 requests at once, 3 in all, 2 assessments, 3 ids of partial assessments, five rules | `TypeOK`; `AssessedOnce`; `RecordedScores`: the recorded changes tell what happened to the score; `RulesDecideOnTheOverview`; `PointsSurviveGroupChanges`; `MorePointsNeverCostAdmission` |
| `MCAdmissionForeign` (violation) | the same, but one of the assignments belongs to another course | `EveryStatusIsComputable` fails: "Returns the admission status of all participants." |
| `MCEvaluators` | a student, two tutors, a group, 2 assignments, 4 ids of allocations, 2 requests at once, 4 in all | `AllocatedOnce`: a target has one evaluator; `ListsMoveTogether`: a group goes off and comes back onto the list of groups to review together with its members on the list of participants |
| `MCCourse` | 2 users, 2 requests at once, 4 in all, 5 ids, every operation | `TypeOK`; `CanJoinTellsTheTruth`; `NobodyEntersUnasked`; `SettingsKeepOtherChanges`: patches of one row that do not overlap in time both survive |
| `MCDelivery` | 2 users, 2 roles, 1 subscriber name, 1 event, 2 requests at once, 3 requests and changes in all, 5 ids | `DeliveryTypeOK`; `CachedUserIsStored`; `RoleSurvivesLogin`; `MailsReachWhoAllowsThem`: a mail goes to everyone who was due it throughout, whatever he has blacklisted, and to nobody who allowed none |

The properties' own comments say what each excepts, and why the code makes the exception necessary.

*Bounds.* Every race in `CourseGroups` needs two requests on one group or one user and a third actor
at most (the closing handler or a user who leaves the course), and every repetition needs one participant row
more than users: these are the bounds of `MCGroups`. `MaxRequests` ends a behaviour, which is
why deadlock is not checked in these runs: a server without requests stands still. Four groups let the
merge loop combine, skip and combine again; five as a setting exceeds what three members of one group
can reach and lets three groups be merged. In the scheduler, two assignments compete for the two
timers; one more date than assignments lets a timer be the wrong one; the last date is one reading
before `MaxTime`, so that its timer can still fire.

The races of the other modules have the same shape: find in one request, change in another, save in the first.
Where the rows of such a race do not exist initially, one or two requests before it create them
(an account, an assessment, a subscriber, a course after the first one was deleted); joins, leaves and deletions
of what a module refers to are steps of the environment that cost no request. Ids are bounded by what these
requests insert, with one to spare where a row may be replaced by another one of the same key. The rules
of `MCAdmission` stand at their limits: 22 of 40 points are 55 percent, calculated as 55.00000000000001, so that rounding up
reaches 56; 23 of 40 are 57.5, where the rounding to integers turns; the assignment with a bonus only lets points come
from where none are required. Its assignments are open or evaluated at first. `Symmetry` permutes requests, groups, users or
assignments that no constant tells apart, and only in runs of invariants and action properties, where it is sound
(`ImplementsMembership` is an initial condition and an action property); the runs of liveness have none.

*Fairness.* `RequestStep(r)` of each slot and `CloserStep` are weakly fair in `CourseGroups`: the event loop
runs every continuation whose answer has arrived. New requests, participants who come and
go, and closing the course are not fair. In the scheduler the server's steps and the clock are
fair. `Terminates` needs weak fairness of the only process there is. The other modules state no
fairness and are checked for safety: nothing in them has to happen but that a request
ends, and a request there is a straight line.

*Calm.* `MCSchedCalm` lets the clock and the lecturers wait while the server is working. This is the
situation the scheduler was written for, with dates minutes apart and seconds of work at
most, and `StartsAtItsDate` holds in it; with `Calm = FALSE` it does not, even with one assignment. Nothing that is
proved assumes `Calm`.

*Mutants.* Every property of a passing run has a mutant in `PROJECT.json`: a definition and a form of it
with a plausible mistake, which the run would find. They stand before the definition they belong to.

## 4. Where the code and its comments disagree

With a run:

1. `group.repository.ts:43` - errors that are not unique violations are swallowed: the request
   succeeds and `UserJoinedGroupEvent` is published for somebody who is not in a group (`MCGroupsFalseJoin`).
2. `participant.repository.ts:98` - the query behind the admission status joins assessments of every course but
   assignments of this one only; `abstract-rules.ts:30` then reads the type of `null`, and the request
   fails for all participants (`MCAdmissionForeign`).

Reproduced with the modules, by other values of the constants or the formula named:

 - `group.service.ts:178, 194` - students who join at the same time exceed the maximum capacity;
   `CapacityBound` is the bound that remains.
 - `assignment-scheduler.service.ts:189` - the next end is looked up among all assignments, also those that
   are not in progress. The timer fires, finds nothing, publishes nothing, and later ends are
   missed until something else publishes an event. (The counterpart of `StartsAtItsDate` for ends fails on the
   two assignments of `MCSchedCalm`.)
 - `assignment-scheduler.service.ts:170` - a start more than about 25 days ahead makes `setTimeout` fire at
   once, with the same consequence (`StartsAtItsDate` with `MaxDelay = 1`).
 - `assignment-scheduler.service.ts:156` - an older scheduling run removes the timer of a newer one
   (`StartsAtItsDate` with `Calm = FALSE` and one assignment).
 - `assignment-scheduler.service.ts:66-67, 109-114` - a job updates what its `find` returned, and the repository merges and saves
   (`assignment.repository.ts:37-41`): a lecturer who has moved the date or the state in between is overruled, and the assignment
   is started or stopped although it is not due any more. (With `Calm = FALSE` and one assignment, "an update of a
   job saves only what is still due" fails.)
 - `math.ts:46-48` - percentages are inexact: 11 of 20 points rounded UP are 56 percent, and 29 of 100 without
   rounding, or rounded DOWN, miss a required 29. `RulesDecideOnTheOverview` leaves the case open in which a
   quotient is exactly at a limit and the calculation errs; every other case it decides.
 - `mailing-listener.service.ts:272` - `blacklistedEvents` is declared with the keys of `Event` (`user-settings.entity.ts:25`,
   `user-settings.dto.ts:4`) and asked for those of `MailEvent` (`mail-templates.tsx:14`). No key is in both, so whoever
   declines events still gets their mails, though the comment at lines 260-263 speaks of "participants that do not want to receive
   emails (for this event)" and the test "All blacklists contain event -> Returns empty list"
   (`mailing-listener.service.spec.ts:296`) passes a key of `Event` that no handler passes. (In `MCDelivery`,
   `sent` contains users who have declined the event; `MailsReachWhoAllowsThem` says that a blacklist makes no difference.)
 - `group-merge.strategy.ts:102` - a closed or full group ends the collection, so that joinable groups
   behind it stay hidden, although the comment speaks of "no joinable group"; `PlacedWherePossible` is
   stated about the groups that are collected.

Met while modelling:

 - Groups: merging does not stop when a group is valid (`group-merge.strategy.ts:7` says it does) but goes on up
   to sizeMax; `Course` never takes over `isClosed`, so the checks on groups of closed courses always
   pass; a failing join leaves the new group of `createGroupAsStudent` open and empty; tutors who use
   `joinOrCreateGroup` get a new group that they are not in; `UserUnregistered.toNotificationDto` reports
   `USER_REGISTERED`; `autoJoinGroupOnCourseJoined`, with which "participants that join the course will
   automatically join a group" (`group-settings.dto.ts:33`), is stored and never acted on.
 - Courses: a change of role inserts a participant again who was removed meanwhile; a patch of the group
   settings writes the whole row and undoes another lecturer's patch.
 - Assessments: an update inserts a deleted assessment again; the points are validated at the creation only;
   `removeAllocation` without a target (`assessment-allocation.repository.ts:102`) deletes all allocations of
   the assignment and reports a failure.
 - Mails: the one about a member who left looks him up among the members that are left
   (`mailing-listener.service.ts:238`) and ends in a TypeError unless he is back, so that hardly anybody ever gets it.
 - Accounts: a login that changes the account writes back the role that it has read; `userInfoHasChanged`
   is always true for an account without a full name.

The properties that hold except for one of these behaviours say so where they are defined, and the hazards in
`PROJECT.json` name no property that excepts the very interleaving they are about: a lost patch of the group settings,
a role that a login takes back, a cached account that has changed since, overlapping updates of one assessment, a
registration that fails and is announced. These are in the models, with a property that says what holds beside them.

## 5. Proofs

Every invariant and every action property that a passing run checks is also a theorem, proved for all
values of the constants that satisfy the named assumption of its module. `tlapm` checks every leaf with
Z3, Zenon and LS4. The assumptions say what the bounds and the markers are (natural
numbers; `NoGroup`, `NoDate`, `Keep` and the like are none of the things they stand in for) and, where an argument counts,
that a set is finite: `Requests` in `CourseGroups`, `Keys` in `Assessments`, the
assignments of a course in `AdmissionStatus`, and `Users` in `Accounts`, of whom there are no more than ids. Nothing else is assumed of the code: requests, crashes and changes
from outside interleave as `Next` lets them.

Each proof module has the same shape: lemmas about the operators and the requests in flight, one lemma for each
action, one for the initial state, `Consistency` (the inductive invariant), and the
properties that follow from it. What an inductive invariant adds to the property is always of two kinds: what
the database guarantees (indexes, foreign keys, ids that are not used twice), and what a request
*carries* from one await to the next. All inductive invariants were checked by TLC on the instances of the runs as well.

**CourseGroups.** `OneGroupPerParticipant` is not inductive: no index of the table forbids two
relations of one *user*. The indexes speak of one relation per participant row and of one per user
and group. The invariant `IndInv` closes the gap: relations refer to the *current*
participant row of their user (`RelationsReferToLiveRows`, kept by the foreign keys and the cascades),
participant rows have one relation each (`RelationsUnique`), and ids are used once
(`ParticipantsUnique`). `RequestsConsistent` and `ClosersConsistent` say what requests in flight carry: a
group that was once handed out, a participant id that is not 0, columns that have been loaded.

 - `Consistency`, `TypeCorrectness`, `ReferentialIntegrity`, `SingleGroup`: the invariants.
 - `MembershipRefinement`: `Spec => Membership!Spec` with `groupOf` mapped to the group of the
   user's relation. Inserting a relation is `Join`, as the user then had none; leaving a group
   or the course is `Leave`; deleting a group is `Dissolve`; everything else stutters.
 - `CapacityTheorem`: with students only, size plus joins in flight never exceeds
   `SizeMax - 1 + Cardinality(Requests)`. The counting argument: a request passes
   `HasCapacity` only below sizeMax, there are never more joins in flight than slots, and an insert
   trades one for the other. It rests on `IndInv` and the finiteness of `rel`.
 - `LedgerIsTrue`: joined minus left events of a user and a group is the number of their relations. The
   property speaks of behaviours in which nobody deletes a group or leaves the course, as those publish no
   event; `LedgerInv` adds that then every group that was created is there and a join that is about to insert
   holds the current participant row, so the error that `addUserToGroup` swallows cannot happen. A step
   appends one event at most, and changes the relations of that user and that group only.

**GroupMerge.** `IndInv` adds to the properties what the loops know: in the inner loop `size` is the size of
the group in hand and `first <= i`; a merged group is either joinable or too small; and those
already dealt with are out of reach of every collected group. A merge changes one pair of groups, so lemma
`MergeStep` proves once what both loops keep. Theorems: `MergeInvariant`, `NobodyLost`,
`MergedGroupsAreNotOverfull`, `NoGroupIsSplit`, `PlacementIsExhaustive`.

**AssignmentRegistration.** `RegisteredOnce` is about users, the index of `group_registration_relation`
(`RowsUnique`) about participant ids: `ParticipantsConsistent` says that an id belongs to one
user and is not used again. `RequestsConsistent` holds what a start of an assignment needs: the members that it has
read are those of *different* groups, each in one, so that the rows it inserts in one statement do not collide with each other,
and a registration that a request has found is the one of its group and assignment, dead or alive.
Theorems: `TypeCorrectness`, `ReferentialIntegrity`, `SingleRegistration`, `NoSwitch` (an action property: a
step that takes a user out of one group does not put him into another), `EventsAreTrue`.

**CourseAdministration.** `IdsAreFresh` and `OneConfig` are the keys. `RequestsConsistent` says that a join past
its check was welcome when it was checked, and that the settings that a request has loaded are still
those in the table unless another patch has overlapped; the second is what makes `NothingLostFromSettings` a
theorem although the whole row is written. `QueryTellsTheTruth` compares the query with the join it foretells.
`EntriesAdmitted` follows every way by which a row gets into `participant`: nobody gets in without a join for him that the course
admitted at some moment, except as lecturer of a new course or by a change of role that brings his row back. The join need
not be his own: `addUser` (`course-participants.controller.ts:55-68`) asks for nothing but a login, so that any user
who knows the password can add another one.

**Assessments.** `AssessedOnce` needs little more than the index, but `TypeOK` contains the indexes of the partial
assessments, which `save` may insert *again* after they were deleted: `PartialsKnown` and `AssessmentsKnown`
extend the keys to the rows that requests hold in memory. `RecordedScores` is the deep one. `ScoresConsistent`
follows an assessment on which no updates have overlapped: at most one update of it is in flight, and what
is recorded lags behind what happened by exactly the event which that update is about to publish
(`Recording`). Deleting a user removes his events from both lists; that this commutes with appending
is lemma `WithoutAppend`, on the recursive function behind `Without`.
`PointsOutliveGroups` is the action property about groups and registrations.

**AdmissionStatus.** The rules sum up the points of assessments, the overview has one cell for each
assignment; that both are the same is `RulesAgreeWithOverview`. Sums are folds over sets, whose order is
a `CHOOSE`: `IsSum` states the sum over each subset *whichever element is counted last*, `SumExists` and
`CountsSum` show that the fold calculates it, and `TotalTransfer` that a sum does not change when its terms are
counted under other names, here assessments under their assignments, one for each by `AssessedOnce`. The arithmetic of the
four roundings is in `FloorReaches`, `CeilReaches` and `RoundedReaches`: each is a comparison of products in which a slack is
granted (less than one percent for UP, half a unit of the last place for DECIMALS, nothing otherwise), and the
direction of the error decides where both sides are equal. `RulesDecideOnTheOverview` bounds a rule from both sides: whoever shows
strictly more than the limit passes (`EnoughIsSufficient`), whoever shows less than it fails. `MorePointsHelp` is the
monotonicity that students expect, from `TotalGrows` and `SufficientGrows`, for any step of the system; it needs of the errors
only that they occur where a quotient is no whole number.

**Evaluators.** Two inductive invariants. `AllocationsInv`: as `save` may insert an allocation again, keys
are extended to the rows in memory (`AllocsKnown`), and what a copy inserts in one statement is for
different targets (`TargetsDiffer`). It gives `SingleAllocation`. `ListsInv`: assessments keep their group unless it is
deleted (`AssessmentsKeepGroups`), and the points of an assignment are credited once
(`RelationsCreditOnce`). It gives `ListsAreInStep`, the action property that a group and its members
leave the two lists of an evaluator, and come back onto them, in the same step.

**AssignmentScheduler.** `SchedulerInv` gives the types: the calls in flight are bags, so every action that ends
one and begins another rests on lemmas about bags. `StartInv` gives `FirstStartRegisters`. An update compares the new state
with that of the copy its guard or its job had loaded, and the copy may be old: `ProgressConsistent` says that
whoever has seen an assignment in progress - as old state, or in the columns it is about to write back - has seen it when its registration
had been tried or was under way, so that an update that does not take itself for the start is not the first. It holds for
lecturers, jobs, deletions and restarts at any moment. What it excepts is the process that ends between the save and the registration.

**Accounts and EventDelivery.** `DeliveryInv` covers both, as they share the tables. `AccountsKnown` extends the keys of
accounts to rows that logins, administrators and the cache hold in memory; `LoginsConsistent` says
that a login which nobody has overtaken has read what is stored, which gives `CacheIsTrue` and
`RoleOutlivesLogin`. `MailConsistent` relates the three stages of a mail handler (its event, its
audience, its receivers) to two sets of users kept as history, those who were due the mail ever since
the event and those who allowed mails at some time since: `MailsArrive` bounds the addressees from both sides. That
the receivers are those who allow mails, whatever they have blacklisted, is lemma `ReceiversAre`: the keys of mails and those
of blacklists are disjoint.

*Model-checked only:* liveness under fairness (`EmptiedGroupIsClosed`, `StartsAtItsDate`,
`JobsMissNothing`, `Terminates`), which the prover does not handle, and the two runs that show a disagreement. No
module that a theorem is about declares a recursive operator; `Without` is a recursive function, and
inductions are over sets (lemmas `Induction`, `SubsetInduction`), because the induction theorems of
the library take predicates as parameters.

## 6. Not modelled, and what could follow

 - *Submissions*: a table that only grows; reading the latest entry of each user is its only logic.
 - *Export*: formats the results of queries as Excel files and keeps no state.
 - *Group history*: lists the joined and left events of a group or an assignment, newest first. Nothing is decided by it;
   `LedgerMatchesRelations` is about the events it lists.
 - *Names of groups*: the name schema picks the first free number. In `CourseGroups` a conflict of names may happen
   whenever there is another group, which covers all outcomes of that choice.
 - *Comparison of participants with another course*, and the other queries that only list rows for the staff.
 - *The authentication strategy for tests*, which believes the header; decorators, DTO validation, the
   framework's wiring, migrations and demo data.

What could follow, most useful first:

1. A refinement for the registrations like the one of `CourseGroups`: for each assignment a map from participants to
   groups, which `RegisteredOnce` and `NoSilentSwitch` together describe already.
2. `AssessedOnce` and `PointsSurviveGroupChanges` in the composition with allocations: their theorems are about
   `AssessmentsSpec`; `Evaluators` repeats the steps of `Assessments` with the allocations beside them and proves
   what it needs of them in `ListsInv`.
3. The safety half of the liveness properties: that what is waited for stays enabled until it happens.

A counterexample is kept as a run only where a comment of the repository says otherwise.
