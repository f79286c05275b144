----------------------------- MODULE EventDelivery -----------------------------
(***************************************************************************)
(* What becomes of an event once it is published: the mails of             *)
(* MailingListener and the posts of NotificationService to the subscribers *)
(* of the course.  Handlers run after the request that has published, each *)
(* reads the group, the participants and their settings when its turn      *)
(* comes; meanwhile members leave and accounts and settings change         *)
(* (module Accounts).                                                      *)
(*                                                                         *)
(* Languages and the texts of mails are left out; SMTP and the endpoints   *)
(* of subscribers are external: sending is the last thing that is modelled.*)
(***************************************************************************)
EXTENDS Accounts, Sequences

CONSTANTS
    Names,     \* names of subscribers
    MaxEvents  \* bound: how many events are published

ASSUME EventDeliveryAssumption == MaxEvents \in Nat

VARIABLES
    group,        \* whether the group exists
    members,      \* participants that are members of the group
    reviewed,     \* accounts that have an assessment for the assignment
    subscribers,  \* rows of subscriber
    published,    \* the events, in the order of their publication
    mail,         \* the mail handler of each event
    posts,        \* the notification handler of each event
    willing,      \* history: accounts that have allowed mails at some moment since
    steady        \* history: accounts that have been due a mail all the time since

eventVars == <<group, members, reviewed, subscribers, published, mail, posts>>
handlers == <<published, mail, posts>>
vars == <<accountVars, eventVars, willing, steady>>

-----------------------------------------------------------------------------
(* Data *)

\* MailEvent, and the event that each mail is about; no subscriber hears of a score.
AssignmentKinds == {"ASSIGNMENT_STARTED", "ASSIGNMENT_EVALUATED", "ASSESSMENT_SCORE_CHANGED"}
GroupKinds == {"PARTICIPANT_JOINED_GROUP", "PARTICIPANT_LEFT_GROUP"}
MailKinds == AssignmentKinds \cup GroupKinds
EventOf(kind) ==
    CASE kind = "PARTICIPANT_JOINED_GROUP" -> "USER_JOINED_GROUP"
      [] kind = "PARTICIPANT_LEFT_GROUP" -> "USER_LEFT_GROUP"
      [] OTHER -> "ASSIGNMENT_STATE_CHANGED"
Interests == SUBSET (Event \cup {"ALL"})
Subscriber == [id : Id, name : Names, events : Interests]
Events == 1 .. MaxEvents

\* audience, receivers: empty until the query has run, then the set it has returned.
NewMail == [pc |-> "run", audience |-> {}, receivers |-> {}, sent |-> {}]
Done(sent) == [pc |-> "done", audience |-> {}, receivers |-> {}, sent |-> sent]

\* Requests of subscribers; the row is new if its id is 0.
SubscriberRequest ==
    [op : {"subscribe"}, pc : {"find"}, name : Names, events : Interests]
    \cup [op : {"unsubscribe"}, pc : {"find"}, name : Names]
    \cup [op : {"subscribe", "unsubscribe"}, pc : {"save"},
          row : [id : Id \cup {0}, name : Names, events : Interests]]

DeliveryTypeOK ==
    /\ TypeOK
    /\ req \in [Requests -> {Idle} \cup AccountRequest \cup SubscriberRequest]
    /\ group \in BOOLEAN /\ members \subseteq participants /\ (~group => members = {})
    /\ reviewed \subseteq {x.id : x \in accounts}
    /\ subscribers \subseteq Subscriber
    /\ \A x, y \in subscribers : x.id = y.id \/ x.name = y.name => x = y
    /\ Len(published) <= MaxEvents
    /\ DOMAIN mail = Events /\ DOMAIN posts = Events
    /\ \A e \in Events : e > Len(published) => mail[e] = Done({}) /\ posts[e] = Done({})
    /\ \A e \in Events : mail[e].sent \subseteq Id /\ posts[e].sent \subseteq Names

-----------------------------------------------------------------------------
(* Publishing *)

Publish(kind, account) ==
    LET e == Len(published) + 1 IN
    /\ e <= MaxEvents
    /\ published' = Append(published, [kind |-> kind, account |-> account])
    /\ mail' = [mail EXCEPT ![e] = NewMail]
    /\ posts' = [posts EXCEPT ![e] = IF kind = "ASSESSMENT_SCORE_CHANGED" THEN @ ELSE NewMail]

OnlyCourse(op) == op \in Ops /\ Count /\ UNCHANGED <<sparky, rows, cache, req, overtaken, stale, revived>>

JoinGroup(p) ==
    /\ group /\ members' = members \cup {p} /\ members' # members
    /\ Publish("PARTICIPANT_JOINED_GROUP", p.account)
    /\ OnlyCourse("group") /\ UNCHANGED <<group, reviewed, subscribers>>

LeaveGroup(p) ==
    /\ members' = members \ {p}
    /\ Publish("PARTICIPANT_LEFT_GROUP", p.account)
    /\ OnlyCourse("group") /\ UNCHANGED <<group, reviewed, subscribers>>

DeleteGroup ==
    /\ group' = FALSE /\ members' = {} /\ group
    /\ OnlyCourse("group") /\ UNCHANGED <<reviewed, subscribers, handlers>>

\* An assignment is started or evaluated, or the score of the assessment changes.
AssignmentEvent(kind) ==
    /\ kind = "ASSESSMENT_SCORE_CHANGED" => reviewed # {}
    /\ Publish(kind, 0)
    /\ OnlyCourse("assignment") /\ UNCHANGED <<group, members, reviewed, subscribers>>

Assess(accountIds) ==
    /\ reviewed = {} /\ accountIds # {} /\ reviewed' = accountIds
    /\ OnlyCourse("assignment") /\ UNCHANGED <<group, members, subscribers, handlers>>

-----------------------------------------------------------------------------
(* Mails *)

\* Mutant: that the user allows no mails is forgotten.
AcceptsUnlessBlacklisted(x, kind) ==
    x.info # NoEmail /\ \A s \in settings : s.id = x.id => kind \notin s.blacklisted

\* filterReceivers: no mail without an address; without settings, every mail.  A
\* blacklist has keys of Event and is asked for one of MailEvent.
Accepts(x, kind) ==
    /\ x.info # NoEmail
    /\ \A s \in settings : s.id = x.id => s.allowEmails /\ kind \notin s.blacklisted

\* getParticipantsWithUserSettings
Receivers(kind) ==
    {x.id : x \in {y \in accounts : Accepts(y, kind) /\ CoursesOf(y.id) # {}}}

\* Whom the mail is about: the members of the group, or who has an assessment.
Audience(kind) ==
    CASE kind = "ASSIGNMENT_STARTED" -> {x.id : x \in accounts}
      [] kind \in GroupKinds -> {p.account : p \in members}
      [] OTHER -> reviewed

\* The first query; getGroup and getAssessmentById fail if nothing is there.
ReadAudience(e) ==
    LET kind == published[e].kind IN
    /\ mail[e].pc = "run" /\ mail[e].audience = {}
    /\ IF (kind \in GroupKinds /\ ~group) \/ (kind = "ASSESSMENT_SCORE_CHANGED" /\ reviewed = {})
       THEN mail' = [mail EXCEPT ![e] = Done({})]
       ELSE mail' = [mail EXCEPT ![e].audience = {Audience(kind)}]

\* The second query, which onAssignmentEvaluated makes at the same time.
ReadReceivers(e) ==
    LET kind == published[e].kind IN
    /\ mail[e].pc = "run" /\ mail[e].receivers = {}
    /\ mail[e].audience # {} \/ kind = "ASSIGNMENT_EVALUATED"
    /\ mail' = [mail EXCEPT ![e].receivers = {Receivers(kind)}]

\* The student that the event is about gets no mail.  His name is looked up
\* among the members for every mail: without him, a TypeError before the first.
SendMails(e) ==
    LET event == published[e] IN
    /\ mail[e].pc = "run"
    /\ \E audience \in mail[e].audience, receivers \in mail[e].receivers :
          LET recipients == (audience \cap receivers) \ {event.account} IN
          mail' = [mail EXCEPT ![e] =
              Done(IF event.kind \in GroupKinds /\ event.account \notin audience
                   THEN {} ELSE recipients)]

Mail(e) ==
    /\ ReadAudience(e) \/ ReadReceivers(e) \/ SendMails(e)
    /\ UNCHANGED <<accountVars, group, members, reviewed, subscribers, published, posts>>

-----------------------------------------------------------------------------
(* Subscribers *)

\* The filter of notifySubscribers.
Interested(x, kind) == {"ALL", EventOf(kind)} \cap x.events # {}

\* notifySubscribers: one query, then a post to each, which nothing waits for.
Notify(e) ==
    /\ posts[e].pc = "run"
    /\ posts' = [posts EXCEPT ![e] =
          Done({x.name : x \in {y \in subscribers : Interested(y, published[e].kind)}})]
    /\ UNCHANGED <<accountVars, group, members, reviewed, subscribers, published, mail>>

StartSubscribe(r, name, kinds) ==
    Begin(r, [op |-> "subscribe", pc |-> "find", name |-> name, events |-> kinds])

StartUnsubscribe(r, name) == Begin(r, [op |-> "unsubscribe", pc |-> "find", name |-> name])

\* addOrUpdate and removeSubscriber look for the row first.
FindSubscriber(r) ==
    LET q == req[r] found == {x \in subscribers : x.name = q.name} IN
    /\ \E op \in {"subscribe", "unsubscribe"} : At(r, op, "find")
    /\ \/ \E x \in found :
             GoOn(r, [op |-> q.op, pc |-> "save",
                      row |-> IF q.op = "subscribe" THEN [x EXCEPT !.events = q.events] ELSE x])
       \/ /\ found = {} /\ q.op = "subscribe"
          /\ GoOn(r, [op |-> q.op, pc |-> "save",
                      row |-> [id |-> 0, name |-> q.name, events |-> q.events]])
       \/ found = {} /\ q.op = "unsubscribe" /\ NoChange(r)
    /\ UNCHANGED eventVars

\* The index on name and course; a row that is gone is inserted again.
SaveSubscriber(r) ==
    LET x == req[r].row free == \A y \in subscribers : y.name = x.name => y.id = x.id IN
    /\ At(r, "subscribe", "save")
    /\ \/ /\ free /\ x.id # 0
          /\ subscribers' = {y \in subscribers : y.id # x.id} \cup {x}
          /\ UNCHANGED nextId
       \/ /\ free /\ x.id = 0 /\ NewId
          /\ subscribers' = subscribers \cup {[x EXCEPT !.id = nextId]}
       \/ ~free /\ UNCHANGED <<subscribers, nextId>>
    /\ Advance(r, Idle)
    /\ UNCHANGED <<accounts, settings, participants, cache, overtaken, stale, revived,
                   group, members, reviewed, handlers>>

RemoveSubscriber(r) ==
    /\ At(r, "unsubscribe", "save")
    /\ subscribers' = {y \in subscribers : y.id # req[r].row.id}
    /\ NoChange(r)
    /\ UNCHANGED <<group, members, reviewed, handlers>>

-----------------------------------------------------------------------------
(* Specification *)

\* Who allows mails and can be reached, whichever events he has blacklisted.
Allowing ==
    {x.id : x \in {y \in accounts : /\ y.info # NoEmail /\ CoursesOf(y.id) # {}
                                  /\ \A s \in settings : s.id = y.id => s.allowEmails}}

\* What is due to whom: nothing as long as the name of the student is not found.
Due(event) ==
    LET audience == Audience(event.kind) IN
    IF event.kind \in GroupKinds /\ event.account \notin audience THEN {}
    ELSE (audience \cap Allowing) \ {event.account}

Init ==
    /\ InitAccounts
    /\ group = TRUE /\ members \in SUBSET participants /\ reviewed = {} /\ subscribers = {}
    /\ published = <<>>
    /\ mail = [e \in Events |-> Done({})] /\ posts = [e \in Events |-> Done({})]
    /\ willing = [e \in Events |-> {}]
    /\ steady = willing

\* Whoever loses his account or leaves the course loses what refers to it.
AccountStep ==
    /\ AccountsNext
    /\ members' = members \cap participants'
    /\ reviewed' = reviewed \cap {x.id : x \in accounts'}
    /\ UNCHANGED <<group, subscribers, handlers>>

\* Events live in memory only.
Lose(tasks) == [e \in Events |-> IF tasks[e].pc = "run"
                                 THEN [Done({}) EXCEPT !.pc = "lost"] ELSE tasks[e]]
Restart ==
    /\ Crash
    /\ mail' = Lose(mail) /\ posts' = Lose(posts)
    /\ UNCHANGED <<group, members, reviewed, subscribers, published>>

CourseStep ==
    \/ \E p \in participants : JoinGroup(p)
    \/ \E p \in members : LeaveGroup(p)
    \/ DeleteGroup
    \/ \E kind \in AssignmentKinds : AssignmentEvent(kind)
    \/ \E x \in SUBSET {y.id : y \in accounts} : Assess(x)

Subscriptions(r) ==
    \/ /\ \E name \in Names :
             \/ \E kinds \in {{"ALL"}, {"ASSIGNMENT_STATE_CHANGED"}} : StartSubscribe(r, name, kinds)
             \/ StartUnsubscribe(r, name)
       /\ UNCHANGED eventVars
    \/ FindSubscriber(r) \/ SaveSubscriber(r) \/ RemoveSubscriber(r)

Remember ==
    LET running(e) == e <= Len(published') /\ mail'[e].pc = "run" IN
    /\ willing' = [e \in Events |-> IF running(e) THEN willing[e] \cup Allowing' ELSE {}]
    /\ steady' = [e \in Events |-> IF ~running(e) THEN {} ELSE
                     IF e > Len(published) THEN Due(published[e])'
                     ELSE steady[e] \cap Due(published[e])']

Next ==
    /\ \/ AccountStep \/ CourseStep \/ Restart
       \/ \E r \in Requests : Subscriptions(r)
       \/ \E e \in Events : Mail(e) \/ Notify(e)
    /\ Remember

Spec == Init /\ [][Next]_vars

-----------------------------------------------------------------------------
(* Properties *)

\* A handler of mails that comes to its end has written to everyone who was due
\* a mail all the time since the event, whichever events he has blacklisted, and
\* only to users who have allowed mails at some moment since.  A leaver is not
\* found among the members, so that nothing is due after he has left, until he is
\* back.
MailsReachWhoAllowsThem ==
    [][\A e \in Events : mail[e].pc = "run" /\ mail'[e].pc = "done" =>
          steady[e] \subseteq mail'[e].sent /\ mail'[e].sent \subseteq willing[e]]_vars

-----------------------------------------------------------------------------
(* The inductive strengthening *)

Task(names) == [pc : {"run", "done", "lost"}, audience : SUBSET SUBSET Id,
                receivers : SUBSET SUBSET Id, sent : SUBSET names]

TasksOK ==
    /\ published \in Seq([kind : MailKinds, account : Id \cup {0}])
    /\ mail \in [Events -> Task(Id)] /\ posts \in [Events -> Task(Names)]
    /\ willing \in [Events -> SUBSET Id] /\ steady \in [Events -> SUBSET Id]

\* Ids of subscribers are not used twice.
SubscribersKnown ==
    /\ \A x \in subscribers : x.id < nextId
    /\ \A r \in Requests : req[r].op \in {"subscribe", "unsubscribe"} /\ req[r].pc = "save" =>
          req[r].row.id < nextId

\* Who is due a mail is among those that a handler has read, who have allowed mails.
MailConsistent(e) ==
    LET event == published[e] IN
    /\ Allowing \subseteq willing[e]
    /\ steady[e] \subseteq Due(event)
    /\ \A receivers \in mail[e].receivers :
          steady[e] \subseteq receivers /\ receivers \subseteq willing[e]
    /\ \A audience \in mail[e].audience :
          IF event.kind \in GroupKinds /\ event.account \notin audience
          THEN steady[e] = {} ELSE steady[e] \subseteq audience \ {event.account}

TasksConsistent == \A e \in Events : mail[e].pc = "run" => MailConsistent(e)

DeliveryInv ==
    DeliveryTypeOK /\ AccountsInv /\ TasksOK /\ SubscribersKnown /\ TasksConsistent
=============================================================================
