--------------------------- MODULE AssessmentsProofs ---------------------------
(***************************************************************************)
(* Proofs about Assessments and AdmissionStatus, for every value of their  *)
(* constants.                                                              *)
(***************************************************************************)
EXTENDS AdmissionStatus, FiniteSetTheorems, TLAPS

-----------------------------------------------------------------------------
(* Lemmas about events: what is left when those of a user are deleted *)

\* Induction over the natural numbers, for a set instead of a predicate.
LEMMA Induction ==
    ASSUME NEW S, 0 \in S, \A n \in Nat : n \in S => n + 1 \in S
    PROVE  Nat \subseteq S
  <1> SUFFICES ASSUME NEW m \in Nat, m \notin S PROVE FALSE
    OBVIOUS
  <1> DEFINE T == {n \in Nat : n \notin S}
  <1>1. \E x \in T : \A y \in T : ~ (<<y, x>> \in OpToRel(<, Nat))
    <2>1. T \subseteq Nat /\ T # {}
      OBVIOUS
    <2> HIDE DEF T
    <2> QED
      BY <2>1, NatLessThanWellFounded, WFMin
  <1>2. PICK x \in T : \A y \in T : ~(y < x)
    BY <1>1 DEF OpToRel
  <1>3. x # 0 /\ x \in Nat
    OBVIOUS
  <1>4. x - 1 \in Nat /\ x - 1 < x
    BY <1>3
  <1>5. x - 1 \in S
    BY <1>2, <1>4
  <1> QED
    BY <1>3, <1>4, <1>5

\* The recursive function that Without is made of.
IsKept(u, events, f) ==
    f = [n \in 0 .. Len(events) |->
            IF n = 0 THEN <<>>
            ELSE IF events[n].by = u THEN f[n - 1] ELSE Append(f[n - 1], events[n])]

\* Such a function exists: it is made longer event by event.
LEMMA KeptExists ==
    ASSUME NEW u, NEW S, NEW events \in Seq(S)
    PROVE  \E f : IsKept(u, events, f)
  <1> DEFINE Upto(k, f) == f = [n \in 0 .. k |->
            IF n = 0 THEN <<>>
            ELSE IF events[n].by = u THEN f[n - 1] ELSE Append(f[n - 1], events[n])]
       Good == {k \in Nat : \E f : Upto(k, f)}
  <1>1. 0 \in Good
    <2>1. Upto(0, [n \in {0} |-> <<>>])
      OBVIOUS
    <2> QED
      BY <2>1
  <1>2. ASSUME NEW k \in Nat, k \in Good
        PROVE  k + 1 \in Good
    <2>1. PICK f : Upto(k, f)
      BY <1>2
    <2> DEFINE last == IF events[k + 1].by = u THEN f[k] ELSE Append(f[k], events[k + 1])
               g == [n \in 0 .. k + 1 |-> IF n = k + 1 THEN last ELSE f[n]]
    <2>2. Upto(k + 1, g)
      <3> SUFFICES ASSUME NEW n \in 0 .. k + 1
                   PROVE  g[n] = IF n = 0 THEN <<>>
                                 ELSE IF events[n].by = u THEN g[n - 1] ELSE Append(g[n - 1], events[n])
        OBVIOUS
      <3>1. n # k + 1 => n \in 0 .. k
        OBVIOUS
      <3>2. n # 0 => n - 1 \in 0 .. k /\ g[n-1] = f[n - 1]
        OBVIOUS
      <3>3. g[n] = IF n = k + 1 THEN last ELSE f[n]
        OBVIOUS
      <3> HIDE DEF g
      <3>4. n \in 0 .. k => f[n] = IF n = 0 THEN <<>>
                                 ELSE IF events[n].by = u THEN f[n - 1] ELSE Append(f[n - 1], events[n])
        BY <2>1
      <3> QED
        BY <3>1, <3>2, <3>3, <3>4
    <2> QED
      <3> HIDE DEF Upto, g
      <3>1. k + 1 \in Nat /\ \E h : Upto(k + 1, h)
        BY <2>2
      <3> QED
        BY <3>1
  <1>3. Len(events) \in Nat
    OBVIOUS
  <1>4. Len(events) \in Good
    <2> HIDE DEF Good
    <2> QED
      BY <1>1, <1>2, <1>3, Induction
  <1> QED
    BY <1>4 DEF IsKept

\* It gives what is left when the events of a user are deleted.
LEMMA KeptIs ==
    ASSUME NEW u, NEW S, NEW events \in Seq(S)
    PROVE  \E f : IsKept(u, events, f) /\ Without(u, events) = f[Len(events)]
  <1> DEFINE f == CHOOSE g : IsKept(u, events, g)
  <1>1. IsKept(u, events, f)
    BY KeptExists
  <1>2. Without(u, events) = f[Len(events)]
    BY DEF Without, IsKept
  <1> QED
    BY <1>1, <1>2

\* What is left are events.
LEMMA WithoutType ==
    ASSUME NEW u, NEW S, NEW events \in Seq(S)
    PROVE  Without(u, events) \in Seq(S)
  <1>1. PICK f : IsKept(u, events, f) /\ Without(u, events) = f[Len(events)]
    BY KeptIs
  <1> DEFINE Good == {k \in Nat : k <= Len(events) => f[k] \in Seq(S)}
  <1>2. 0 \in Good
    <2>1. 0 \in 0 .. Len(events)
      OBVIOUS
    <2>2. f[0] = <<>>
      BY <1>1, <2>1 DEF IsKept
    <2>3. <<>> \in Seq(S) /\ 0 \in Nat
      OBVIOUS
    <2> QED
      BY <2>2, <2>3
  <1>3. ASSUME NEW k \in Nat, k \in Good
        PROVE  k + 1 \in Good
    <2> SUFFICES ASSUME k + 1 <= Len(events) PROVE f[k + 1] \in Seq(S)
      OBVIOUS
    <2>1. f[k] \in Seq(S) /\ k + 1 \in 1 .. Len(events) /\ events[k + 1] \in S
      BY <1>3
    <2>2. f[k + 1] = IF events[k + 1].by = u THEN f[k] ELSE Append(f[k], events[k + 1])
      <3>1. k + 1 \in 0 .. Len(events) /\ k + 1 # 0 /\ (k + 1) - 1 = k
        BY <2>1
      <3> QED
        BY <1>1, <3>1 DEF IsKept
    <2> QED
      BY <2>1, <2>2
  <1>4. Len(events) \in Good
    <2> HIDE DEF Good
    <2>1. Nat \subseteq Good
      BY <1>2, <1>3, Induction
    <2> QED
      BY <2>1
  <1> QED
    BY <1>1, <1>4

\* The last event is left or not; what is left before it does not depend on it.
LEMMA WithoutAppend ==
    ASSUME NEW u, NEW S, NEW events \in Seq(S), NEW e \in S
    PROVE  Without(u, Append(events, e)) =
             IF e.by = u THEN Without(u, events) ELSE Append(Without(u, events), e)
  <1> DEFINE more == Append(events, e)
             L == Len(events)
  <1>0. /\ more \in Seq(S) /\ Len(more) = L + 1 /\ L \in Nat /\ more[L + 1] = e
        /\ \A n \in 1 .. L : more[n] = events[n]
    OBVIOUS
  <1> HIDE DEF more
  <1>1. PICK f : IsKept(u, events, f) /\ Without(u, events) = f[L]
    BY KeptIs
  <1>2. PICK g : IsKept(u, more, g) /\ Without(u, more) = g[Len(more)]
    BY <1>0, KeptIs
  <1> DEFINE Good == {k \in Nat : k <= L => f[k] = g[k]}
  <1>f. \A n \in 0 .. L : f[n] = IF n = 0 THEN <<>>
            ELSE IF events[n].by = u THEN f[n - 1] ELSE Append(f[n - 1], events[n])
    BY <1>1 DEF IsKept
  <1>g. \A n \in 0 .. L + 1 : g[n] = IF n = 0 THEN <<>>
            ELSE IF more[n].by = u THEN g[n - 1] ELSE Append(g[n - 1], more[n])
    BY <1>0, <1>2 DEF IsKept
  <1> HIDE DEF L
  <1>3. 0 \in Good
    <2>1. 0 \in 0 .. L /\ 0 \in 0 .. L + 1
      BY <1>0
    <2> QED
      BY <1>f, <1>g, <2>1
  <1>4. ASSUME NEW k \in Nat, k \in Good
        PROVE  k + 1 \in Good
    <2> SUFFICES ASSUME k + 1 <= L PROVE f[k + 1] = g[k + 1]
      OBVIOUS
    <2>1. f[k] = g[k] /\ k + 1 \in 1 .. L /\ k + 1 \in 0 .. L /\ k + 1 \in 0 .. L + 1
          /\ (k + 1) - 1 = k /\ more[k + 1] = events[k + 1] /\ k + 1 # 0
      BY <1>0, <1>4
    <2>2. f[k + 1] = IF events[k + 1].by = u THEN f[k] ELSE Append(f[k], events[k + 1])
      BY <1>f, <2>1
    <2>3. g[k + 1] = IF more[k + 1].by = u THEN g[k] ELSE Append(g[k], more[k + 1])
      BY <1>g, <2>1
    <2> QED
      BY <2>1, <2>2, <2>3
  <1>5. L \in Good
    <2> HIDE DEF Good
    <2>1. Nat \subseteq Good
      BY <1>3, <1>4, Induction
    <2> QED
      BY <1>0, <2>1
  <1>6. g[L + 1] = IF e.by = u THEN g[L] ELSE Append(g[L], e)
    <2>1. L + 1 \in 0 .. L + 1 /\ L + 1 # 0 /\ (L + 1) - 1 = L
      BY <1>0
    <2> QED
      BY <1>0, <1>g, <2>1
  <1> QED
    BY <1>0, <1>1, <1>2, <1>5, <1>6 DEF L, more

-----------------------------------------------------------------------------
(* Lemmas about rows *)

\* A row is found by its id.
LEMMA TheRow ==
    ASSUME NEW S, \A x, y \in S : x.id = y.id => x = y, NEW x \in S
    PROVE  (CHOOSE y \in S : y.id = x.id) = x
  OBVIOUS

\* A finite set as a sequence: every element, once.
LEMMA SetAsSequence ==
    ASSUME NEW S, IsFiniteSet(S)
    PROVE  /\ Cardinality(S) \in Nat
           /\ SetToSeq(S) \in [1 .. Cardinality(S) -> S]
           /\ \A i, j \in 1 .. Cardinality(S) : SetToSeq(S)[i] = SetToSeq(S)[j] => i = j
  <1>1. Cardinality(S) \in Nat /\ ExistsBijection(1 .. Cardinality(S), S)
    BY FS_CardinalityType
  <1>2. \E f \in [1 .. Cardinality(S) -> S] : IsInjective(f)
    BY <1>1 DEF ExistsBijection, Bijection, Injection
  <1>3. SetToSeq(S) \in [1 .. Cardinality(S) -> S] /\ IsInjective(SetToSeq(S))
    BY <1>2 DEF SetToSeq
  <1> QED
    BY <1>1, <1>3 DEF IsInjective

\* New partial assessments: one for each key, with ids that follow each other.
LEMMA NewPartialsAre ==
    ASSUME NEW keys \in SUBSET Keys, NEW id, nextIds.partial \in Nat
    PROVE  LET new == NewPartials(id, keys) IN
           /\ Cardinality(keys) \in Nat /\ Cardinality(new) = Cardinality(keys)
           /\ \A p \in new : /\ p = [id |-> p.id, assessment |-> id, key |-> p.key]
                             /\ p.key \in keys
                             /\ p.id \in Nat /\ p.id >= nextIds.partial
                             /\ p.id < nextIds.partial + Cardinality(keys)
           /\ \A p, q \in new : p.id = q.id \/ p.key = q.key => p = q
  <1> DEFINE n == Cardinality(keys)
             seq == SetToSeq(keys)
             row(i) == [id |-> nextIds.partial + i - 1, assessment |-> id, key |-> seq[i]]
             new == {row(i) : i \in 1 .. n}
             f == [i \in 1 .. n |-> row(i)]
  <1>1. IsFiniteSet(keys)
    BY FS_Subset, AssessmentsAssumption
  <1>2. /\ n \in Nat /\ seq \in [1 .. n -> keys]
        /\ \A i, j \in 1 .. n : seq[i] = seq[j] => i = j
    BY <1>1, SetAsSequence
  <1>3. new = NewPartials(id, keys)
    BY DEF NewPartials
  <1> HIDE DEF n, seq
  <1>4. ASSUME NEW i \in 1 .. n
        PROVE  /\ row(i).id = nextIds.partial + i - 1 /\ row(i).key = seq[i]
               /\ row(i).assessment = id /\ seq[i] \in keys
    BY <1>2
  <1>5. ASSUME NEW p \in new
        PROVE  /\ p = [id |-> p.id, assessment |-> id, key |-> p.key]
               /\ p.key \in keys
               /\ p.id \in Nat /\ p.id >= nextIds.partial /\ p.id < nextIds.partial + n
    <2>1. PICK i \in 1 .. n : p = row(i)
      OBVIOUS
    <2>2. p = [id |-> p.id, assessment |-> id, key |-> p.key]
      BY <1>4, <2>1
    <2>3. p.id = nextIds.partial + i - 1 /\ p.key \in keys
      BY <1>4, <2>1
    <2> HIDE DEF row, new
    <2> QED
      BY <1>2, <2>2, <2>3
  <1>6. \A p, q \in new : p.id = q.id \/ p.key = q.key => p = q
    BY <1>2, <1>4
  <1>7. f \in Bijection(1 .. n, new)
    <2>1. f \in [1 .. n -> new]
      OBVIOUS
    <2>2. \A i, j \in 1 .. n : f[i] = f[j] => i = j
      BY <1>2, <1>4
    <2>3. \A p \in new : \E i \in 1 .. n : f[i] = p
      OBVIOUS
    <2> HIDE DEF f, new
    <2> QED
      BY <2>1, <2>2, <2>3 DEF Bijection, Injection, Surjection, IsInjective
  <1>8. Cardinality(new) = n
    <2>1. ExistsBijection(1 .. n, new)
      BY <1>7 DEF ExistsBijection
    <2>2. IsFiniteSet(1 .. n) /\ Cardinality(1 .. n) = n
      BY <1>2, FS_Interval
    <2> HIDE DEF new
    <2> QED
      BY <2>1, <2>2, FS_Bijection
  <1> QED
    BY <1>2, <1>3, <1>5, <1>6, <1>8 DEF n

-----------------------------------------------------------------------------
(* Lemmas about requests *)

\* What a request carries, by its operation.
LEMMA RequestFields ==
    ASSUME NEW q \in Request
    PROVE  /\ q # Idle /\ q.pc # "idle"
           /\ q.op = "create" =>
                 /\ q.pc \in {"members", "save"} /\ q.assignment \in Assignments
                 /\ q.target \in Students \cup GroupIds /\ q.points \in Points
                 /\ q.keys \in SUBSET Keys /\ q.by \in Staff /\ q.reviewed \subseteq Students
           /\ q.op = "update" =>
                 /\ q.pc \in {"original", "load", "save", "reread", "record"} /\ q.id \in Ids
                 /\ q.points \in Points \cup {Keep} /\ q.keys \in (SUBSET Keys) \cup {Keep}
                 /\ q.by \in Staff /\ q.entity \subseteq Assessment /\ q.loaded \subseteq Partial
                 /\ q.old \in Points \cup {Keep} /\ q.new \in Points \cup {Keep}
           /\ q.op = "partial" =>
                 /\ q.pc \in {"find", "save"} /\ q.id \in Ids /\ q.key \in Keys
                 /\ q.found \subseteq Partial
  BY DEF Request, Idle

\* A slot that is at some step of a handler holds a request.
LEMMA BusySlot ==
    ASSUME TypeOK, NEW r \in Requests, NEW op, NEW pc, At(r, op, pc), pc # "idle"
    PROVE  req[r] \in Request /\ req[r].op = op /\ req[r].pc = pc
  BY DEF TypeOK, At, Idle

\* The updates of an assessment that are in flight.
LEMMA InFlightIs ==
    ASSUME TypeOK, NEW id, NEW r \in Requests
    PROVE  r \in InFlight(id) <=> req[r] # Idle /\ req[r].op = "update" /\ req[r].id = id
  BY RequestFields DEF InFlight, TypeOK, Idle

\* What a request that is put into a slot knows about the rows.
Loaded(q) ==
    /\ q.op = "update" =>
          /\ q.id < nextIds.assessment
          /\ q.pc # "original" => q.old \in Points
          /\ q.pc = "record" => q.new \in Points
    /\ q.op = "update" /\ q.pc = "save" =>
          /\ \E x \in Assessment : x.id = q.id /\ q.entity = {x}
          /\ q.entity \subseteq KnownAssessments
          /\ \A x \in q.loaded : x.assessment = q.id
          /\ \A x, y \in q.loaded : x.key = y.key => x = y
          /\ q.loaded \subseteq KnownPartials
    /\ q.op = "partial" /\ q.pc = "save" =>
          /\ \A x \in q.found : x.assessment = q.id /\ x.key = q.key
          /\ q.found \subseteq KnownPartials

\* The slots after a step: unchanged, emptied, or filled with what the request knows.
Slots ==
    /\ req' \in [Requests -> {Idle} \cup Request]
    /\ \A s \in Requests : \/ req'[s] = req[s] \/ req'[s] = Idle
                           \/ req'[s] \in Request /\ Loaded(req'[s])

\* A step of one request.
LEMMA OneSlot ==
    ASSUME IndInv, NEW r \in Requests, NEW q \in {Idle} \cup Request,
           q \in Request => Loaded(q), req' = [req EXCEPT ![r] = q]
    PROVE  Slots /\ req'[r] = q /\ \A s \in Requests \ {r} : req'[s] = req[s]
  BY DEF Slots, IndInv, TypeOK

\* The ids are numbers.
LEMMA NextIds ==
    ASSUME TypeOK
    PROVE  /\ nextIds.assessment \in Nat \ {0} /\ nextIds.partial \in Nat \ {0}
           /\ nextIds.assessment <= MaxAssessments + 1 /\ nextIds.partial <= MaxPartials + 1
           /\ nextIds = [assessment |-> nextIds.assessment, partial |-> nextIds.partial]
  BY AssessmentsAssumption DEF TypeOK

\* Requests stay consistent while no id is taken back.
LEMMA RequestsKept ==
    ASSUME IndInv, Slots, nextIds'.assessment \in Nat, nextIds'.assessment >= nextIds.assessment
    PROVE  RequestsConsistent'
  <1>1. nextIds.assessment \in Nat
    BY NextIds DEF IndInv
  <1>2. SUFFICES ASSUME NEW r \in Requests
        PROVE  /\ req'[r] # Idle /\ req'[r].op = "update" =>
                     /\ req'[r].id < nextIds'.assessment
                     /\ req'[r].pc # "original" => req'[r].old \in Points
                     /\ req'[r].pc = "record" => req'[r].new \in Points
               /\ At(r, "update", "save")' =>
                     /\ \E x \in Assessment : x.id = req'[r].id /\ req'[r].entity = {x}
                     /\ \A p \in req'[r].loaded : p.assessment = req'[r].id
                     /\ \A p, q \in req'[r].loaded : p.key = q.key => p = q
               /\ At(r, "partial", "save")' =>
                     \A p \in req'[r].found : p.assessment = req'[r].id /\ p.key = req'[r].key
    BY DEF RequestsConsistent
  <1>3. CASE req'[r] = Idle
    BY <1>3 DEF At, Idle
  <1>4. CASE req'[r] # Idle /\ req'[r] = req[r]
    <2>1. req[r].op = "update" => req[r].id \in Nat
      <3>1. req[r] \in Request
        BY <1>4 DEF IndInv, TypeOK
      <3> QED
        BY <3>1, RequestFields, AssessmentsAssumption DEF Ids
    <2>2. At(r, "update", "save")' <=> At(r, "update", "save")
      BY <1>4 DEF At
    <2>3. At(r, "partial", "save")' <=> At(r, "partial", "save")
      BY <1>4 DEF At
    <2> QED
      BY <1>1, <1>4, <2>1, <2>2, <2>3 DEF IndInv, RequestsConsistent
  <1>5. CASE req'[r] \in Request /\ Loaded(req'[r])
    <2>1. req'[r].op = "update" => req'[r].id \in Nat
      BY <1>5, RequestFields, AssessmentsAssumption DEF Ids
    <2> QED
      BY <1>1, <1>5, <2>1 DEF Loaded, At
  <1> QED
    BY <1>3, <1>4, <1>5 DEF Slots

\* A partial assessment that is known is in the table or loaded.
LEMMA KnownPartialsAre ==
    ASSUME NEW x
    PROVE  x \in KnownPartials <=>
              \/ x \in partials
              \/ \E s \in Requests : At(s, "update", "save") /\ x \in req[s].loaded
              \/ \E s \in Requests : At(s, "partial", "save") /\ x \in req[s].found
  <1>1. x \in KnownPartials <=> x \in partials \/ \E s \in Requests : x \in LoadedPartials(s)
    BY DEF KnownPartials
  <1>2. ASSUME NEW s \in Requests
        PROVE  x \in LoadedPartials(s) <=> \/ At(s, "update", "save") /\ x \in req[s].loaded
                                           \/ At(s, "partial", "save") /\ x \in req[s].found
    BY DEF LoadedPartials, At
  <1> QED
    BY <1>1, <1>2

\* New partial assessments have new ids, and nothing else becomes known.
LEMMA PartialsStayKnown ==
    ASSUME IndInv, Slots, NEW new, partials' \subseteq KnownPartials \cup new,
           nextIds'.partial \in Nat, nextIds'.partial >= nextIds.partial,
           \A x \in new : x.id \in Nat /\ x.id >= nextIds.partial /\ x.id < nextIds'.partial,
           \A x, y \in new : x.id = y.id => x = y
    PROVE  PartialsKnown'
  <1>1. nextIds.partial \in Nat
    BY NextIds DEF IndInv
  <1>2. ASSUME NEW x \in KnownPartials'
        PROVE  x \in KnownPartials \cup new
    <2>1. CASE x \in partials'
      BY <2>1
    <2>2. ASSUME NEW s \in Requests, At(s, "update", "save")', x \in req'[s].loaded
          PROVE  x \in KnownPartials
      <3>1. CASE req'[s] = req[s]
        BY <2>2, <3>1, KnownPartialsAre DEF At
      <3>2. CASE req'[s] # req[s]
        BY <2>2, <3>2 DEF Slots, Loaded, At, Idle
      <3> QED
        BY <3>1, <3>2
    <2>3. ASSUME NEW s \in Requests, At(s, "partial", "save")', x \in req'[s].found
          PROVE  x \in KnownPartials
      <3>1. CASE req'[s] = req[s]
        BY <2>3, <3>1, KnownPartialsAre DEF At
      <3>2. CASE req'[s] # req[s]
        BY <2>3, <3>2 DEF Slots, Loaded, At, Idle
      <3> QED
        BY <3>1, <3>2
    <2>4. x \in partials' \/ \E s \in Requests : x \in LoadedPartials(s)'
      BY <1>2 DEF KnownPartials
    <2>5. ASSUME NEW s \in Requests, x \in LoadedPartials(s)'
          PROVE  \/ At(s, "update", "save")' /\ x \in req'[s].loaded
                 \/ At(s, "partial", "save")' /\ x \in req'[s].found
      BY <2>5 DEF LoadedPartials, At
    <2> QED
      BY <2>1, <2>2, <2>3, <2>4, <2>5
  <1>3. \A x \in KnownPartials : x.id \in Nat /\ x.id < nextIds.partial
    <2> SUFFICES ASSUME NEW x \in KnownPartials PROVE x.id \in Nat
      BY DEF IndInv, PartialsKnown
    <2>1. x \in Partial
      <3>1. CASE x \in partials
        BY <3>1 DEF IndInv, TypeOK
      <3>2. ASSUME NEW s \in Requests, At(s, "update", "save"), x \in req[s].loaded
            PROVE  x \in Partial
        BY <3>2, BusySlot, RequestFields DEF IndInv
      <3>3. ASSUME NEW s \in Requests, At(s, "partial", "save"), x \in req[s].found
            PROVE  x \in Partial
        BY <3>3, BusySlot, RequestFields DEF IndInv
      <3> QED
        BY <3>1, <3>2, <3>3, KnownPartialsAre
    <2> QED
      BY <2>1, AssessmentsAssumption DEF Partial
  <1>4. \A x, y \in KnownPartials : x.id = y.id => x = y
    BY DEF IndInv, PartialsKnown
  <1> QED
    BY <1>1, <1>2, <1>3, <1>4 DEF PartialsKnown

\* An assessment that is known is in the table or loaded.
LEMMA KnownAssessmentsAre ==
    ASSUME NEW x
    PROVE  x \in KnownAssessments <=>
              \/ x \in assessments
              \/ \E s \in Requests : At(s, "update", "save") /\ x \in req[s].entity
  BY DEF KnownAssessments

\* A new assessment has a new id, and the others stay with their assignments.
LEMMA AssessmentsStayKnown ==
    ASSUME IndInv, Slots, nextIds'.assessment \in {nextIds.assessment, nextIds.assessment + 1},
           \A x, y \in assessments' : x.id = y.id => x = y,
           \A x \in assessments' :
              \/ \E y \in KnownAssessments : y.id = x.id /\ y.assignment = x.assignment
              \/ x.id = nextIds.assessment /\ nextIds'.assessment = nextIds.assessment + 1
    PROVE  AssessmentsKnown'
  <1>1. nextIds.assessment \in Nat
    BY NextIds DEF IndInv
  <1>2. ASSUME NEW x \in KnownAssessments'
        PROVE  \/ \E y \in KnownAssessments : y.id = x.id /\ y.assignment = x.assignment
               \/ /\ x \in assessments' /\ x.id = nextIds.assessment
                  /\ nextIds'.assessment = nextIds.assessment + 1
    <2>1. CASE x \in assessments'
      BY <2>1
    <2>2. ASSUME NEW s \in Requests, At(s, "update", "save")', x \in req'[s].entity
          PROVE  x \in KnownAssessments
      <3>1. CASE req'[s] = req[s]
        BY <2>2, <3>1, KnownAssessmentsAre DEF At
      <3>2. CASE req'[s] # req[s]
        BY <2>2, <3>2 DEF Slots, Loaded, At, Idle
      <3> QED
        BY <3>1, <3>2
    <2> QED
      BY <2>1, <2>2 DEF KnownAssessments
  <1>3. \A x \in KnownAssessments : x.id \in Nat /\ x.id < nextIds.assessment
    <2> SUFFICES ASSUME NEW x \in KnownAssessments PROVE x.id \in Nat
      BY DEF IndInv, AssessmentsKnown
    <2>1. x \in Assessment
      BY KnownAssessmentsAre, BusySlot, RequestFields DEF IndInv, TypeOK
    <2> QED
      BY <2>1, AssessmentsAssumption DEF Assessment, Ids
  <1>4. \A x, y \in KnownAssessments : x.id = y.id => x.assignment = y.assignment
    BY DEF IndInv, AssessmentsKnown
  <1> QED
    BY <1>1, <1>2, <1>3, <1>4 DEF AssessmentsKnown

-----------------------------------------------------------------------------
(* The inductive invariant: steps that write nothing *)

\* The invariant but for the recorded scores.
Base == TypeOK /\ AssessedOnce /\ PartialsKnown /\ AssessmentsKnown /\ RequestsConsistent

\* What is said about users, groups, assignments and registrations.
WorldOK ==
    /\ users \subseteq Users /\ groups \subseteq GroupIds
    /\ phase \in [Assignments -> {"open", "evaluated", "deleted"}]
    /\ registered \in [Assignments -> [Students -> groups \cup {NoGroup}]]

\* Steps after which the tables of assessments are as they were, but for the events.
LEMMA EventStep ==
    ASSUME IndInv, Slots, WorldOK', UNCHANGED <<assessments, relations, partials, nextIds>>,
           recorded' \in [Ids -> Seq(ScoreChange)], changes' \in [Ids -> Seq(ScoreChange)],
           calm' \in [Ids -> BOOLEAN]
    PROVE  Base'
  <1>1. TypeOK'
    BY DEF IndInv, TypeOK, Slots, Row, WorldOK
  <1>2. AssessedOnce'
    BY DEF IndInv, AssessedOnce, Exists, Row
  <1>3. PartialsKnown'
    <2>1. partials \subseteq KnownPartials
      BY DEF KnownPartials
    <2>2. nextIds.partial \in Nat
      BY NextIds DEF IndInv
    <2> DEFINE new == {}
    <2>3. /\ partials' \subseteq KnownPartials \cup new
          /\ \A x \in new : x.id \in Nat /\ x.id >= nextIds.partial /\ x.id < nextIds'.partial
          /\ \A x, y \in new : x.id = y.id => x = y
      BY <2>1
    <2> HIDE DEF new
    <2>4. nextIds'.partial \in Nat /\ nextIds'.partial >= nextIds.partial
      BY <2>2
    <2> QED
      BY <2>3, <2>4, PartialsStayKnown
  <1>4. AssessmentsKnown'
    <2>1. assessments \subseteq KnownAssessments
      BY DEF KnownAssessments
    <2> QED
      BY <1>1, <2>1, AssessmentsStayKnown DEF TypeOK
  <1>5. RequestsConsistent'
    BY NextIds, RequestsKept DEF IndInv
  <1> QED
    BY <1>1, <1>2, <1>3, <1>4, <1>5 DEF Base

\* Requests that begin, go on, are refused or lost.
LEMMA QuietStep ==
    ASSUME IndInv, Slots, UNCHANGED <<world, rows>>,
           changes' = changes, calm' \in [Ids -> BOOLEAN]
    PROVE  Base'
  BY EventStep DEF world, rows, WorldOK, IndInv, TypeOK

\* Rows that exist are found.
LEMMA RowFound ==
    ASSUME TypeOK, NEW id, Exists(id)
    PROVE  Row(id) \in assessments /\ Row(id).id = id /\ Row(id) \in Assessment
  BY DEF TypeOK, Exists, Row

\* What is to be recorded for an assessment stays as it is if its updates, its score and
\* its release stay.
LEMMA ScoreKept ==
    ASSUME IndInv, TypeOK', NEW id \in Ids, calm[id],
           \A r \in Requests : r \in InFlight(id) \/ r \in InFlight(id)' => req'[r] = req[r],
           recorded'[id] = recorded[id], changes'[id] = changes[id],
           \A r \in InFlight(id) : req[r].by \in users',
           InFlight(id) # {} /\ Exists(id) =>
              /\ Exists(id)' /\ Row(id)'.points = Row(id).points
              /\ phase'[Row(id)'.assignment] = phase[Row(id).assignment]
    PROVE  ScoreConsistent(id)'
  <1>1. ScoreConsistent(id)
    BY DEF IndInv, ScoresConsistent
  <1>2. InFlight(id)' = InFlight(id)
    <2>1. ASSUME NEW r \in Requests
          PROVE  r \in InFlight(id) <=> r \in InFlight(id)'
      BY DEF InFlight
    <2>2. InFlight(id) \subseteq Requests /\ InFlight(id)' \subseteq Requests
      BY DEF InFlight
    <2> QED
      BY <2>1, <2>2
  <1>3. ASSUME NEW r \in InFlight(id)
        PROVE  Recording(id, r)'
    <2>1. r \in Requests /\ req'[r] = req[r] /\ Recording(id, r)
      BY <1>1, <1>3 DEF ScoreConsistent, InFlight
    <2> DEFINE q == req[r]
    <2>2. CASE q.pc = "original"
      BY <1>3, <2>1, <2>2 DEF Recording
    <2>3. CASE q.pc # "original"
      <3>1. Exists(id)
        BY <2>1, <2>3 DEF Recording
      <3>2. /\ Exists(id)' /\ Row(id)'.points = Row(id).points
            /\ phase'[Row(id)'.assignment] = phase[Row(id).assignment]
        BY <1>3, <3>1
      <3>3. ScoreChangedAfterRelease(q, Row(id))' <=> ScoreChangedAfterRelease(q, Row(id))
        BY <2>1, <3>2 DEF ScoreChangedAfterRelease
      <3> QED
        BY <1>3, <2>1, <3>2, <3>3 DEF Recording
    <2> QED
      BY <2>2, <2>3
  <1> QED
    BY <1>1, <1>2, <1>3 DEF ScoreConsistent

\* A step of a request that is no update, and that keeps scores and releases.
LEMMA OtherRequest ==
    ASSUME IndInv, TypeOK', NEW r \in Requests, req[r] = Idle \/ req[r].op # "update",
           req'[r] = Idle \/ req'[r].op # "update",
           \A s \in Requests \ {r} : req'[s] = req[s],
           calm' = calm, changes' = changes, recorded' = recorded, users' = users, phase' = phase,
           \A id \in Ids : Exists(id) => Exists(id)' /\ Row(id)' = Row(id)
    PROVE  ScoresConsistent'
  <1>1. ASSUME NEW id \in Ids, calm[id]
        PROVE  ScoreConsistent(id)'
    <2>1. r \notin InFlight(id) /\ r \notin InFlight(id)'
      BY InFlightIs DEF IndInv, InFlight, Idle
    <2>2. \A s \in InFlight(id) : req[s].by \in users
      BY <1>1 DEF IndInv, ScoresConsistent, ScoreConsistent, Recording
    <2>3. InFlight(id) \subseteq Requests
      BY DEF InFlight
    <2> QED
      BY <1>1, <2>1, <2>2, <2>3, ScoreKept
  <1> QED
    BY <1>1 DEF ScoresConsistent

\* A step of an update that keeps the scores of other assessments.
LEMMA OwnUpdate ==
    ASSUME IndInv, TypeOK', NEW r \in Requests, req[r] \in Request, req[r].op = "update",
           req'[r] # Idle => req'[r].op = "update" /\ req'[r].id = req[r].id,
           \A s \in Requests \ {r} : req'[s] = req[s],
           calm' = calm, users' = users, phase' = phase,
           \A id \in Ids \ {req[r].id} :
              /\ recorded'[id] = recorded[id] /\ changes'[id] = changes[id]
              /\ Exists(id) => Exists(id)' /\ Row(id)' = Row(id),
           \A id \in Ids : id = req[r].id /\ calm[id] =>
              IF req'[r] = Idle THEN recorded'[id] = changes'[id] ELSE Recording(id, r)'
    PROVE  ScoresConsistent'
  <1>1. ASSUME NEW id \in Ids, calm[id], id # req[r].id
        PROVE  ScoreConsistent(id)'
    <2>1. r \notin InFlight(id) /\ r \notin InFlight(id)'
      BY <1>1, RequestFields DEF InFlight, Idle
    <2>2. \A s \in InFlight(id) : req[s].by \in users
      BY <1>1 DEF IndInv, ScoresConsistent, ScoreConsistent, Recording
    <2>3. InFlight(id) \subseteq Requests
      BY DEF InFlight
    <2> QED
      BY <1>1, <2>1, <2>2, <2>3, ScoreKept
  <1>2. ASSUME NEW id \in Ids, calm[id], id = req[r].id
        PROVE  ScoreConsistent(id)'
    <2>1. r \in InFlight(id)
      BY <1>2, RequestFields DEF InFlight
    <2>2. \A s \in InFlight(id) : s = r
      BY <1>2, <2>1 DEF IndInv, ScoresConsistent, ScoreConsistent
    <2>3. \A s \in InFlight(id)' : s = r
      BY <2>2 DEF InFlight
    <2>4. r \in InFlight(id)' <=> req'[r] # Idle
      BY <1>2, InFlightIs, RequestFields DEF InFlight, Idle, TypeOK
    <2> QED
      BY <1>2, <2>3, <2>4 DEF ScoreConsistent
  <1> QED
    BY <1>1, <1>2 DEF ScoresConsistent

\* What is to be recorded for an update that runs alone.
LEMMA Alone ==
    ASSUME IndInv, NEW r \in Requests, req[r] \in Request, req[r].op = "update", calm[req[r].id]
    PROVE  Recording(req[r].id, r)
  BY RequestFields DEF IndInv, ScoresConsistent, ScoreConsistent, InFlight

\* A request that begins has loaded nothing.
LEMMA StartStep ==
    ASSUME IndInv, NEW r \in Requests, StartAssessment(r)
    PROVE  IndInv'
  <1> USE DEF Begin
  <1>1. ASSUME NEW q \in Request, req[r] = Idle, req' = [req EXCEPT ![r] = q], q.op # "update",
               q.pc # "save", UNCHANGED <<world, rows, history>>
        PROVE  IndInv'
    <2>1. Loaded(q)
      BY <1>1 DEF Loaded
    <2>2. Slots /\ req'[r] = q /\ \A s \in Requests \ {r} : req'[s] = req[s]
      BY <1>1, <2>1, OneSlot
    <2>3. Base'
      BY <1>1, <2>2, QuietStep DEF history, IndInv, TypeOK
    <2>4. ScoresConsistent'
      BY <1>1, <2>2, <2>3, OtherRequest DEF Base, world, rows, history, Exists, Row
    <2> QED
      BY <2>3, <2>4 DEF IndInv, Base
  <1>2. ASSUME NEW a \in Assignments, NEW target \in Students \cup GroupIds, NEW p \in Points,
               NEW by \in Staff, NEW keys \in SUBSET Keys, StartCreate(r, a, target, p, keys, by)
        PROVE  IndInv'
    <2> DEFINE q == [op |-> "create", pc |-> "members", assignment |-> a, target |-> target,
                     points |-> p, keys |-> keys, by |-> by, reviewed |-> {}]
    <2>1. q \in Request /\ q.op = "create" /\ q.pc = "members"
      BY DEF Request
    <2>2. req[r] = Idle /\ req' = [req EXCEPT ![r] = q] /\ UNCHANGED <<world, rows, history>>
      BY <1>2 DEF StartCreate
    <2> HIDE DEF q
    <2> QED
      BY <1>1, <2>1, <2>2
  <1>3. ASSUME NEW id \in Ids, NEW key \in Keys, StartPartial(r, id, key)
        PROVE  IndInv'
    <2> DEFINE q == [op |-> "partial", pc |-> "find", id |-> id, key |-> key, found |-> {}]
    <2>1. q \in Request /\ q.op = "partial" /\ q.pc = "find"
      BY DEF Request
    <2>2. req[r] = Idle /\ req' = [req EXCEPT ![r] = q] /\ UNCHANGED <<world, rows, history>>
      BY <1>3 DEF StartPartial
    <2> HIDE DEF q
    <2> QED
      BY <1>1, <2>1, <2>2
  <1>4. ASSUME NEW id \in Ids, NEW p \in Points \cup {Keep}, NEW by \in Staff,
               NEW keys \in (SUBSET Keys) \cup {Keep}, StartUpdate(r, id, p, keys, by)
        PROVE  IndInv'
    <2> DEFINE q == [op |-> "update", pc |-> "original", id |-> id, points |-> p, keys |-> keys,
                     by |-> by, entity |-> {}, loaded |-> {}, old |-> Keep, new |-> Keep]
    <2>1. /\ q \in Request /\ q.op = "update" /\ q.pc = "original" /\ q.id = id /\ q.by = by
          /\ q # Idle
      BY DEF Request, Idle
    <2>2. /\ req[r] = Idle /\ req' = [req EXCEPT ![r] = q] /\ UNCHANGED <<world, rows, changes>>
          /\ calm' = [calm EXCEPT ![id] = @ /\ InFlight(id) = {}]
          /\ by \in users /\ id < nextIds.assessment
      BY <1>4 DEF StartUpdate
    <2> HIDE DEF q
    <2>3. Loaded(q)
      BY <2>1, <2>2 DEF Loaded
    <2>4. Slots /\ req'[r] = q /\ \A s \in Requests \ {r} : req'[s] = req[s]
      BY <2>1, <2>2, <2>3, OneSlot
    <2>5. /\ \A i \in Ids \ {id} : calm'[i] = calm[i]
          /\ calm'[id] = (calm[id] /\ InFlight(id) = {})
          /\ calm' \in [Ids -> BOOLEAN]
      BY <2>2 DEF IndInv, TypeOK
    <2>6. Base'
      BY <2>2, <2>4, <2>5, QuietStep
    <2>7. ASSUME NEW i \in Ids, calm'[i], i # id
          PROVE  ScoreConsistent(i)'
      <3>1. r \notin InFlight(i) /\ r \notin InFlight(i)'
        BY <2>1, <2>2, <2>4, <2>7 DEF InFlight, Idle
      <3>2. \A s \in InFlight(i) : req[s].by \in users
        BY <2>5, <2>7 DEF IndInv, ScoresConsistent, ScoreConsistent, Recording
      <3>3. InFlight(i) \subseteq Requests
        BY DEF InFlight
      <3> QED
        BY <2>2, <2>4, <2>5, <2>6, <2>7, <3>1, <3>2, <3>3, ScoreKept
           DEF Base, world, rows, Exists, Row
    <2>8. ASSUME calm'[id]
          PROVE  ScoreConsistent(id)'
      <3>1. calm[id] /\ InFlight(id) = {} /\ recorded[id] = changes[id]
        BY <2>5, <2>8 DEF IndInv, ScoresConsistent, ScoreConsistent
      <3>2. \A s \in InFlight(id)' : s = r
        BY <2>4, <3>1 DEF InFlight
      <3>3. r \in InFlight(id)'
        BY <2>1, <2>4, RequestFields DEF InFlight
      <3>4. Recording(id, r)'
        BY <2>1, <2>2, <2>4, <3>1 DEF Recording, world, rows
      <3> QED
        BY <3>2, <3>3, <3>4 DEF ScoreConsistent
    <2> QED
      BY <2>6, <2>7, <2>8 DEF IndInv, Base, ScoresConsistent
  <1> QED
    BY <1>2, <1>3, <1>4 DEF StartAssessment

\* A request that goes on with what it has loaded, or ends, and has written nothing.
LEMMA ReadStep ==
    ASSUME IndInv, NEW r \in Requests, req[r] \in Request, NEW q \in {Idle} \cup Request,
           q \in Request => Loaded(q) /\ q.op = req[r].op,
           req' = [req EXCEPT ![r] = q], UNCHANGED <<world, rows, history>>,
           req[r].op = "update" =>
              /\ q \in Request => q.id = req[r].id
              /\ \A id \in Ids : id = req[r].id /\ calm[id] =>
                    IF q = Idle THEN recorded[id] = changes[id] ELSE Recording(id, r)'
    PROVE  IndInv'
  <1>1. Slots /\ req'[r] = q /\ \A s \in Requests \ {r} : req'[s] = req[s]
    BY OneSlot
  <1>2. Base'
    BY <1>1, QuietStep DEF history, IndInv, TypeOK
  <1>3. ScoresConsistent'
    <2>1. CASE req[r].op = "update"
      BY <1>1, <1>2, <2>1, OwnUpdate DEF Base, world, rows, history, Exists, Row
    <2>2. CASE req[r].op # "update"
      BY <1>1, <1>2, <2>2, OtherRequest DEF Base, world, rows, history, Exists, Row
    <2> QED
      BY <2>1, <2>2
  <1> QED
    BY <1>2, <1>3 DEF IndInv, Base

\* A request that is no update and ends without a change.
LEMMA RejectStep ==
    ASSUME IndInv, NEW r \in Requests, req[r] \in Request, req[r].op # "update", Reject(r)
    PROVE  IndInv'
  BY RequestFields, ReadStep DEF Reject, Finish, Advance

\* An update that ends without a change: then it has nothing to record.
LEMMA UpdateRejected ==
    ASSUME IndInv, NEW r \in Requests, req[r] \in Request, req[r].op = "update", Reject(r),
           \/ req[r].pc \in {"original", "load", "save"}
           \/ /\ req[r].pc = "reread"
              /\ ~(Exists(req[r].id) /\ ScoreChangedAfterRelease(req[r], Row(req[r].id)))
    PROVE  IndInv'
  <1>1. calm[req[r].id] => recorded[req[r].id] = changes[req[r].id]
    BY Alone DEF Recording
  <1>2. req' = [req EXCEPT ![r] = Idle] /\ UNCHANGED <<world, rows, history>> /\ Idle \notin Request
    BY RequestFields DEF Reject, Finish, Advance
  <1> QED
    BY <1>1, <1>2, ReadStep

\* The members of a group, or the student alone.
LEMMA FindMembersStep ==
    ASSUME IndInv, NEW r \in Requests, FindMembers(r)
    PROVE  IndInv'
  <1> DEFINE reviewed == Reviewed(req[r].assignment, req[r].target)
             q == [req[r] EXCEPT !.pc = "save", !.reviewed = reviewed]
  <1>1. req[r] \in Request /\ req[r].op = "create"
    BY BusySlot DEF FindMembers, IndInv
  <1>2. CASE Reject(r)
    BY <1>1, <1>2, RejectStep
  <1>3. CASE GoOn(r, q)
    <2>1. reviewed \subseteq Students
      BY <1>1, RequestFields DEF Reviewed
    <2>2. q \in Request /\ q.op = "create"
      BY <1>1, <2>1 DEF Request
    <2>3. Loaded(q) /\ q # Idle
      BY <2>2, RequestFields DEF Loaded
    <2>4. req' = [req EXCEPT ![r] = q] /\ UNCHANGED <<world, rows, history>>
      BY <1>3 DEF GoOn, Advance
    <2> HIDE DEF q
    <2> QED
      BY <1>1, <2>2, <2>3, <2>4, ReadStep
  <1> QED
    BY <1>2, <1>3 DEF FindMembers

\* The original of an update is the score that it has to record a change of.
LEMMA LoadOriginalStep ==
    ASSUME IndInv, NEW r \in Requests, LoadOriginal(r)
    PROVE  IndInv'
  <1> PICK id : id = req[r].id
    OBVIOUS
  <1> DEFINE q == [req[r] EXCEPT !.pc = "load", !.old = Row(id).points]
  <1>1. req[r] \in Request /\ req[r].op = "update" /\ req[r].pc = "original"
    BY BusySlot DEF LoadOriginal, IndInv
  <1>2. CASE Reject(r)
    BY <1>1, <1>2, UpdateRejected
  <1>3. CASE Exists(id) /\ GoOn(r, q)
    <2>1. Row(id).points \in Points
      BY <1>3, RowFound DEF IndInv, Assessment
    <2>2. /\ q \in Request /\ q.op = "update" /\ q.id = id /\ q.pc = "load" /\ q.by = req[r].by
          /\ q.old = Row(id).points
      BY <1>1, <2>1 DEF Request
    <2>3. id < nextIds.assessment
      BY <1>1, RequestFields DEF IndInv, RequestsConsistent
    <2>4. Loaded(q) /\ q # Idle
      BY <2>1, <2>2, <2>3, RequestFields DEF Loaded
    <2>5. req' = [req EXCEPT ![r] = q] /\ UNCHANGED <<world, rows, history>>
      BY <1>3 DEF GoOn, Advance
    <2>6. req'[r] = q
      BY <2>5 DEF IndInv, TypeOK
    <2> HIDE DEF q
    <2>7. calm[id] => Recording(id, r)'
      <3>1. calm[id] => Recording(id, r)
        BY <1>1, Alone
      <3>2. /\ Exists(id)' /\ Row(id)' = Row(id)
            /\ UNCHANGED <<users, phase, recorded, changes>>
        BY <1>3, <2>5 DEF world, rows, history, Exists, Row
      <3> QED
        BY <1>1, <1>3, <2>2, <2>5, <2>6, <3>1, <3>2 DEF Recording, ScoreChangedAfterRelease
    <2> QED
      BY <1>1, <2>2, <2>4, <2>5, <2>7, ReadStep
  <1> QED
    BY <1>2, <1>3 DEF LoadOriginal

\* The entity and its partial assessments, as they are in the tables.
LEMMA LoadEntityStep ==
    ASSUME IndInv, NEW r \in Requests, LoadEntity(r)
    PROVE  IndInv'
  <1> PICK id : id = req[r].id
    OBVIOUS
  <1> DEFINE q == [req[r] EXCEPT !.pc = "save", !.entity = {Row(id)}, !.loaded = PartialsOf(id)]
  <1>1. req[r] \in Request /\ req[r].op = "update" /\ req[r].pc = "load"
    BY BusySlot DEF LoadEntity, IndInv
  <1>2. CASE Reject(r)
    BY <1>1, <1>2, UpdateRejected
  <1>3. CASE Exists(id) /\ GoOn(r, q)
    <2>1. Row(id) \in assessments /\ Row(id) \in Assessment /\ Row(id).id = id
      BY <1>3, RowFound DEF IndInv
    <2>2. PartialsOf(id) \subseteq Partial /\ PartialsOf(id) \subseteq partials
      BY DEF PartialsOf, IndInv, TypeOK
    <2>3. /\ q \in Request /\ q.op = "update" /\ q.id = id /\ q.pc = "save" /\ q.by = req[r].by
          /\ q.old = req[r].old /\ q.entity = {Row(id)} /\ q.loaded = PartialsOf(id)
      BY <1>1, <2>1, <2>2 DEF Request
    <2>4. id < nextIds.assessment /\ req[r].old \in Points
      BY <1>1, RequestFields DEF IndInv, RequestsConsistent
    <2> HIDE DEF q
    <2>5. Loaded(q) /\ q # Idle
      <3>1. q.entity \subseteq KnownAssessments
        BY <2>1, <2>3 DEF KnownAssessments
      <3>2. q.loaded \subseteq KnownPartials
        BY <2>2, <2>3 DEF KnownPartials
      <3>3. \A x \in q.loaded : x.assessment = q.id
        BY <2>3 DEF PartialsOf
      <3>4. \A x, y \in q.loaded : x.key = y.key => x = y
        BY <2>3 DEF PartialsOf, IndInv, TypeOK
      <3> QED
        BY <2>1, <2>3, <2>4, <3>1, <3>2, <3>3, <3>4, RequestFields DEF Loaded
    <2>6. req' = [req EXCEPT ![r] = q] /\ UNCHANGED <<world, rows, history>>
      BY <1>3 DEF GoOn, Advance, q
    <2>7. req'[r] = q
      BY <2>6 DEF IndInv, TypeOK
    <2>8. calm[id] => Recording(id, r)'
      <3>1. calm[id] => Recording(id, r)
        BY <1>1, Alone
      <3>2. /\ Exists(id)' /\ Row(id)' = Row(id)
            /\ UNCHANGED <<users, phase, recorded, changes>>
        BY <1>3, <2>6 DEF world, rows, history, Exists, Row
      <3> QED
        BY <1>1, <1>3, <2>3, <2>6, <2>7, <3>1, <3>2 DEF Recording, ScoreChangedAfterRelease
    <2> QED
      BY <1>1, <2>3, <2>5, <2>6, <2>8, ReadStep
  <1> QED
    BY <1>2, <1>3 DEF LoadEntity

\* The score that is read again is the new one of the event.
LEMMA RereadStep ==
    ASSUME IndInv, NEW r \in Requests, Reread(r)
    PROVE  IndInv'
  <1> PICK id : id = req[r].id
    OBVIOUS
  <1> DEFINE q == [req[r] EXCEPT !.pc = "record", !.new = Row(id).points]
  <1>1. req[r] \in Request /\ req[r].op = "update" /\ req[r].pc = "reread"
    BY BusySlot DEF Reread, IndInv
  <1>2. CASE /\ ~(Exists(id) /\ ScoreChangedAfterRelease(req[r], Row(id)))
             /\ Reject(r)
    BY <1>1, <1>2, UpdateRejected
  <1>3. CASE Exists(id) /\ ScoreChangedAfterRelease(req[r], Row(id)) /\ GoOn(r, q)
    <2>1. Row(id).points \in Points
      BY <1>3, RowFound DEF IndInv, Assessment
    <2>2. /\ q \in Request /\ q.op = "update" /\ q.id = id /\ q.pc = "record" /\ q.by = req[r].by
          /\ q.old = req[r].old /\ q.new = Row(id).points
      BY <1>1, <2>1 DEF Request
    <2>3. id < nextIds.assessment /\ req[r].old \in Points
      BY <1>1, RequestFields DEF IndInv, RequestsConsistent
    <2>4. Loaded(q) /\ q # Idle
      BY <2>1, <2>2, <2>3, RequestFields DEF Loaded
    <2>5. req' = [req EXCEPT ![r] = q] /\ UNCHANGED <<world, rows, history>>
      BY <1>3 DEF GoOn, Advance
    <2>6. req'[r] = q
      BY <2>5 DEF IndInv, TypeOK
    <2> HIDE DEF q
    <2>7. calm[id] => Recording(id, r)'
      <3>1. calm[id] => Recording(id, r)
        BY <1>1, Alone
      <3>2. /\ Exists(id)' /\ Row(id)' = Row(id)
            /\ UNCHANGED <<users, phase, recorded, changes>>
        BY <1>3, <2>5 DEF world, rows, history, Exists, Row
      <3>3. calm[id] => /\ req[r].by \in users
                        /\ changes[id] = Append(recorded[id], [old |-> req[r].old, by |-> req[r].by,
                                                              new |-> Row(id).points])
        BY <1>1, <1>3, <3>1 DEF Recording
      <3>4. Recording(id, r)' <=> /\ q.by \in users'
                                  /\ Exists(id)'
                                  /\ changes'[id] = Append(recorded'[id],
                                        [old |-> q.old, by |-> q.by, new |-> q.new])
        BY <2>2, <2>6 DEF Recording
      <3> QED
        BY <2>2, <3>2, <3>3, <3>4
    <2> QED
      BY <1>1, <2>2, <2>4, <2>5, <2>7, ReadStep
  <1> QED
    BY <1>2, <1>3 DEF Reread

\* The partial assessment of the key, if there is one.
LEMMA FindPartialStep ==
    ASSUME IndInv, NEW r \in Requests, FindPartial(r)
    PROVE  IndInv'
  <1> DEFINE found == {p \in PartialsOf(req[r].id) : p.key = req[r].key}
             q == [req[r] EXCEPT !.pc = "save", !.found = found]
  <1>1. req[r] \in Request /\ req[r].op = "partial" /\ GoOn(r, q)
    BY BusySlot DEF FindPartial, IndInv
  <1>2. found \subseteq Partial /\ found \subseteq partials
    BY DEF PartialsOf, IndInv, TypeOK
  <1>3. \A x \in found : x.assessment = req[r].id /\ x.key = req[r].key
    BY DEF PartialsOf
  <1> HIDE DEF found
  <1>4. /\ q \in Request /\ q.op = "partial" /\ q.id = req[r].id /\ q.key = req[r].key
        /\ q.found = found
    BY <1>1, <1>2 DEF Request
  <1>5. Loaded(q) /\ q # Idle
    BY <1>2, <1>3, <1>4, RequestFields DEF Loaded, KnownPartials
  <1>6. req' = [req EXCEPT ![r] = q] /\ UNCHANGED <<world, rows, history>>
    BY <1>1 DEF GoOn, Advance
  <1> HIDE DEF q
  <1> QED
    BY <1>1, <1>4, <1>5, <1>6, ReadStep

-----------------------------------------------------------------------------
(* The inductive invariant: requests that write *)

\* The event of a change.
LEMMA RecordChangeStep ==
    ASSUME IndInv, NEW r \in Requests, RecordChange(r)
    PROVE  IndInv'
  <1> DEFINE q == req[r]
             e == [old |-> q.old, new |-> q.new, by |-> q.by]
  <1>1. q \in Request /\ q.op = "update" /\ q.pc = "record"
    BY BusySlot DEF RecordChange, IndInv
  <1>2. q.id \in Ids /\ q.old \in Points /\ q.new \in Points /\ q.by \in Users
    BY <1>1, RequestFields DEF IndInv, RequestsConsistent, Users
  <1>3. e \in ScoreChange
    BY <1>2 DEF ScoreChange
  <1>4. /\ recorded' = IF Exists(q.id) /\ q.by \in users
                       THEN [recorded EXCEPT ![q.id] = Append(@, e)] ELSE recorded
        /\ req' = [req EXCEPT ![r] = Idle]
        /\ UNCHANGED <<world, assessments, relations, partials, nextIds, history>>
    BY DEF RecordChange, Finish, Advance
  <1>5. Slots /\ req'[r] = Idle /\ \A s \in Requests \ {r} : req'[s] = req[s]
    BY <1>4, OneSlot, RequestFields
  <1> HIDE DEF e
  <1>6. /\ recorded' \in [Ids -> Seq(ScoreChange)]
        /\ \A id \in Ids \ {q.id} : recorded'[id] = recorded[id]
        /\ Exists(q.id) /\ q.by \in users => recorded'[q.id] = Append(recorded[q.id], e)
    <2>1. recorded \in [Ids -> Seq(ScoreChange)]
      BY DEF IndInv, TypeOK
    <2>2. Append(recorded[q.id], e) \in Seq(ScoreChange)
      BY <1>2, <1>3, <2>1
    <2> QED
      BY <1>2, <1>4, <2>1, <2>2
  <1>7. Base'
    BY <1>4, <1>5, <1>6, EventStep DEF world, WorldOK, history, IndInv, TypeOK
  <1>8. calm[q.id] => recorded'[q.id] = changes'[q.id]
    <2>1. calm[q.id] => Recording(q.id, r)
      BY <1>1, Alone
    <2>2. calm[q.id] => /\ Exists(q.id) /\ q.by \in users
                        /\ changes[q.id] = Append(recorded[q.id], e)
      BY <1>1, <2>1 DEF Recording, e
    <2>3. changes' = changes
      BY <1>4 DEF history
    <2> QED
      BY <1>6, <2>2, <2>3
  <1>9. ScoresConsistent'
    BY <1>1, <1>4, <1>5, <1>6, <1>7, <1>8, OwnUpdate DEF Base, world, history, Exists, Row
  <1> QED
    BY <1>7, <1>9 DEF IndInv, Base

\* A partial assessment is inserted under a free key.
LEMMA SavePartialStep ==
    ASSUME IndInv, NEW r \in Requests, SavePartial(r)
    PROVE  IndInv'
  <1> DEFINE q == req[r]
             row == IF q.found # {} THEN CHOOSE p \in q.found : TRUE
                    ELSE [id |-> nextIds.partial, assessment |-> q.id, key |-> q.key]
  <1>1. q \in Request /\ q.op = "partial" /\ q.pc = "save" /\ At(r, "partial", "save")
    BY BusySlot DEF SavePartial, IndInv
  <1>2. CASE Reject(r)
    BY <1>1, <1>2, RejectStep
  <1>3. CASE ~Reject(r)
    <2>1. /\ row \notin partials /\ KeyIsFree(q.id, q.key) /\ row.id <= MaxPartials
          /\ partials' = partials \cup {row}
          /\ nextIds' = [nextIds EXCEPT !.partial = IF row.id = @ THEN @ + 1 ELSE @]
          /\ req' = [req EXCEPT ![r] = Idle]
          /\ UNCHANGED <<world, assessments, relations, recorded, history>>
      BY <1>3 DEF SavePartial, Finish, Advance
    <2>2. q.id \in Ids /\ q.key \in Keys /\ q.found \subseteq Partial
      BY <1>1, RequestFields
    <2>3. /\ nextIds.partial \in Nat \ {0} /\ nextIds.assessment \in Nat
          /\ nextIds = [assessment |-> nextIds.assessment, partial |-> nextIds.partial]
      BY NextIds DEF IndInv
    <2>4. \A x \in KnownPartials : x.id < nextIds.partial
      BY DEF IndInv, PartialsKnown
    <2>5. /\ row \in Partial /\ row.assessment = q.id /\ row.key = q.key
          /\ row \in KnownPartials \/ row.id = nextIds.partial
      <3>1. CASE q.found # {}
        <4>1. row \in q.found
          BY <3>1
        <4>2. row \in KnownPartials
          BY <1>1, <4>1, KnownPartialsAre
        <4> HIDE DEF row
        <4> QED
          BY <1>1, <2>2, <4>1, <4>2 DEF IndInv, RequestsConsistent
      <3>2. CASE q.found = {}
        <4>1. row = [id |-> nextIds.partial, assessment |-> q.id, key |-> q.key]
          BY <3>2
        <4>2. nextIds.partial \in 1 .. MaxPartials
          BY <2>1, <2>3, <4>1, AssessmentsAssumption
        <4> HIDE DEF row
        <4> QED
          BY <2>2, <4>1, <4>2 DEF Partial
      <3> QED
        BY <3>1, <3>2
    <2> HIDE DEF row
    <2>6. /\ nextIds'.partial = IF row.id = nextIds.partial THEN nextIds.partial + 1
                                                         ELSE nextIds.partial
          /\ nextIds'.assessment = nextIds.assessment
          /\ nextIds' = [assessment |-> nextIds'.assessment, partial |-> nextIds'.partial]
      BY <2>1, <2>3
    <2>7. Slots /\ req'[r] = Idle /\ \A s \in Requests \ {r} : req'[s] = req[s]
      BY <2>1, OneSlot, RequestFields
    <2>8. TypeOK'
      <3>1. \A x \in partials : x.id # row.id
        <4>1. ASSUME NEW x \in partials, x.id = row.id
              PROVE  FALSE
          <5>1. x \in KnownPartials
            BY <4>1 DEF KnownPartials
          <5>2. x = row
            BY <2>3, <2>4, <2>5, <4>1, <5>1 DEF IndInv, PartialsKnown
          <5> QED
            BY <2>1, <4>1, <5>2
        <4> QED
          BY <4>1
      <3>2. \A x \in partials : <<x.assessment, x.key>> # <<row.assessment, row.key>>
        BY <2>1, <2>5 DEF KeyIsFree, PartialsOf
      <3>3. \A x, y \in partials' :
               x.id = y.id \/ <<x.assessment, x.key>> = <<y.assessment, y.key>> => x = y
        <4>1. \A x, y \in partials :
                 x.id = y.id \/ <<x.assessment, x.key>> = <<y.assessment, y.key>> => x = y
          BY DEF IndInv, TypeOK
        <4> QED
          BY <2>1, <3>1, <3>2, <4>1
      <3>4. \A x \in partials' : \E y \in assessments' : y.id = x.assessment
        BY <2>1, <2>5 DEF KeyIsFree, Exists, IndInv, TypeOK
      <3>5. nextIds' \in [assessment : 1 .. MaxAssessments + 1, partial : 1 .. MaxPartials + 1]
        BY <2>1, <2>3, <2>6, AssessmentsAssumption DEF IndInv, TypeOK
      <3> QED
        BY <2>1, <2>5, <2>7, <3>3, <3>4, <3>5 DEF IndInv, TypeOK, Slots, world, history
    <2>9. AssessedOnce'
      BY <2>1 DEF IndInv, AssessedOnce, Exists, Row
    <2>10. PartialsKnown'
      <3> DEFINE new == IF row.id = nextIds.partial THEN {row} ELSE {}
      <3>1. /\ partials' \subseteq KnownPartials \cup new
            /\ \A x \in new : x.id \in Nat /\ x.id >= nextIds.partial /\ x.id < nextIds'.partial
            /\ \A x, y \in new : x.id = y.id => x = y
        BY <2>1, <2>3, <2>5, <2>6 DEF KnownPartials
      <3> HIDE DEF new
      <3>2. nextIds'.partial \in Nat /\ nextIds'.partial >= nextIds.partial
        BY <2>3, <2>6
      <3> QED
        BY <2>7, <3>1, <3>2, PartialsStayKnown
    <2>11. AssessmentsKnown'
      <3>1. assessments \subseteq KnownAssessments
        BY DEF KnownAssessments
      <3> QED
        BY <2>1, <2>6, <2>7, <2>8, <3>1, AssessmentsStayKnown DEF TypeOK
    <2>12. RequestsConsistent'
      BY <2>3, <2>6, <2>7, RequestsKept
    <2>13. ScoresConsistent'
      BY <1>1, <2>1, <2>7, <2>8, OtherRequest DEF world, history, Exists, Row
    <2> QED
      BY <2>8, <2>9, <2>10, <2>11, <2>12, <2>13 DEF IndInv
  <1> QED
    BY <1>2, <1>3

\* An assessment is created with a new id, for users who have none yet.
LEMMA SaveCreateStep ==
    ASSUME IndInv, NEW r \in Requests, SaveCreate(r)
    PROVE  IndInv'
  <1> PICK id : id = nextIds.assessment
    OBVIOUS
  <1> DEFINE q == req[r]
             row == [id |-> id, assignment |-> q.assignment, points |-> q.points, creator |-> q.by,
                     group |-> IF q.target \in GroupIds THEN q.target ELSE NoGroup,
                     updatedBy |-> NoGroup]
             users2 == {[assessment |-> id, assignment |-> q.assignment, user |-> u] :
                           u \in q.reviewed}
             fresh == NewPartials(id, q.keys)
             n == Cardinality(q.keys)
  <1>1. q \in Request /\ q.op = "create" /\ q.pc = "save"
    BY BusySlot DEF SaveCreate, IndInv
  <1>2. CASE Reject(r)
    BY <1>1, <1>2, RejectStep
  <1>3. CASE ~Reject(r)
    <2>1. /\ ~AlreadyAssessed(q.assignment, q.reviewed)
          /\ id <= MaxAssessments /\ nextIds.partial + n <= MaxPartials + 1
          /\ assessments' = assessments \cup {row}
          /\ relations' = relations \cup users2
          /\ partials' = partials \cup fresh
          /\ nextIds' = [assessment |-> id + 1, partial |-> nextIds.partial + n]
          /\ req' = [req EXCEPT ![r] = Idle]
          /\ UNCHANGED <<world, recorded, history>>
      BY <1>3 DEF SaveCreate, Finish, Advance
    <2>2. /\ q.assignment \in Assignments /\ q.target \in Students \cup GroupIds
          /\ q.points \in Points /\ q.keys \in SUBSET Keys /\ q.by \in Staff
          /\ q.reviewed \subseteq Students
      BY <1>1, RequestFields
    <2>3. nextIds.partial \in Nat \ {0} /\ id \in Nat \ {0} /\ id \in Ids
      BY <2>1, NextIds DEF IndInv, Ids
    <2>4. /\ n \in Nat
          /\ \A p \in fresh : /\ p = [id |-> p.id, assessment |-> id, key |-> p.key]
                              /\ p.key \in q.keys
                              /\ p.id \in Nat /\ p.id >= nextIds.partial
                              /\ p.id < nextIds.partial + n
          /\ \A x, y \in fresh : x.id = y.id \/ x.key = y.key => x = y
      BY <2>2, <2>3, NewPartialsAre
    <2>5. \A x \in assessments : x.id \in Nat /\ x.id < id
      <3>1. \A x \in assessments : x \in KnownAssessments /\ x \in Assessment
        BY DEF KnownAssessments, IndInv, TypeOK
      <3> QED
        BY <3>1, AssessmentsAssumption DEF IndInv, AssessmentsKnown, Assessment, Ids
    <2>6. \A x \in partials : x.id \in Nat /\ x.id < nextIds.partial /\ x.assessment # id
      <3>1. \A x \in partials : x \in KnownPartials /\ x \in Partial
        BY DEF KnownPartials, IndInv, TypeOK
      <3>2. \A x \in partials : x.id \in Nat /\ x.id < nextIds.partial
        BY <3>1, AssessmentsAssumption DEF IndInv, PartialsKnown, Partial
      <3>3. \A x \in partials : \E y \in assessments : y.id = x.assessment
        BY DEF IndInv, TypeOK
      <3> QED
        BY <2>3, <2>5, <3>2, <3>3
    <2>7. row \in Assessment /\ row.id = id /\ row.assignment = q.assignment
      BY <2>2, <2>3 DEF Assessment, Users
    <2>8. \A x \in users2 : /\ x \in Relation /\ x.assessment = id
                            /\ x.assignment = q.assignment /\ x.user \in q.reviewed
      BY <2>2, <2>3 DEF Relation, Users
    <2>9. \A x, y \in users2 : x.user = y.user => x = y
      OBVIOUS
    <2>10. \A x \in relations : x.assignment = q.assignment => x.user \notin q.reviewed
      BY <2>1 DEF AlreadyAssessed, Assessed
    <2> HIDE DEF row, users2, fresh, n
    <2>11. /\ \A x \in assessments' : x \in assessments \/ x = row
           /\ \A x, y \in assessments' : x.id = y.id => x = y
      BY <2>1, <2>3, <2>5, <2>7 DEF IndInv, TypeOK
    <2>12. /\ nextIds'.partial = nextIds.partial + n /\ nextIds'.assessment = id + 1
           /\ nextIds'.partial \in Nat /\ nextIds'.assessment \in Nat
           /\ nextIds' \in [assessment : 1 .. MaxAssessments + 1, partial : 1 .. MaxPartials + 1]
      BY <2>1, <2>3, <2>4, AssessmentsAssumption
    <2>13. Slots /\ req'[r] = Idle /\ \A s \in Requests \ {r} : req'[s] = req[s]
      BY <2>1, OneSlot, RequestFields
    <2>14. TypeOK'
      <3>1. partials' \subseteq Partial
        <4>1. ASSUME NEW x \in fresh
              PROVE  x \in Partial
          <5>1. x.id \in 1 .. MaxPartials /\ x.key \in Keys
            BY <2>1, <2>2, <2>3, <2>4, AssessmentsAssumption
          <5> QED
            BY <2>3, <2>4, <5>1 DEF Partial
        <4> QED
          BY <2>1, <4>1 DEF IndInv, TypeOK
      <3>2. \A x, y \in partials' :
               x.id = y.id \/ <<x.assessment, x.key>> = <<y.assessment, y.key>> => x = y
        <4>1. \A x, y \in partials :
                 x.id = y.id \/ <<x.assessment, x.key>> = <<y.assessment, y.key>> => x = y
          BY DEF IndInv, TypeOK
        <4>2. \A x \in fresh : /\ x.id \in Nat /\ x.id >= nextIds.partial
                               /\ x.assessment = id
          BY <2>4
        <4>3. \A x, y \in fresh :
                 x.id = y.id \/ <<x.assessment, x.key>> = <<y.assessment, y.key>> => x = y
          BY <2>4
        <4>4. ASSUME NEW x \in partials, NEW y \in fresh
              PROVE  x.id # y.id /\ x.assessment # y.assessment
          BY <2>3, <2>6, <4>2
        <4> QED
          BY <2>1, <4>1, <4>3, <4>4
      <3>3. \A x \in partials' : \E y \in assessments' : y.id = x.assessment
        <4>1. \A x \in fresh : x.assessment = id
          BY <2>4
        <4> QED
          BY <2>1, <2>7, <4>1 DEF IndInv, TypeOK
      <3>4. relations' \subseteq Relation /\ assessments' \subseteq Assessment
        BY <2>1, <2>7, <2>8 DEF IndInv, TypeOK
      <3> QED
        BY <2>1, <2>11, <2>12, <2>13, <3>1, <3>2, <3>3, <3>4
           DEF IndInv, TypeOK, Slots, world, history
    <2>15. \A x \in assessments : Exists(x.id)' /\ Row(x.id)' = x /\ Row(x.id) = x
      BY <2>1, <2>11, TheRow DEF Exists, Row, IndInv, TypeOK
    <2>16. Exists(id)' /\ Row(id)' = row
      BY <2>1, <2>7, <2>11, TheRow DEF Exists, Row
    <2>17. AssessedOnce'
      <3>1. \A x, y \in relations' : x.assignment = y.assignment /\ x.user = y.user => x = y
        BY <2>1, <2>8, <2>9, <2>10 DEF IndInv, AssessedOnce
      <3>2. ASSUME NEW x \in relations
            PROVE  Exists(x.assessment)' /\ Row(x.assessment)'.assignment = x.assignment
        <4>1. Exists(x.assessment) /\ Row(x.assessment).assignment = x.assignment
          BY DEF IndInv, AssessedOnce
        <4>2. PICK y \in assessments : y = Row(x.assessment) /\ y.id = x.assessment
          BY <4>1, RowFound DEF IndInv
        <4> QED
          BY <2>15, <4>1, <4>2
      <3>3. ASSUME NEW x \in users2
            PROVE  Exists(x.assessment)' /\ Row(x.assessment)'.assignment = x.assignment
        BY <2>7, <2>8, <2>16
      <3> QED
        BY <2>1, <3>1, <3>2, <3>3 DEF AssessedOnce
    <2>18. PartialsKnown'
      <3>1. /\ partials' \subseteq KnownPartials \cup fresh
            /\ \A x \in fresh : x.id \in Nat /\ x.id >= nextIds.partial /\ x.id < nextIds'.partial
            /\ \A x, y \in fresh : x.id = y.id => x = y
        BY <2>1, <2>4, <2>12 DEF KnownPartials
      <3>2. nextIds'.partial \in Nat /\ nextIds'.partial >= nextIds.partial
        BY <2>3, <2>4, <2>12
      <3> QED
        BY <2>13, <3>1, <3>2, PartialsStayKnown
    <2>19. AssessmentsKnown'
      <3>1. \A x \in assessments' :
              \/ \E y \in KnownAssessments : y.id = x.id /\ y.assignment = x.assignment
              \/ x.id = nextIds.assessment /\ nextIds'.assessment = nextIds.assessment + 1
        BY <2>7, <2>11, <2>12 DEF KnownAssessments
      <3> QED
        BY <2>11, <2>12, <2>13, <3>1, AssessmentsStayKnown
    <2>20. RequestsConsistent'
      BY <2>3, <2>12, <2>13, RequestsKept
    <2>21. ScoresConsistent'
      <3>1. ASSUME NEW i \in Ids, Exists(i)
            PROVE  Exists(i)' /\ Row(i)' = Row(i)
        BY <2>15, <3>1 DEF Exists
      <3> QED
        BY <1>1, <2>1, <2>13, <2>14, <3>1, OtherRequest DEF world, history
    <2> QED
      BY <2>14, <2>17, <2>18, <2>19, <2>20, <2>21 DEF IndInv
  <1> QED
    BY <1>2, <1>3

\* An assessment is written as it was loaded, with the changes of the client.
LEMMA SaveUpdateStep ==
    ASSUME IndInv, NEW r \in Requests, SaveUpdate(r)
    PROVE  IndInv'
  <1> DEFINE q == req[r]
  <1> PICK id : id = q.id
    OBVIOUS
  <1>1. q \in Request /\ q.op = "update" /\ q.pc = "save" /\ At(r, "update", "save")
    BY BusySlot DEF SaveUpdate, IndInv
  <1>2. CASE Reject(r)
    BY <1>1, <1>2, UpdateRejected
  <1>3. CASE ~Reject(r)
    <2>1. PICK row \in Assessment : row.id = id /\ q.entity = {row}
      BY <1>1 DEF IndInv, RequestsConsistent
    <2>2. (CHOOSE x \in q.entity : TRUE) = row
      BY <2>1
    <2> DEFINE fresh == IF q.keys = Keep THEN {} ELSE NewPartials(id, q.keys)
               up == Updated(q, row)
               next == [q EXCEPT !.pc = "reread"]
               n == Cardinality(fresh)
    <2>3. /\ nextIds.partial + n <= MaxPartials + 1
          /\ assessments' = {x \in assessments : x.id # id} \cup {up}
          /\ partials' = {p \in partials : p.assessment # id}
                            \cup (IF q.keys = Keep THEN q.loaded ELSE fresh)
          /\ nextIds' = [nextIds EXCEPT !.partial = @ + n]
          /\ changes' = IF Exists(id) /\ phase[row.assignment] = "evaluated"
                        THEN NewScore(q, Row(id).points, up.points) ELSE changes
          /\ req' = [req EXCEPT ![r] = next]
          /\ UNCHANGED <<world, relations, recorded, calm>>
      BY <1>3, <2>2 DEF SaveUpdate, Advance
    <2>4. /\ id \in Ids /\ q.points \in Points \cup {Keep} /\ q.keys \in (SUBSET Keys) \cup {Keep}
          /\ q.by \in Staff /\ q.loaded \subseteq Partial
      BY <1>1, RequestFields
    <2>5. /\ nextIds.partial \in Nat \ {0} /\ nextIds.assessment \in Nat
          /\ nextIds = [assessment |-> nextIds.assessment, partial |-> nextIds.partial]
      BY NextIds DEF IndInv
    <2>6. /\ n \in Nat
          /\ \A p \in fresh : /\ p = [id |-> p.id, assessment |-> id, key |-> p.key]
                              /\ p.key \in q.keys /\ q.keys # Keep
                              /\ p.id \in Nat /\ p.id >= nextIds.partial
                              /\ p.id < nextIds.partial + n
          /\ \A x, y \in fresh : x.id = y.id \/ x.key = y.key => x = y
      <3>1. CASE q.keys = Keep
        BY <3>1, FS_EmptySet
      <3>2. CASE q.keys # Keep
        <4>1. q.keys \in SUBSET Keys
          BY <2>4, <3>2
        <4>2. fresh = NewPartials(id, q.keys)
          BY <3>2
        <4> HIDE DEF fresh
        <4> QED
          BY <2>5, <3>2, <4>1, <4>2, NewPartialsAre
      <3> QED
        BY <3>1, <3>2
    <2>7. /\ up \in Assessment /\ up.id = id /\ up.assignment = row.assignment
          /\ up.points = IF q.points = Keep THEN row.points ELSE q.points
      BY <2>1, <2>4 DEF Updated, Assessment, Users
    <2>8. /\ next \in Request /\ next.op = "update" /\ next.id = id /\ next.pc = "reread"
          /\ next.by = q.by /\ next.old = q.old /\ next # Idle
      BY <1>1 DEF Request, Idle
    <2>9. q.loaded \subseteq KnownPartials
      BY <1>1, KnownPartialsAre
    <2>10. row \in KnownAssessments
      BY <1>1, <2>1, KnownAssessmentsAre
    <2>11. /\ \A p \in q.loaded : p.assessment = id
           /\ \A x, y \in q.loaded : x.key = y.key => x = y
      BY <1>1 DEF IndInv, RequestsConsistent
    <2>12. \A x \in partials : x \in KnownPartials /\ x.id \in Nat /\ x.id < nextIds.partial
      <3>1. \A x \in partials : x \in KnownPartials /\ x \in Partial
        BY DEF KnownPartials, IndInv, TypeOK
      <3> QED
        BY <3>1, AssessmentsAssumption DEF IndInv, PartialsKnown, Partial
    <2> HIDE DEF fresh, up, next, n
    <2>13. Loaded(next)
      <3>1. id < nextIds.assessment /\ q.old \in Points
        BY <1>1, RequestFields DEF IndInv, RequestsConsistent
      <3> QED
        BY <2>8, <3>1 DEF Loaded
    <2>14. Slots /\ req'[r] = next /\ \A s \in Requests \ {r} : req'[s] = req[s]
      BY <2>3, <2>8, <2>13, OneSlot
    <2>15. /\ nextIds'.partial = nextIds.partial + n
           /\ nextIds'.assessment = nextIds.assessment
           /\ nextIds'.partial \in Nat /\ nextIds'.partial >= nextIds.partial
           /\ nextIds' = [assessment |-> nextIds'.assessment, partial |-> nextIds'.partial]
      BY <2>3, <2>5, <2>6
    <2>16. /\ \A x \in assessments' : x = up \/ (x \in assessments /\ x.id # id)
           /\ \A x, y \in assessments' : x.id = y.id => x = y
           /\ \A x \in assessments : x.id # id => x \in assessments'
      BY <2>3, <2>7 DEF IndInv, TypeOK
    <2>17. changes' \in [Ids -> Seq(ScoreChange)]
           /\ \A i \in Ids \ {id} : changes'[i] = changes[i]
      <3>1. changes \in [Ids -> Seq(ScoreChange)]
        BY DEF IndInv, TypeOK
      <3>2. CASE changes' = changes
        BY <3>1, <3>2
      <3>3. CASE changes' # changes
        <4> DEFINE e == [old |-> Row(id).points, new |-> up.points, by |-> q.by]
        <4>1. Exists(id) /\ changes' = [changes EXCEPT ![id] = Append(@, e)]
          BY <2>3, <3>3 DEF NewScore
        <4>2. e \in ScoreChange
          BY <2>4, <2>7, <4>1, RowFound DEF IndInv, ScoreChange, Assessment, Users
        <4> HIDE DEF e
        <4>3. Append(changes[id], e) \in Seq(ScoreChange)
          BY <2>4, <3>1, <4>2
        <4> QED
          BY <2>4, <3>1, <4>1, <4>3
      <3> QED
        BY <3>2, <3>3
    <2>18. TypeOK'
      <3>1. \A x, y \in KnownPartials : x.id = y.id => x = y
        BY DEF IndInv, PartialsKnown
      <3>2. \A x, y \in partials :
               x.id = y.id \/ <<x.assessment, x.key>> = <<y.assessment, y.key>> => x = y
        BY DEF IndInv, TypeOK
      <3> DEFINE put == IF q.keys = Keep THEN q.loaded ELSE fresh
      <3>3. \A x \in put : x \in Partial /\ x.assessment = id
        <4>1. ASSUME NEW x \in fresh
              PROVE  x \in Partial /\ x.assessment = id
          <5>1. x.id \in 1 .. MaxPartials
            BY <2>3, <2>5, <2>6, AssessmentsAssumption
          <5>2. x.key \in q.keys /\ q.keys # Keep
            BY <2>6
          <5>3. x.key \in Keys
            BY <2>4, <5>2
          <5> QED
            BY <2>4, <2>6, <5>1, <5>3 DEF Partial
        <4> QED
          BY <2>4, <2>11, <4>1
      <3>4. \A x, y \in put : x.id = y.id \/ x.key = y.key => x = y
        BY <2>6, <2>9, <2>11, <3>1
      <3>5. ASSUME NEW x \in partials, NEW y \in put, x.assessment # id
            PROVE  x.id # y.id
        <4>1. y.assessment = id
          BY <3>3
        <4>2. CASE y \in q.loaded
          BY <2>9, <2>12, <3>1, <3>5, <4>1, <4>2
        <4>3. CASE y \in fresh
          BY <2>5, <2>6, <2>12, <4>3
        <4> QED
          BY <4>2, <4>3
      <3>6. partials' = {p \in partials : p.assessment # id} \cup put
        BY <2>3
      <3> HIDE DEF put
      <3>7. \A x, y \in partials' :
               x.id = y.id \/ <<x.assessment, x.key>> = <<y.assessment, y.key>> => x = y
        BY <3>2, <3>3, <3>4, <3>5, <3>6
      <3>8. \A x \in partials' : \E y \in assessments' : y.id = x.assessment
        <4>1. up \in assessments'
          BY <2>3
        <4>2. \A x \in partials : \E y \in assessments : y.id = x.assessment
          BY DEF IndInv, TypeOK
        <4> QED
          BY <2>7, <2>16, <3>3, <3>6, <4>1, <4>2
      <3>9. nextIds' \in [assessment : 1 .. MaxAssessments + 1, partial : 1 .. MaxPartials + 1]
        BY <2>3, <2>5, <2>6, <2>15, AssessmentsAssumption DEF IndInv, TypeOK
      <3>10. partials' \subseteq Partial /\ assessments' \subseteq Assessment
        BY <2>7, <2>16, <3>3, <3>6 DEF IndInv, TypeOK
      <3> QED
        BY <2>3, <2>14, <2>16, <2>17, <3>7, <3>8, <3>9, <3>10 DEF IndInv, TypeOK, Slots, world
    <2>19. Exists(id)' /\ Row(id)' = up
      <3>1. up \in assessments'
        BY <2>3
      <3> QED
        BY <2>7, <2>16, <3>1, TheRow DEF Exists, Row
    <2>20. ASSUME NEW i, i # id, Exists(i)
           PROVE  Exists(i)' /\ Row(i)' = Row(i)
      <3>1. PICK x \in assessments : x.id = i
        BY <2>20 DEF Exists
      <3>2. x \in assessments'
        BY <2>16, <2>20, <3>1
      <3>3. Row(i) = x
        BY <3>1, TheRow DEF Row, IndInv, TypeOK
      <3>4. Row(i)' = x
        BY <2>16, <3>1, <3>2, TheRow DEF Row
      <3> QED
        BY <3>1, <3>2, <3>3, <3>4 DEF Exists
    <2>21. Exists(id) => Row(id).assignment = row.assignment
      <3> SUFFICES ASSUME Exists(id) PROVE Row(id).assignment = row.assignment
        OBVIOUS
      <3>1. Row(id) \in KnownAssessments /\ Row(id).id = id
        BY RowFound DEF IndInv, KnownAssessments
      <3> QED
        BY <2>1, <2>10, <3>1 DEF IndInv, AssessmentsKnown
    <2>22. AssessedOnce'
      <3>1. ASSUME NEW x \in relations
            PROVE  Exists(x.assessment)' /\ Row(x.assessment)'.assignment = x.assignment
        <4>1. Exists(x.assessment) /\ Row(x.assessment).assignment = x.assignment
          BY DEF IndInv, AssessedOnce
        <4> QED
          BY <2>7, <2>19, <2>20, <2>21, <4>1
      <3> QED
        BY <2>3, <3>1 DEF IndInv, AssessedOnce
    <2>23. PartialsKnown'
      <3>1. /\ partials' \subseteq KnownPartials \cup fresh
            /\ \A x \in fresh : x.id \in Nat /\ x.id >= nextIds.partial /\ x.id < nextIds'.partial
            /\ \A x, y \in fresh : x.id = y.id => x = y
        BY <2>3, <2>6, <2>9, <2>12, <2>15
      <3> QED
        BY <2>14, <2>15, <3>1, PartialsStayKnown
    <2>24. AssessmentsKnown'
      <3>1. \A x \in assessments' :
              \E y \in KnownAssessments : y.id = x.id /\ y.assignment = x.assignment
        BY <2>1, <2>7, <2>10, <2>16 DEF KnownAssessments
      <3> QED
        BY <2>14, <2>15, <2>16, <3>1, AssessmentsStayKnown
    <2>25. RequestsConsistent'
      BY <2>5, <2>14, <2>15, RequestsKept
    <2>26. calm[id] => Recording(id, r)'
      <3> SUFFICES ASSUME calm[id] PROVE Recording(id, r)'
        OBVIOUS
      <3>1. /\ Exists(id) /\ q.by \in users /\ q.old = Row(id).points
            /\ changes[id] = recorded[id]
        BY <1>1, Alone DEF Recording
      <3>2. changes \in [Ids -> Seq(ScoreChange)]
        BY DEF IndInv, TypeOK
      <3>3. changes'[id] = IF q.old # up.points /\ phase[row.assignment] = "evaluated"
                           THEN Append(recorded[id], [old |-> q.old, by |-> q.by, new |-> up.points])
                           ELSE recorded[id]
        BY <2>3, <2>4, <3>1, <3>2 DEF NewScore
      <3>4. ScoreChangedAfterRelease(req[r], Row(id))' <=>
               req'[r].old # Row(id)'.points /\ phase'[Row(id)'.assignment] = "evaluated"
        BY DEF ScoreChangedAfterRelease
      <3>5. ScoreChangedAfterRelease(req[r], Row(id))' <=>
               q.old # up.points /\ phase[row.assignment] = "evaluated"
        BY <2>3, <2>7, <2>8, <2>14, <2>19, <3>4 DEF world
      <3> QED
        BY <2>3, <2>8, <2>14, <2>19, <3>1, <3>3, <3>5 DEF Recording, world
    <2>27. ScoresConsistent'
      BY <1>1, <2>3, <2>8, <2>14, <2>17, <2>18, <2>20, <2>26, OwnUpdate DEF world
    <2> QED
      BY <2>18, <2>22, <2>23, <2>24, <2>25, <2>27 DEF IndInv
  <1> QED
    BY <1>2, <1>3

-----------------------------------------------------------------------------
(* The inductive invariant: deletions and changes around the assessments *)

\* A step of no request.
LEMMA NoSlot ==
    ASSUME IndInv, req' = req
    PROVE  Slots /\ \A id : InFlight(id)' = InFlight(id)
  BY DEF Slots, IndInv, TypeOK, InFlight

\* Whoever has an update in flight that runs alone is still there.
LEMMA UpdatersLive ==
    ASSUME IndInv, NEW id \in Ids, calm[id]
    PROVE  /\ \A r \in InFlight(id) : req[r].by \in users
           /\ InFlight(id) \subseteq Requests
           /\ InFlight(id) = {} => recorded[id] = changes[id]
  BY DEF IndInv, ScoresConsistent, ScoreConsistent, Recording, InFlight

\* Assessments go with everything that refers to them.
LEMMA Dropped ==
    ASSUME IndInv, NEW gone, gone \subseteq assessments, DropAssessments(gone),
           WorldOK', UNCHANGED <<users, nextIds, req>>,
           \A x \in assessments \ gone : phase'[x.assignment] = phase[x.assignment]
    PROVE  IndInv'
  <1> DEFINE ids == {x.id : x \in gone}
  <1>1. /\ assessments' = assessments \ gone
        /\ relations' = {x \in relations : x.assessment \notin ids}
        /\ partials' = {p \in partials : p.assessment \notin ids}
        /\ recorded' = [i \in Ids |-> IF i \in ids THEN <<>> ELSE recorded[i]]
        /\ changes' = [i \in Ids |-> IF i \in ids THEN <<>> ELSE changes[i]]
        /\ calm' = [i \in Ids |-> calm[i] /\ (i \in ids => InFlight(i) = {})]
    BY DEF DropAssessments
  <1>2. Slots /\ \A id : InFlight(id)' = InFlight(id)
    BY NoSlot
  <1>3. \A x \in assessments : x \in assessments' <=> x.id \notin ids
    BY <1>1 DEF IndInv, TypeOK
  <1> HIDE DEF ids
  <1>4. TypeOK'
    <2>1. recorded' \in [Ids -> Seq(ScoreChange)] /\ changes' \in [Ids -> Seq(ScoreChange)]
          /\ calm' \in [Ids -> BOOLEAN]
      <3>1. \A i \in Ids : recorded[i] \in Seq(ScoreChange) /\ changes[i] \in Seq(ScoreChange)
                           /\ calm[i] \in BOOLEAN
        BY DEF IndInv, TypeOK
      <3>2. <<>> \in Seq(ScoreChange)
        OBVIOUS
      <3> QED
        BY <1>1, <3>1, <3>2
    <2>2. \A p \in partials' : \E x \in assessments' : x.id = p.assessment
      BY <1>1, <1>3 DEF IndInv, TypeOK
    <2>3. /\ assessments' \subseteq assessments /\ relations' \subseteq relations
          /\ partials' \subseteq partials
      BY <1>1
    <2> QED
      BY <2>1, <2>2, <2>3 DEF IndInv, TypeOK, WorldOK
  <1>5. ASSUME NEW i, Exists(i), i \notin ids
        PROVE  Exists(i)' /\ Row(i)' = Row(i) /\ Row(i) \in assessments \ gone
    <2>1. PICK x \in assessments : x.id = i
      BY <1>5 DEF Exists
    <2>2. x \in assessments' /\ x \notin gone
      BY <1>1, <1>3, <1>5, <2>1
    <2>3. Row(i) = x
      BY <2>1, TheRow DEF Row, IndInv, TypeOK
    <2>4. Row(i)' = x
      BY <1>4, <2>1, <2>2, TheRow DEF Row, TypeOK
    <2> QED
      BY <2>1, <2>2, <2>3, <2>4 DEF Exists
  <1>6. AssessedOnce'
    BY <1>1, <1>5 DEF IndInv, AssessedOnce
  <1>7. PartialsKnown'
    <2> DEFINE new == {}
    <2>1. /\ partials' \subseteq KnownPartials \cup new
          /\ \A x \in new : x.id \in Nat /\ x.id >= nextIds.partial /\ x.id < nextIds'.partial
          /\ \A x, y \in new : x.id = y.id => x = y
      BY <1>1 DEF KnownPartials
    <2> HIDE DEF new
    <2>2. nextIds'.partial \in Nat /\ nextIds'.partial >= nextIds.partial
      BY NextIds DEF IndInv
    <2> QED
      BY <1>2, <2>1, <2>2, PartialsStayKnown
  <1>8. AssessmentsKnown'
    <2>1. assessments' \subseteq KnownAssessments
      BY <1>1 DEF KnownAssessments
    <2> QED
      BY <1>2, <1>4, <2>1, AssessmentsStayKnown DEF TypeOK
  <1>9. RequestsConsistent'
    BY <1>2, NextIds, RequestsKept DEF IndInv
  <1>10. ASSUME NEW i \in Ids, calm'[i]
         PROVE  ScoreConsistent(i)'
    <2>1. calm[i] /\ (i \in ids => InFlight(i) = {})
      BY <1>1, <1>10
    <2>2. CASE i \in ids
      BY <1>1, <1>2, <2>1, <2>2 DEF ScoreConsistent
    <2>3. CASE i \notin ids
      <3>1. recorded'[i] = recorded[i] /\ changes'[i] = changes[i]
        BY <1>1, <2>3
      <3> QED
        BY <1>4, <1>5, <2>1, <2>3, <3>1, UpdatersLive, ScoreKept
    <2> QED
      BY <2>2, <2>3
  <1> QED
    BY <1>4, <1>6, <1>7, <1>8, <1>9, <1>10 DEF IndInv, ScoresConsistent

\* Deleting an assessment, or an assignment with its assessments and registrations.
LEMMA DeleteStep ==
    ASSUME IndInv,
           \/ \E id \in Ids : DeleteAssessment(id)
           \/ \E a \in Assignments : DeleteAssignment(a)
    PROVE  IndInv'
  <1>1. ASSUME NEW id \in Ids, DeleteAssessment(id)
        PROVE  IndInv'
    <2>1. Row(id) \in assessments
      BY <1>1, RowFound DEF DeleteAssessment, IndInv
    <2>2. WorldOK'
      BY <1>1 DEF DeleteAssessment, world, WorldOK, IndInv, TypeOK
    <2> QED
      BY <1>1, <2>1, <2>2, Dropped DEF DeleteAssessment, world
  <1>2. ASSUME NEW a \in Assignments, DeleteAssignment(a)
        PROVE  IndInv'
    <2> DEFINE gone == {x \in assessments : x.assignment = a}
    <2>1. WorldOK'
      BY <1>2 DEF DeleteAssignment, WorldOK, IndInv, TypeOK
    <2>2. \A x \in assessments \ gone : phase'[x.assignment] = phase[x.assignment]
      BY <1>2 DEF DeleteAssignment, IndInv, TypeOK, Assessment
    <2>3. gone \subseteq assessments /\ DropAssessments(gone) /\ UNCHANGED <<users, nextIds, req>>
      BY <1>2 DEF DeleteAssignment
    <2> HIDE DEF gone
    <2> QED
      BY <2>1, <2>2, <2>3, Dropped
  <1> QED
    BY <1>1, <1>2

\* A release, a crash: no update that has been in flight runs alone any more.
LEMMA CutOffStep ==
    ASSUME IndInv,
           Crash \/ \E a \in Assignments, to \in {"open", "evaluated"} : ChangePhase(a, to)
    PROVE  IndInv'
  <1>1. /\ UNCHANGED <<rows, changes>> /\ Slots /\ WorldOK'
        /\ calm' = [i \in Ids |-> calm[i] /\ InFlight(i) = {}]
        /\ \A i : InFlight(i)' \subseteq InFlight(i)
    <2>1. CASE Crash
      <3>1. req' = [r \in Requests |-> Idle]
        BY <2>1 DEF Crash
      <3>2. Slots /\ \A i : InFlight(i)' \subseteq InFlight(i)
        BY <3>1 DEF Slots, InFlight, Idle
      <3> QED
        BY <2>1, <3>2 DEF Crash, world, WorldOK, IndInv, TypeOK
    <2>2. ASSUME NEW a \in Assignments, NEW to \in {"open", "evaluated"}, ChangePhase(a, to)
          PROVE  /\ UNCHANGED <<rows, changes>> /\ Slots /\ WorldOK'
                 /\ calm' = [i \in Ids |-> calm[i] /\ InFlight(i) = {}]
                 /\ \A i : InFlight(i)' \subseteq InFlight(i)
      BY <2>2, NoSlot DEF ChangePhase, WorldOK, IndInv, TypeOK
    <2> QED
      BY <2>1, <2>2
  <1>2. Base'
    BY <1>1, EventStep DEF rows, IndInv, TypeOK
  <1>3. ASSUME NEW i \in Ids, calm'[i]
        PROVE  ScoreConsistent(i)'
    <2>1. calm[i] /\ InFlight(i) = {} /\ InFlight(i)' = {}
      BY <1>1, <1>3
    <2> QED
      BY <1>1, <2>1, UpdatersLive DEF ScoreConsistent, rows
  <1> QED
    BY <1>2, <1>3 DEF IndInv, Base, ScoresConsistent

\* Registrations change nothing about the assessments.
LEMMA RegisterStep ==
    ASSUME IndInv, NEW a \in Assignments, NEW s \in Students, NEW g \in GroupIds \cup {NoGroup},
           Register(a, s, g)
    PROVE  IndInv'
  <1>1. WorldOK'
    BY DEF Register, WorldOK, IndInv, TypeOK
  <1>2. Slots /\ \A id : InFlight(id)' = InFlight(id)
    BY NoSlot DEF Register
  <1>3. Base'
    BY <1>1, <1>2, EventStep DEF Register, rows, history, IndInv, TypeOK
  <1>4. ASSUME NEW i \in Ids, calm'[i]
        PROVE  ScoreConsistent(i)'
    BY <1>2, <1>3, <1>4, UpdatersLive, ScoreKept
       DEF Register, Base, rows, history, Exists, Row
  <1> QED
    BY <1>3, <1>4 DEF IndInv, Base, ScoresConsistent

\* Assessments only forget a group that is deleted.
LEMMA GroupForgotten ==
    ASSUME IndInv, NEW g \in GroupIds, DeleteGroup(g)
    PROVE  /\ assessments' \subseteq Assessment /\ \A x, y \in assessments' : x.id = y.id => x = y
           /\ \A x \in assessments' : \E y \in assessments : y.id = x.id /\ y.assignment = x.assignment
           /\ \A i : Exists(i) =>
                 /\ Exists(i)' /\ Row(i)'.points = Row(i).points
                 /\ Row(i)'.assignment = Row(i).assignment
  <1> DEFINE without(x) == [x EXCEPT !.group = IF @ = g THEN NoGroup ELSE @]
  <1>1. assessments' = {without(x) : x \in assessments}
    BY DEF DeleteGroup
  <1>2. ASSUME NEW x \in assessments
        PROVE  /\ without(x) \in Assessment /\ without(x).id = x.id
               /\ without(x).assignment = x.assignment /\ without(x).points = x.points
    BY DEF IndInv, TypeOK, Assessment
  <1>3. \A x, y \in assessments : x.id = y.id => x = y
    BY DEF IndInv, TypeOK
  <1> HIDE DEF without
  <1>4. assessments' \subseteq Assessment /\ \A x, y \in assessments' : x.id = y.id => x = y
    BY <1>1, <1>2, <1>3
  <1>5. ASSUME NEW i, Exists(i)
        PROVE  /\ Exists(i)' /\ Row(i)'.points = Row(i).points
               /\ Row(i)'.assignment = Row(i).assignment
    <2>1. PICK x \in assessments : x.id = i
      BY <1>5 DEF Exists
    <2>2. PICK y \in assessments' : y = without(x)
      BY <1>1
    <2>3. Row(i) = x
      BY <1>3, <2>1, TheRow DEF Row
    <2>4. y.id = i
      BY <1>2, <2>1, <2>2
    <2>5. Row(i)' = y
      BY <1>4, <2>4, TheRow DEF Row
    <2> QED
      BY <1>2, <2>2, <2>3, <2>4, <2>5 DEF Exists
  <1> QED
    BY <1>1, <1>2, <1>4, <1>5

\* Deleting a group breaks nothing.
LEMMA DeleteGroupStep ==
    ASSUME IndInv, NEW g \in GroupIds, DeleteGroup(g)
    PROVE  IndInv'
  <1>1. UNCHANGED <<users, phase, relations, partials, recorded, nextIds, req, history>>
    BY DEF DeleteGroup
  <1>2. WorldOK'
    <2>1. /\ groups' = groups \ {g} /\ users' = users /\ phase' = phase
          /\ registered' = [a \in Assignments |-> [s \in Students |->
                               IF registered[a][s] = g THEN NoGroup ELSE registered[a][s]]]
      BY DEF DeleteGroup
    <2>2. \A a \in Assignments, s \in Students : registered[a][s] \in groups \cup {NoGroup}
      BY DEF IndInv, TypeOK
    <2> QED
      BY <2>1, <2>2 DEF WorldOK, IndInv, TypeOK
  <1>3. Slots /\ \A id : InFlight(id)' = InFlight(id)
    BY <1>1, NoSlot
  <1>4. /\ assessments' \subseteq Assessment /\ \A x, y \in assessments' : x.id = y.id => x = y
        /\ \A x \in assessments' : \E y \in assessments : y.id = x.id /\ y.assignment = x.assignment
        /\ \A i : Exists(i) =>
              /\ Exists(i)' /\ Row(i)'.points = Row(i).points
              /\ Row(i)'.assignment = Row(i).assignment
    BY GroupForgotten
  <1>5. TypeOK'
    <2>1. \A p \in partials : \E x \in assessments' : x.id = p.assessment
      BY <1>4 DEF IndInv, TypeOK, Exists
    <2> QED
      BY <1>1, <1>2, <1>3, <1>4, <2>1 DEF IndInv, TypeOK, WorldOK, history
  <1>6. AssessedOnce'
    BY <1>1, <1>4 DEF IndInv, AssessedOnce
  <1>7. PartialsKnown'
    <2> DEFINE new == {}
    <2>1. /\ partials' \subseteq KnownPartials \cup new
          /\ \A x \in new : x.id \in Nat /\ x.id >= nextIds.partial /\ x.id < nextIds'.partial
          /\ \A x, y \in new : x.id = y.id => x = y
      BY <1>1 DEF KnownPartials
    <2> HIDE DEF new
    <2>2. nextIds'.partial \in Nat /\ nextIds'.partial >= nextIds.partial
      BY <1>1, NextIds DEF IndInv
    <2> QED
      BY <1>3, <2>1, <2>2, PartialsStayKnown
  <1>8. AssessmentsKnown'
    <2>1. \A x \in assessments' : \E y \in KnownAssessments : y.id = x.id /\ y.assignment = x.assignment
      BY <1>4 DEF KnownAssessments
    <2> QED
      BY <1>1, <1>3, <1>4, <2>1, AssessmentsStayKnown
  <1>9. RequestsConsistent'
    BY <1>1, <1>3, NextIds, RequestsKept DEF IndInv
  <1>10. ASSUME NEW i \in Ids, calm'[i]
         PROVE  ScoreConsistent(i)'
    <2>1. \A r \in InFlight(i) : req[r].by \in users'
      BY <1>1, <1>10, UpdatersLive DEF history
    <2> QED
      BY <1>1, <1>4, <1>5, <1>10, <2>1, ScoreKept DEF history
  <1> QED
    BY <1>5, <1>6, <1>7, <1>8, <1>9, <1>10 DEF IndInv, ScoresConsistent

\* A user goes with the points he got and the events that he caused.
LEMMA DeleteUserStep ==
    ASSUME IndInv, NEW u \in Users, DeleteUser(u)
    PROVE  IndInv'
  <1>1. /\ users' = users \ {u}
        /\ registered' = [a \in Assignments |-> [s \in Students |->
                             IF s = u THEN NoGroup ELSE registered[a][s]]]
        /\ relations' = {x \in relations : x.user # u}
        /\ recorded' = [i \in Ids |-> Without(u, recorded[i])]
        /\ changes' = [i \in Ids |-> Without(u, changes[i])]
        /\ calm' = [i \in Ids |-> calm[i] /\ \A r \in InFlight(i) : req[r].by # u]
        /\ UNCHANGED <<groups, phase, assessments, partials, nextIds, req>>
    BY DEF DeleteUser
  <1>2. Slots /\ \A id : InFlight(id)' = InFlight(id)
    BY <1>1, NoSlot
  <1>3. \A i \in Ids : recorded[i] \in Seq(ScoreChange) /\ changes[i] \in Seq(ScoreChange)
                       /\ calm[i] \in BOOLEAN
    BY DEF IndInv, TypeOK
  <1>4. TypeOK'
    <2>1. \A i \in Ids : /\ Without(u, recorded[i]) \in Seq(ScoreChange)
                         /\ Without(u, changes[i]) \in Seq(ScoreChange)
      BY <1>3, WithoutType
    <2>2. recorded' \in [Ids -> Seq(ScoreChange)] /\ changes' \in [Ids -> Seq(ScoreChange)]
          /\ calm' \in [Ids -> BOOLEAN]
      BY <1>1, <1>3, <2>1
    <2>3. registered' \in [Assignments -> [Students -> groups' \cup {NoGroup}]]
      BY <1>1 DEF IndInv, TypeOK
    <2> QED
      BY <1>1, <2>2, <2>3 DEF IndInv, TypeOK
  <1>5. \A i : (Exists(i)' <=> Exists(i)) /\ Row(i)' = Row(i)
    BY <1>1 DEF Exists, Row
  <1>6. AssessedOnce'
    BY <1>1, <1>5 DEF IndInv, AssessedOnce
  <1>7. PartialsKnown'
    <2> DEFINE new == {}
    <2>1. /\ partials' \subseteq KnownPartials \cup new
          /\ \A x \in new : x.id \in Nat /\ x.id >= nextIds.partial /\ x.id < nextIds'.partial
          /\ \A x, y \in new : x.id = y.id => x = y
      BY <1>1 DEF KnownPartials
    <2> HIDE DEF new
    <2>2. nextIds'.partial \in Nat /\ nextIds'.partial >= nextIds.partial
      BY <1>1, NextIds DEF IndInv
    <2> QED
      BY <1>2, <2>1, <2>2, PartialsStayKnown
  <1>8. AssessmentsKnown'
    <2>1. assessments' \subseteq KnownAssessments
      BY <1>1 DEF KnownAssessments
    <2> QED
      BY <1>1, <1>2, <1>4, <2>1, AssessmentsStayKnown DEF TypeOK
  <1>9. RequestsConsistent'
    BY <1>1, <1>2, NextIds, RequestsKept DEF IndInv
  <1>10. ASSUME NEW i \in Ids, calm'[i]
         PROVE  ScoreConsistent(i)'
    <2>1. calm[i] /\ \A r \in InFlight(i) : req[r].by # u
      BY <1>1, <1>10
    <2>2. ScoreConsistent(i)
      BY <2>1 DEF IndInv, ScoresConsistent
    <2>3. recorded'[i] = Without(u, recorded[i]) /\ changes'[i] = Without(u, changes[i])
      BY <1>1
    <2>4. ASSUME NEW r \in InFlight(i)
          PROVE  Recording(i, r)'
      <3> DEFINE q == req[r]
      <3>1. r \in Requests /\ q \in Request /\ q.op = "update" /\ q.id = i /\ q.by # u
        BY <2>1, <2>4 DEF InFlight, IndInv, TypeOK, Idle
      <3>2. Recording(i, r)
        BY <2>2, <2>4 DEF ScoreConsistent
      <3>3. q.by \in users'
        BY <1>1, <3>1, <3>2 DEF Recording
      <3>4. ScoreChangedAfterRelease(q, Row(i))' <=> ScoreChangedAfterRelease(q, Row(i))
        BY <1>1, <1>5 DEF ScoreChangedAfterRelease
      <3> DEFINE due == \/ q.pc = "record"
                        \/ q.pc = "reread" /\ ScoreChangedAfterRelease(q, Row(i))
                 e == [old |-> q.old, by |-> q.by,
                       new |-> IF q.pc = "record" THEN q.new ELSE Row(i).points]
      <3>5. changes[i] = IF due THEN Append(recorded[i], e) ELSE recorded[i]
        BY <3>2 DEF Recording
      <3>6. due => e \in ScoreChange
        <4> SUFFICES ASSUME due PROVE e \in ScoreChange
          OBVIOUS
        <4>1. q.old \in Points /\ q.by \in Staff
          BY <3>1, RequestFields DEF IndInv, RequestsConsistent
        <4>2. CASE q.pc = "record"
          <5>1. q.new \in Points
            BY <3>1, <4>2, RequestFields DEF IndInv, RequestsConsistent
          <5> QED
            BY <4>1, <4>2, <5>1 DEF ScoreChange, Users
        <4>3. CASE q.pc # "record"
          <5>1. Exists(i)
            BY <3>2, <4>3 DEF Recording
          <5>2. Row(i).points \in Points
            BY <5>1, RowFound DEF IndInv, Assessment
          <5> QED
            BY <4>1, <4>3, <5>2 DEF ScoreChange, Users
        <4> QED
          BY <4>2, <4>3
      <3>7. e.by # u
        BY <3>1
      <3> HIDE DEF e, due
      <3>8. changes'[i] = IF due THEN Append(recorded'[i], e) ELSE recorded'[i]
        <4>1. CASE due
          <5>1. changes[i] = Append(recorded[i], e)
            BY <3>5, <4>1
          <5>2. recorded[i] \in Seq(ScoreChange) /\ e \in ScoreChange
            BY <1>3, <3>6, <4>1
          <5>3. Without(u, Append(recorded[i], e)) = Append(Without(u, recorded[i]), e)
            BY <3>7, <5>2, WithoutAppend
          <5> QED
            BY <2>3, <4>1, <5>1, <5>3
        <4>2. CASE ~due
          BY <2>3, <3>5, <4>2
        <4> QED
          BY <4>1, <4>2
      <3> QED
        BY <1>1, <1>5, <3>2, <3>3, <3>4, <3>8 DEF Recording, e, due
    <2> QED
      BY <1>2, <2>2, <2>3, <2>4 DEF ScoreConsistent
  <1> QED
    BY <1>4, <1>6, <1>7, <1>8, <1>9, <1>10 DEF IndInv, ScoresConsistent

-----------------------------------------------------------------------------
(* Theorems *)

\* The invariant holds before the first step.
LEMMA InitIndInv ==
    ASSUME InitAssessments
    PROVE  IndInv
  <1>1. TypeOK
    <2>1. \A i \in Ids : recorded[i] = <<>> /\ changes[i] = <<>>
      BY DEF InitAssessments
    <2>2. <<>> \in Seq(ScoreChange)
      OBVIOUS
    <2>3. nextIds \in [assessment : 1 .. MaxAssessments + 1, partial : 1 .. MaxPartials + 1]
      BY AssessmentsAssumption DEF InitAssessments
    <2>4. recorded \in [Ids -> Seq(ScoreChange)] /\ changes \in [Ids -> Seq(ScoreChange)]
      BY <2>2 DEF InitAssessments
    <2>5. phase \in [Assignments -> {"open", "evaluated", "deleted"}]
      BY AssessmentsAssumption DEF InitAssessments
    <2> QED
      BY <2>3, <2>4, <2>5 DEF InitAssessments, TypeOK
  <1>2. \A r \in Requests : \A op, pc : pc # "idle" => ~ At(r, op, pc)
    BY DEF InitAssessments, At, Idle
  <1>3. AssessedOnce
    BY DEF InitAssessments, AssessedOnce
  <1>4. PartialsKnown
    BY <1>2, KnownPartialsAre DEF InitAssessments, PartialsKnown
  <1>5. AssessmentsKnown
    BY <1>2, KnownAssessmentsAre DEF InitAssessments, AssessmentsKnown
  <1>6. RequestsConsistent
    BY <1>2 DEF InitAssessments, RequestsConsistent
  <1>7. ScoresConsistent
    BY DEF InitAssessments, ScoresConsistent, ScoreConsistent, InFlight, Idle
  <1> QED
    BY <1>1, <1>3, <1>4, <1>5, <1>6, <1>7 DEF IndInv

\* The invariant survives the steps of one request.
LEMMA RequestStep ==
    ASSUME IndInv, NEW r \in Requests, StartAssessment(r) \/ AssessmentStep(r)
    PROVE  IndInv'
  BY StartStep, FindMembersStep, SaveCreateStep, LoadOriginalStep, LoadEntityStep,
     SaveUpdateStep, RereadStep, RecordChangeStep, FindPartialStep, SavePartialStep
     DEF AssessmentStep

\* Nothing changes, nothing breaks.
LEMMA StutterStep ==
    ASSUME IndInv, UNCHANGED assessmentVars
    PROVE  IndInv'
  <1> USE DEF assessmentVars, world, rows, history
  <1>1. Slots /\ \A id : InFlight(id)' = InFlight(id)
    BY NoSlot
  <1>2. Base'
    BY <1>1, QuietStep DEF IndInv, TypeOK
  <1>3. ASSUME NEW i \in Ids, calm[i]
        PROVE  ScoreConsistent(i)'
    BY <1>1, <1>2, <1>3, UpdatersLive, ScoreKept DEF Base, Exists, Row
  <1> QED
    BY <1>2, <1>3 DEF IndInv, Base, ScoresConsistent

\* The invariant survives every step.
LEMMA NextIndInv ==
    ASSUME IndInv, [AssessmentsNext]_assessmentVars
    PROVE  IndInv'
  <1>1. CASE AloneStep
    BY <1>1, RequestStep, DeleteStep, CutOffStep, RegisterStep DEF AloneStep
  <1>2. CASE \E a \in Assignments : DeleteAssignment(a)
    BY <1>2, DeleteStep
  <1>3. CASE \E g \in GroupIds : DeleteGroup(g)
    BY <1>3, DeleteGroupStep
  <1>4. CASE \E u \in Users : DeleteUser(u)
    BY <1>4, DeleteUserStep
  <1> QED
    BY <1>1, <1>2, <1>3, <1>4, StutterStep DEF AssessmentsNext

\* The assessments, the requests and what was recorded are consistent at all times.
THEOREM Consistency == AssessmentsSpec => []IndInv
  BY InitIndInv, NextIndInv, PTL DEF AssessmentsSpec

\* Every variable keeps its type; no two rows share an id or an index.
THEOREM TypeCorrectness == AssessmentsSpec => []TypeOK
  <1>1. IndInv => TypeOK
    BY DEF IndInv
  <1> QED
    BY <1>1, Consistency, PTL

\* Whatever tutors do at the same time, a user gets the points of at most one assessment
\* for an assignment, and of one that exists and belongs to that assignment.
THEOREM SingleAssessment == AssessmentsSpec => []AssessedOnce
  <1>1. IndInv => AssessedOnce
    BY DEF IndInv
  <1> QED
    BY <1>1, Consistency, PTL

\* What is recorded of a score is what happened to it, unless updates overlapped or were
\* cut off.
THEOREM RecordsAreTrue == AssessmentsSpec => []RecordedScores
  <1>1. IndInv => RecordedScores
    BY DEF IndInv, ScoresConsistent, ScoreConsistent, RecordedScores
  <1> QED
    BY <1>1, Consistency, PTL

\* Somebody's points are those of the rows that assess him.
LEMMA SamePoints ==
    ASSUME NEW a, NEW u,
           \A x : x \in relations' /\ x.assignment = a <=> x \in relations /\ x.assignment = a,
           \A x \in relations : x.assignment = a => Row(x.assessment)'.points = Row(x.assessment).points
    PROVE  PointsOf(a, u)' = PointsOf(a, u)
  <1> DEFINE mine == {y \in relations : y.assignment = a /\ y.user = u}
  <1>1. {y \in relations' : y.assignment = a /\ y.user = u} = mine
    OBVIOUS
  <1>2. \A x \in mine : Row(x.assessment)'.points = Row(x.assessment).points
    OBVIOUS
  <1>3. PointsOf(a, u)' = {Row(x.assessment)'.points : x \in mine}
    BY <1>1 DEF PointsOf
  <1> HIDE DEF mine
  <1>4. {Row(x.assessment)'.points : x \in mine} = {Row(x.assessment).points : x \in mine}
    BY <1>2
  <1> QED
    BY <1>3, <1>4 DEF PointsOf, mine

\* Users keep their points when they are registered with another group and when a group or
\* another assignment is deleted.
THEOREM PointsOutliveGroups == AssessmentsSpec => PointsSurviveGroupChanges
  <1>1. ASSUME IndInv, AssessmentsNext, <<groups, registered>>' # <<groups, registered>>,
               users' = users, NEW a \in Assignments, NEW u \in Users, phase'[a] # "deleted"
        PROVE  PointsOf(a, u)' = PointsOf(a, u)
    <2>1. \A x \in relations : Exists(x.assessment) /\ Row(x.assessment).assignment = x.assignment
      BY <1>1 DEF IndInv, AssessedOnce
    <2>2. ASSUME NEW r \in Requests, StartAssessment(r) \/ AssessmentStep(r)
          PROVE  FALSE
      <3>1. UNCHANGED world
        BY <2>2 DEF StartAssessment, AssessmentStep, StartCreate, StartUpdate, StartPartial, Begin,
              FindMembers, SaveCreate, LoadOriginal, LoadEntity, SaveUpdate, Reread, RecordChange,
              FindPartial, SavePartial, Reject, GoOn
      <3> QED
        BY <1>1, <3>1 DEF world
    <2>3. CASE \E b \in Assignments, s \in Students, g \in GroupIds \cup {NoGroup} : Register(b, s, g)
      BY <2>3, SamePoints DEF Register, rows, Row
    <2>4. ASSUME NEW b \in Assignments, DeleteAssignment(b)
          PROVE  PointsOf(a, u)' = PointsOf(a, u)
      <3> DEFINE gone == {x \in assessments : x.assignment = b}
                 ids == {x.id : x \in gone}
      <3>1. /\ assessments' = assessments \ gone
            /\ relations' = {x \in relations : x.assessment \notin ids}
        BY <2>4 DEF DeleteAssignment, DropAssessments
      <3>2. a # b
        BY <1>1, <2>4 DEF DeleteAssignment, IndInv, TypeOK
      <3>3. ASSUME NEW x \in relations, x.assignment = a
            PROVE  x.assessment \notin ids /\ Row(x.assessment)' = Row(x.assessment)
        <4>1. /\ Row(x.assessment) \in assessments /\ Row(x.assessment).id = x.assessment
              /\ Row(x.assessment).assignment = a
          BY <1>1, <2>1, <3>3, RowFound DEF IndInv
        <4>2. PICK y : y = Row(x.assessment)
          OBVIOUS
        <4>3. \A z, w \in assessments : z.id = w.id => z = w
          BY <1>1 DEF IndInv, TypeOK
        <4>4. x.assessment \notin ids
          BY <3>2, <4>1, <4>2, <4>3
        <4>5. y \in assessments' /\ y.id = x.assessment
          BY <3>1, <3>2, <4>1, <4>2
        <4>6. \A z, w \in assessments' : z.id = w.id => z = w
          BY <3>1, <4>3
        <4>7. Row(x.assessment)' = y
          BY <4>5, <4>6, TheRow DEF Row
        <4> QED
          BY <4>2, <4>4, <4>7
      <3> HIDE DEF ids
      <3>4. \A x : x \in relations' /\ x.assignment = a <=> x \in relations /\ x.assignment = a
        BY <3>1, <3>3
      <3>5. \A x \in relations : x.assignment = a => Row(x.assessment)'.points = Row(x.assessment).points
        BY <3>3
      <3> QED
        BY <3>4, <3>5, SamePoints
    <2>5. ASSUME NEW g \in GroupIds, DeleteGroup(g)
          PROVE  PointsOf(a, u)' = PointsOf(a, u)
      <3>1. relations' = relations
        BY <2>5 DEF DeleteGroup
      <3>2. \A x \in relations : Row(x.assessment)'.points = Row(x.assessment).points
        BY <1>1, <2>1, <2>5, GroupForgotten
      <3> QED
        BY <3>1, <3>2, SamePoints
    <2>6. CASE \E v \in Users : DeleteUser(v)
      BY <1>1, <2>6 DEF DeleteUser
    <2>7. CASE \/ \E id \in Ids : DeleteAssessment(id)
               \/ \E b \in Assignments, to \in {"open", "evaluated"} : ChangePhase(b, to)
               \/ Crash
      BY <1>1, <2>7 DEF DeleteAssessment, ChangePhase, Crash, world
    <2> QED
      BY <1>1, <2>2, <2>3, <2>4, <2>5, <2>6, <2>7 DEF AssessmentsNext, AloneStep
  <1>2. IndInv /\ [AssessmentsNext]_assessmentVars =>
           [<<groups, registered>>' # <<groups, registered>> /\ users' = users =>
              \A a \in Assignments, u \in Users :
                 phase'[a] # "deleted" => PointsOf(a, u)' = PointsOf(a, u)]_assessmentVars
    BY <1>1
  <1> QED
    BY <1>2, Consistency, PTL DEF AssessmentsSpec, PointsSurviveGroupChanges

-----------------------------------------------------------------------------
(* Lemmas about sums over finite sets *)

\* Induction over the subsets of a finite set, for a set instead of a predicate.
LEMMA SubsetInduction ==
    ASSUME NEW S, IsFiniteSet(S), NEW T, {} \in T,
           \A s \in SUBSET S : s # {} /\ (\A x \in s : s \ {x} \in T) => s \in T
    PROVE  SUBSET S \subseteq T
  <1> DEFINE Good == {n \in Nat : \A s \in SUBSET S : Cardinality(s) = n => s \in T}
  <1>1. \A s \in SUBSET S : IsFiniteSet(s) /\ Cardinality(s) \in Nat
    BY FS_Subset, FS_CardinalityType
  <1>2. 0 \in Good
    <2>1. \A s \in SUBSET S : Cardinality(s) = 0 => s = {}
      BY <1>1, FS_EmptySet
    <2> QED
      BY <2>1
  <1>3. ASSUME NEW n \in Nat, n \in Good
        PROVE  n + 1 \in Good
    <2> SUFFICES ASSUME NEW s \in SUBSET S, Cardinality(s) = n + 1
                 PROVE  s \in T
      OBVIOUS
    <2>1. s # {}
      <3>1. Cardinality({}) = 0 /\ n + 1 # 0
        BY FS_EmptySet
      <3> QED
        BY <3>1
    <2>2. ASSUME NEW x \in s
          PROVE  s \ {x} \in T
      <3>1. Cardinality(s \ {x}) = n /\ s \ {x} \in SUBSET S
        BY <1>1, FS_RemoveElement
      <3> QED
        BY <1>3, <3>1
    <2> QED
      BY <2>1, <2>2
  <1>4. Nat \subseteq Good
    <2> HIDE DEF Good
    <2> QED
      BY <1>2, <1>3, Induction
  <1> QED
    BY <1>1, <1>4

\* The recursive function that a sum is made of.
Counts(S, F, g) ==
    g = [s \in SUBSET S |-> IF s = {} THEN 0
                            ELSE F[CHOOSE x \in s : TRUE] + g[s \ {CHOOSE x \in s : TRUE}]]

\* The sum over each subset, whichever element is counted last.
IsSum(S, F, h) ==
    /\ h \in [SUBSET S -> Nat] /\ h[{}] = 0
    /\ \A s \in SUBSET S : \A x \in s : h[s] = F[x] + h[s \ {x}]

\* The sum of all values of a function.
Total(F) == (CHOOSE g : Counts(DOMAIN F, F, g))[DOMAIN F]

\* Such sums exist: element by element.
LEMMA SumExists ==
    ASSUME NEW S, IsFiniteSet(S), NEW F \in [S -> Nat]
    PROVE  \E h : IsSum(S, F, h)
  <1> DEFINE T == {s \in SUBSET S : \E h : IsSum(s, F, h)}
  <1>1. {} \in T
    <2>1. IsSum({}, F, [s \in {{}} |-> 0])
      BY DEF IsSum
    <2> QED
      BY <2>1
  <1>2. ASSUME NEW s \in SUBSET S, s # {}, \A x \in s : s \ {x} \in T
        PROVE  s \in T
    <2>1. PICK x \in s : TRUE
      BY <1>2
    <2>2. PICK h : IsSum(s \ {x}, F, h)
      BY <1>2, <2>1
    <2> DEFINE k == [t \in SUBSET s |-> IF x \in t THEN F[x] + h[t \ {x}] ELSE h[t]]
    <2>3. /\ h \in [SUBSET (s \ {x}) -> Nat] /\ h[{}] = 0
          /\ \A t \in SUBSET (s \ {x}) : \A y \in t : h[t] = F[y] + h[t \ {y}]
      BY <2>2 DEF IsSum
    <2>4. \A t \in SUBSET s : k[t] = IF x \in t THEN F[x] + h[t \ {x}] ELSE h[t]
      OBVIOUS
    <2>5. \A y \in s : F[y] \in Nat
      OBVIOUS
    <2>6. k \in [SUBSET s -> Nat]
      <3>1. \A t \in SUBSET s : k[t] \in Nat
        BY <2>1, <2>3, <2>4, <2>5
      <3> QED
        BY <3>1
    <2> HIDE DEF k
    <2>7. ASSUME NEW t \in SUBSET s, NEW y \in t
          PROVE  k[t] = F[y] + k[t \ {y}]
      <3>1. t \ {y} \in SUBSET s /\ t \ {x} \in SUBSET (s \ {x}) /\ (t \ {x}) \ {y} = (t \ {y}) \ {x}
        OBVIOUS
      <3>2. CASE x = y
        BY <2>4, <3>1, <3>2
      <3>3. CASE x # y /\ x \in t
        <4>1. h[t \ {x}] = F[y] + h[(t \ {y}) \ {x}]
          <5>1. PICK v \in SUBSET (s \ {x}) : v = t \ {x}
            BY <3>1
          <5>2. y \in v
            BY <3>3, <5>1
          <5>3. h[v] = F[y] + h[v \ {y}]
            BY <2>3, <5>2
          <5> QED
            BY <3>1, <5>1, <5>3
        <4>2. h[(t \ {y}) \ {x}] \in Nat
          BY <2>3, <3>1
        <4> QED
          BY <2>1, <2>4, <2>5, <3>1, <3>3, <4>1, <4>2
      <3>4. CASE x \notin t
        <4>1. t \in SUBSET (s \ {x}) /\ x \notin t \ {y}
          BY <3>4
        <4>2. h[t] = F[y] + h[t \ {y}]
          BY <2>3, <4>1
        <4>3. k[t] = h[t] /\ k[t \ {y}] = h[t \ {y}]
          BY <2>4, <3>1, <3>4, <4>1
        <4> QED
          BY <4>2, <4>3
      <3> QED
        BY <3>2, <3>3, <3>4
    <2>8. IsSum(s, F, k)
      BY <2>3, <2>4, <2>6, <2>7 DEF IsSum
    <2> QED
      BY <2>8
  <1>3. S \in T
    <2> HIDE DEF T
    <2> QED
      BY <1>1, <1>2, SubsetInduction
  <1> QED
    BY <1>3

\* The recursive function calculates the sum.
LEMMA CountsSum ==
    ASSUME NEW S, IsFiniteSet(S), NEW F \in [S -> Nat], NEW h, IsSum(S, F, h),
           NEW g, Counts(S, F, g)
    PROVE  g[S] = h[S]
  <1> DEFINE T == {s \in SUBSET S : g[s] = h[s]}
  <1>1. {} \in T
    BY DEF IsSum, Counts
  <1>2. ASSUME NEW s \in SUBSET S, s # {}, \A x \in s : s \ {x} \in T
        PROVE  s \in T
    <2> DEFINE x == CHOOSE y \in s : TRUE
    <2>1. x \in s
      BY <1>2
    <2>2. g[s] = F[x] + g[s \ {x}]
      BY <1>2 DEF Counts
    <2>3. h[s] = F[x] + h[s \ {x}]
      BY <2>1 DEF IsSum
    <2> QED
      BY <1>2, <2>1, <2>2, <2>3
  <1>3. S \in T
    <2> HIDE DEF T
    <2> QED
      BY <1>1, <1>2, SubsetInduction
  <1> QED
    BY <1>3

\* A sum satisfies the recursion.
LEMMA SumCounts ==
    ASSUME NEW S, NEW F, NEW h, IsSum(S, F, h)
    PROVE  Counts(S, F, h)
  <1>1. \A s \in SUBSET S : h[s] = IF s = {} THEN 0
                      ELSE F[CHOOSE x \in s : TRUE] + h[s \ {CHOOSE x \in s : TRUE}]
    BY DEF IsSum
  <1>2. h = [s \in SUBSET S |-> h[s]]
    BY DEF IsSum
  <1> QED
    BY <1>1, <1>2 DEF Counts

\* The total is the sum.
LEMMA TotalIs ==
    ASSUME NEW S, IsFiniteSet(S), NEW F \in [S -> Nat], NEW h, IsSum(S, F, h)
    PROVE  Total(F) = h[S]
  <1> DEFINE g == CHOOSE f : Counts(S, F, f)
  <1>1. Counts(S, F, g)
    BY SumCounts
  <1>2. Total(F) = g[S]
    BY DEF Total
  <1> HIDE DEF g
  <1> QED
    BY <1>1, <1>2, CountsSum

\* Totals are numbers, and grow with what is counted.
LEMMA TotalGrows ==
    ASSUME NEW S, IsFiniteSet(S), NEW F \in [S -> Nat]
    PROVE  /\ Total(F) \in Nat
           /\ \A G \in [S -> Nat] : (\A x \in S : F[x] <= G[x]) => Total(F) <= Total(G)
  <1>1. PICK h : IsSum(S, F, h)
    BY SumExists
  <1>2. Total(F) = h[S] /\ h[S] \in Nat
    BY <1>1, TotalIs DEF IsSum
  <1>3. ASSUME NEW G \in [S -> Nat], \A x \in S : F[x] <= G[x]
        PROVE  Total(F) <= Total(G)
    <2>1. PICK k : IsSum(S, G, k)
      BY SumExists
    <2> DEFINE T == {s \in SUBSET S : h[s] <= k[s]}
    <2>2. {} \in T
      BY <1>1, <2>1 DEF IsSum
    <2>3. ASSUME NEW s \in SUBSET S, s # {}, \A x \in s : s \ {x} \in T
          PROVE  s \in T
      <3>1. PICK x \in s : TRUE
        BY <2>3
      <3>2. h[s] = F[x] + h[s \ {x}] /\ k[s] = G[x] + k[s \ {x}]
        BY <1>1, <2>1, <3>1 DEF IsSum
      <3>3. h[s \ {x}] <= k[s \ {x}] /\ h[s \ {x}] \in Nat /\ k[s \ {x}] \in Nat
        BY <1>1, <2>1, <2>3, <3>1 DEF IsSum
      <3>4. F[x] <= G[x] /\ F[x] \in Nat /\ G[x] \in Nat
        BY <1>3, <3>1
      <3> QED
        BY <3>2, <3>3, <3>4
    <2>4. S \in T
      <3> HIDE DEF T
      <3> QED
        BY <2>2, <2>3, SubsetInduction
    <2>5. Total(G) = k[S]
      BY <2>1, TotalIs
    <2> QED
      BY <1>2, <2>4, <2>5
  <1> QED
    BY <1>2, <1>3

\* The same values of the elements of another set, apart from zeros.
LEMMA TotalTransfer ==
    ASSUME NEW C, IsFiniteSet(C), NEW F \in [C -> Nat],
           NEW S, NEW G \in [S -> Nat], NEW m \in [S -> C],
           \A x, y \in S : m[x] = m[y] => x = y,
           \A x \in S : G[x] = F[m[x]],
           \A c \in C : F[c] = 0 \/ \E x \in S : c = m[x]
    PROVE  IsFiniteSet(S) /\ Total(G) = Total(F)
  <1>1. IsFiniteSet(S)
    BY FS_Injection DEF Injection, IsInjective
  <1>2. PICK h : IsSum(C, F, h)
    BY SumExists
  <1> DEFINE img(s) == {m[x] : x \in s}
             k == [s \in SUBSET S |-> h[img(s)]]
  <1>3. IsSum(S, G, k)
    <2>1. \A s \in SUBSET S : img(s) \in SUBSET C /\ k[s] = h[img(s)]
      OBVIOUS
    <2>2. k \in [SUBSET S -> Nat]
      BY <1>2, <2>1 DEF IsSum
    <2>3. k[{}] = 0
      <3>1. img({}) = {}
        OBVIOUS
      <3> QED
        BY <1>2, <2>1, <3>1 DEF IsSum
    <2>4. ASSUME NEW s \in SUBSET S, NEW x \in s
          PROVE  k[s] = G[x] + k[s \ {x}]
      <3>1. img(s \ {x}) = img(s) \ {m[x]} /\ m[x] \in img(s)
        OBVIOUS
      <3> HIDE DEF img, k
      <3>2. h[img(s)] = F[m[x]] + h[img(s) \ {m[x]}]
        BY <1>2, <2>1, <3>1 DEF IsSum
      <3> QED
        BY <2>1, <3>1, <3>2
    <2> HIDE DEF k
    <2> QED
      BY <2>2, <2>3, <2>4 DEF IsSum
  <1>4. Total(G) = h[img(S)]
    <2>1. k[S] = h[img(S)]
      OBVIOUS
    <2> HIDE DEF k
    <2> QED
      BY <1>1, <1>3, <2>1, TotalIs
  <1> DEFINE Z == C \ img(S)
             T == {z \in SUBSET Z : h[C \ z] = h[C]}
  <1>5. Z \in T
    <2>1. IsFiniteSet(Z)
      BY FS_Subset
    <2>2. {} \in T
      <3>1. C \ {} = C
        OBVIOUS
      <3> QED
        BY <3>1
    <2>3. ASSUME NEW z \in SUBSET Z, z # {}, \A x \in z : z \ {x} \in T
          PROVE  z \in T
      <3>1. PICK x \in z : TRUE
        BY <2>3
      <3>2. /\ h[C \ (z \ {x})] = h[C] /\ (C \ (z \ {x})) \ {x} = C \ z
            /\ x \in C \ (z \ {x}) /\ F[x] = 0
        BY <2>3, <3>1
      <3>3. h[C \ (z \ {x})] = F[x] + h[C \ z] /\ h[C \ z] \in Nat
        <4>1. PICK v \in SUBSET C : v = C \ (z \ {x})
          OBVIOUS
        <4>2. h[v] = F[x] + h[v \ {x}] /\ v \ {x} = C \ z
          BY <1>2, <3>2, <4>1 DEF IsSum
        <4>3. h[v \ {x}] \in Nat
          BY <1>2 DEF IsSum
        <4> QED
          BY <4>1, <4>2, <4>3
      <3> QED
        BY <3>2, <3>3
    <2> HIDE DEF T, Z
    <2> QED
      BY <2>1, <2>2, <2>3, SubsetInduction
  <1>6. C \ Z = img(S)
    OBVIOUS
  <1>7. Total(F) = h[C]
    BY <1>2, TotalIs
  <1> QED
    BY <1>1, <1>4, <1>5, <1>6, <1>7

\* The total of one value.
LEMMA TotalOfOne ==
    ASSUME NEW c, NEW F \in [{c} -> Nat]
    PROVE  Total(F) = F[c]
  <1>1. IsFiniteSet({c})
    BY FS_Singleton
  <1>2. PICK h : IsSum({c}, F, h)
    BY <1>1, SumExists
  <1>3. h[{c}] = F[c] + h[{c} \ {c}] /\ {c} \ {c} = {} /\ h[{}] = 0
    BY <1>2 DEF IsSum
  <1>4. Total(F) = h[{c}]
    BY <1>1, <1>2, TotalIs
  <1>5. F[c] \in Nat
    OBVIOUS
  <1> QED
    BY <1>3, <1>4, <1>5

-----------------------------------------------------------------------------
(* Lemmas about the rules of admission *)

\* What the recursive function returns is the total.
LEMMA CountsTotal ==
    ASSUME NEW S, IsFiniteSet(S), NEW F \in [S -> Nat]
    PROVE  /\ \E h : Counts(S, F, h)
           /\ \A g : Counts(S, F, g) => g[S] = Total(F)
  BY SumExists, SumCounts, CountsSum, TotalIs

\* The sum of the points of assessments.
LEMMA SumOfPoints ==
    ASSUME NEW S, IsFiniteSet(S), [x \in S |-> x.points] \in [S -> Nat]
    PROVE  SumOf(S, LAMBDA x : x.points) = Total([x \in S |-> x.points])
  <1> DEFINE F == [x \in S |-> x.points]
             P(g) == g = [s \in SUBSET S |-> IF s = {} THEN 0
                       ELSE (CHOOSE x \in s : TRUE).points + g[s \ {CHOOSE x \in s : TRUE}]]
             g == CHOOSE f : P(f)
  <1>1. SumOf(S, LAMBDA x : x.points) = g[S]
    BY DEF SumOf, MapThenSumSet, MapThenFoldSet
  <1>2. ASSUME NEW f
        PROVE  P(f) <=> Counts(S, F, f)
    <2>1. \A s \in SUBSET S : s # {} => (CHOOSE x \in s : TRUE) \in S
      OBVIOUS
    <2>2. \A s \in SUBSET S : s # {} => F[CHOOSE x \in s : TRUE] = (CHOOSE x \in s : TRUE).points
      BY <2>1
    <2> HIDE DEF F
    <2> DEFINE byValue == [s \in SUBSET S |-> IF s = {} THEN 0
                             ELSE (CHOOSE x \in s : TRUE).points + f[s \ {CHOOSE x \in s : TRUE}]]
               byF == [s \in SUBSET S |-> IF s = {} THEN 0
                         ELSE F[CHOOSE x \in s : TRUE] + f[s \ {CHOOSE x \in s : TRUE}]]
    <2>3. byValue = byF
      BY <2>2
    <2>4. (P(f) <=> f = byValue) /\ (Counts(S, F, f) <=> f = byF)
      BY DEF Counts
    <2> HIDE DEF P, byValue, byF
    <2> QED
      BY <2>3, <2>4
  <1> HIDE DEF P
  <1>3. P(g)
    BY CountsTotal, <1>2
  <1> HIDE DEF F, g
  <1>4. g[S] = Total(F)
    BY CountsTotal, <1>2, <1>3 DEF F
  <1> QED
    BY <1>1, <1>4 DEF F

\* The sum of the points of assignments.
LEMMA SumOfAvailable ==
    ASSUME NEW S, IsFiniteSet(S), [a \in S |-> AssignmentPoints[a]] \in [S -> Nat]
    PROVE  SumOf(S, LAMBDA a : AssignmentPoints[a]) = Total([a \in S |-> AssignmentPoints[a]])
  <1> DEFINE F == [a \in S |-> AssignmentPoints[a]]
             P(g) == g = [s \in SUBSET S |-> IF s = {} THEN 0
                       ELSE AssignmentPoints[CHOOSE a \in s : TRUE] + g[s \ {CHOOSE a \in s : TRUE}]]
             g == CHOOSE f : P(f)
  <1>1. SumOf(S, LAMBDA a : AssignmentPoints[a]) = g[S]
    BY DEF SumOf, MapThenSumSet, MapThenFoldSet
  <1>2. ASSUME NEW f
        PROVE  P(f) <=> Counts(S, F, f)
    <2>1. \A s \in SUBSET S : s # {} => (CHOOSE a \in s : TRUE) \in S
      OBVIOUS
    <2>2. \A s \in SUBSET S : s # {} => F[CHOOSE a \in s : TRUE] = AssignmentPoints[CHOOSE a \in s : TRUE]
      BY <2>1
    <2> HIDE DEF F
    <2> DEFINE byValue == [s \in SUBSET S |-> IF s = {} THEN 0
                             ELSE AssignmentPoints[CHOOSE a \in s : TRUE] + f[s \ {CHOOSE a \in s : TRUE}]]
               byF == [s \in SUBSET S |-> IF s = {} THEN 0
                         ELSE F[CHOOSE a \in s : TRUE] + f[s \ {CHOOSE a \in s : TRUE}]]
    <2>3. byValue = byF
      BY <2>2
    <2>4. (P(f) <=> f = byValue) /\ (Counts(S, F, f) <=> f = byF)
      BY DEF Counts
    <2> HIDE DEF P, byValue, byF
    <2> QED
      BY <2>3, <2>4
  <1> HIDE DEF P
  <1>3. P(g)
    BY CountsTotal, <1>2
  <1> HIDE DEF F, g
  <1>4. g[S] = Total(F)
    BY CountsTotal, <1>2, <1>3 DEF F
  <1> QED
    BY <1>1, <1>4 DEF F

\* The sum of what the overview shows of a student.
LEMMA SumOfShown ==
    ASSUME NEW S, IsFiniteSet(S), NEW u, [a \in S |-> Shown(u, a)] \in [S -> Nat]
    PROVE  SumOf(S, LAMBDA a : Shown(u, a)) = Total([a \in S |-> Shown(u, a)])
  <1> DEFINE F == [a \in S |-> Shown(u, a)]
             P(g) == g = [s \in SUBSET S |-> IF s = {} THEN 0
                       ELSE Shown(u, CHOOSE a \in s : TRUE) + g[s \ {CHOOSE a \in s : TRUE}]]
             g == CHOOSE f : P(f)
  <1>1. SumOf(S, LAMBDA a : Shown(u, a)) = g[S]
    BY DEF SumOf, MapThenSumSet, MapThenFoldSet
  <1>2. ASSUME NEW f
        PROVE  P(f) <=> Counts(S, F, f)
    <2>1. \A s \in SUBSET S : s # {} => (CHOOSE a \in s : TRUE) \in S
      OBVIOUS
    <2>2. \A s \in SUBSET S : s # {} => F[CHOOSE a \in s : TRUE] = Shown(u, CHOOSE a \in s : TRUE)
      BY <2>1
    <2> HIDE DEF F
    <2> DEFINE byValue == [s \in SUBSET S |-> IF s = {} THEN 0
                             ELSE Shown(u, CHOOSE a \in s : TRUE) + f[s \ {CHOOSE a \in s : TRUE}]]
               byF == [s \in SUBSET S |-> IF s = {} THEN 0
                         ELSE F[CHOOSE a \in s : TRUE] + f[s \ {CHOOSE a \in s : TRUE}]]
    <2>3. byValue = byF
      BY <2>2
    <2>4. (P(f) <=> f = byValue) /\ (Counts(S, F, f) <=> f = byF)
      BY DEF Counts
    <2> HIDE DEF P, byValue, byF
    <2> QED
      BY <2>3, <2>4
  <1> HIDE DEF P
  <1>3. P(g)
    BY CountsTotal, <1>2
  <1> HIDE DEF F, g
  <1>4. g[S] = Total(F)
    BY CountsTotal, <1>2, <1>3 DEF F
  <1> QED
    BY <1>1, <1>4 DEF F

\* A user's assessments: one for each assignment.
LEMMA AssessmentsOfUser ==
    ASSUME TypeOK, AssessedOnce, NEW u
    PROVE  /\ \A x \in AssessmentsOf(u) : x \in Assessment /\ x.points \in Nat
           /\ \A x, y \in AssessmentsOf(u) : x.assignment = y.assignment => x = y
  <1>1. ASSUME NEW x \in AssessmentsOf(u)
        PROVE  \E q \in relations : /\ q.user = u /\ x = Row(q.assessment)
                                    /\ x \in assessments /\ x.assignment = q.assignment
    <2>1. PICK q \in relations : q.user = u /\ x = Row(q.assessment)
      BY <1>1 DEF AssessmentsOf
    <2>2. Exists(q.assessment) /\ Row(q.assessment).assignment = q.assignment
      BY <2>1 DEF AssessedOnce
    <2>3. Row(q.assessment) \in assessments
      BY <2>2 DEF Exists, Row
    <2> QED
      BY <2>1, <2>2, <2>3
  <1>2. \A x \in assessments : x \in Assessment /\ x.points \in Nat
    BY AdmissionAssumption DEF TypeOK, Assessment
  <1>3. \A p, q \in relations : p.assignment = q.assignment /\ p.user = q.user => p = q
    BY DEF AssessedOnce
  <1> QED
    BY <1>1, <1>2, <1>3

\* The overview has a column for each evaluated assignment of the course; it shows
\* the points of the student's assessment, or none.
LEMMA ShownIs ==
    ASSUME TypeOK, AssessedOnce, NEW u, NEW a \in CourseAssignments, phase[a] = "evaluated"
    PROVE  /\ \A x \in AssessmentsOf(u) : x.assignment = a => Shown(u, a) = x.points
           /\ (\A x \in AssessmentsOf(u) : x.assignment # a) => Shown(u, a) = 0
           /\ Shown(u, a) \in Nat
  <1> DEFINE cell == {x.points : x \in {y \in AssessmentsOf(u) : y.assignment = a}}
  <1>1. Overview(u)[a] = cell
    BY DEF Overview
  <1>2. Shown(u, a) = IF cell = {} THEN 0 ELSE CHOOSE p \in cell : TRUE
    BY <1>1 DEF Shown
  <1>3. ASSUME NEW x \in AssessmentsOf(u), x.assignment = a
        PROVE  cell = {x.points}
    BY <1>3, AssessmentsOfUser
  <1>4. (\A x \in AssessmentsOf(u) : x.assignment # a) => cell = {}
    OBVIOUS
  <1> HIDE DEF cell
  <1>5. \A x \in AssessmentsOf(u) : x.assignment = a => Shown(u, a) = x.points
    BY <1>2, <1>3
  <1>6. (\A x \in AssessmentsOf(u) : x.assignment # a) => Shown(u, a) = 0
    BY <1>2, <1>4
  <1> QED
    BY <1>5, <1>6, AssessmentsOfUser

\* What a student achieved in some columns is what they show.
LEMMA SumShown ==
    ASSUME TypeOK, AssessedOnce, NEW u,
           NEW C, C \subseteq {b \in CourseAssignments : phase[b] = "evaluated"}
    PROVE  /\ IsFiniteSet(C) /\ [a \in C |-> Shown(u, a)] \in [C -> Nat]
           /\ SumOf({x \in AssessmentsOf(u) : x.assignment \in C}, LAMBDA x : x.points)
                = Total([a \in C |-> Shown(u, a)])
  <1> DEFINE S == {x \in AssessmentsOf(u) : x.assignment \in C}
             F == [a \in C |-> Shown(u, a)]
             G == [x \in S |-> x.points]
             m == [x \in S |-> x.assignment]
  <1>1. IsFiniteSet(C)
    BY AdmissionAssumption, FS_Subset
  <1>2. F \in [C -> Nat]
    BY ShownIs
  <1>3. G \in [S -> Nat] /\ m \in [S -> C]
    BY AssessmentsOfUser
  <1>4. \A x, y \in S : m[x] = m[y] => x = y
    BY AssessmentsOfUser
  <1>5. \A x \in S : G[x] = F[m[x]]
    BY ShownIs
  <1>6. \A c \in C : F[c] = 0 \/ \E x \in S : c = m[x]
    <2> SUFFICES ASSUME NEW c \in C, \A x \in S : c # m[x]
                 PROVE  F[c] = 0
      OBVIOUS
    <2>1. \A x \in AssessmentsOf(u) : x.assignment # c
      OBVIOUS
    <2>2. Shown(u, c) = 0
      BY <2>1, ShownIs
    <2> QED
      BY <2>2
  <1>7. IsFiniteSet(S) /\ Total(G) = Total(F)
    <2> HIDE DEF S, F, G, m
    <2> QED
      BY <1>1, <1>2, <1>3, <1>4, <1>5, <1>6, TotalTransfer
  <1>8. SumOf(S, LAMBDA x : x.points) = Total(G)
    <2> HIDE DEF S
    <2> QED
      BY <1>3, <1>7, SumOfPoints
  <1> QED
    BY <1>1, <1>2, <1>7, <1>8

\* A quotient that is cut off, and its rest.
LEMMA Quotients ==
    ASSUME NEW d \in Nat \ {0}
    PROVE  \A n \in Int : /\ n \div d \in Int
                          /\ \A z \in Int : n \div d >= z <=> n >= z * d
                          /\ n % d = 0 <=> n = (n \div d) * d
  OBVIOUS

\* Math.floor reaches an integer if the number does.
LEMMA FloorReaches ==
    ASSUME NEW n \in Int, NEW d \in Nat \ {0}, NEW e \in {-1, 0, 1}, NEW z \in Int
    PROVE  /\ Floor(<<n, d, e>>) \in Int
           /\ Floor(<<n, d, e>>) >= z <=> n > z * d \/ (n = z * d /\ e # -1)
  <1> DEFINE k == n \div d
  <1>1. k \in Int /\ z * d \in Int /\ (n % d = 0 <=> n = k * d)
    BY Quotients
  <1>2. (k >= z <=> n >= z * d) /\ (k >= z + 1 <=> n >= (z + 1) * d)
    <2>1. z + 1 \in Int
      OBVIOUS
    <2> QED
      BY <2>1, Quotients
  <1>3. Floor(<<n, d, e>>) = IF n % d = 0 /\ e = -1 THEN k - 1 ELSE k
    BY DEF Floor
  <1> HIDE DEF k
  <1>4. CASE n = k * d /\ e = -1
    <2>1. Floor(<<n, d, e>>) = k - 1
      BY <1>1, <1>3, <1>4
    <2>2. k - 1 >= z <=> n >= (z + 1) * d
      BY <1>1, <1>2
    <2>3. k >= z + 1 <=> k > z
      BY <1>1
    <2>4. k > z <=> n > z * d
      <3>1. ASSUME k > z
            PROVE  n > z * d
        <4>1. (z + 1) * d = z * d + d /\ n >= (z + 1) * d
          BY <1>1, <1>2, <2>3, <3>1
        <4> QED
          BY <1>1, <4>1
      <3>2. ASSUME n > z * d
            PROVE  k > z
        <4>1. k # z
          BY <1>1, <1>4, <3>2
        <4>2. k >= z
          BY <1>1, <1>2, <3>2
        <4> QED
          BY <1>1, <4>1, <4>2
      <3> QED
        BY <3>1, <3>2
    <2> QED
      BY <1>1, <1>4, <2>1, <2>4
  <1>5. CASE ~(n = k * d /\ e = -1)
    <2>1. Floor(<<n, d, e>>) = k
      BY <1>1, <1>3, <1>5
    <2>2. n = z * d => k = z
      <3>1. ASSUME n = z * d
            PROVE  k = z
        <4>1. (z + 1) * d = z * d + d
          OBVIOUS
        <4>2. k >= z /\ ~(k >= z + 1)
          BY <1>1, <1>2, <3>1, <4>1
        <4> QED
          BY <1>1, <4>2
      <3> QED
        BY <3>1
    <2>3. n = z * d => e # -1
      BY <1>5, <2>2
    <2> QED
      BY <1>1, <1>2, <2>1, <2>3
  <1> QED
    BY <1>4, <1>5

\* Math.ceil reaches an integer if the number is above the one before it.
LEMMA CeilReaches ==
    ASSUME NEW n \in Int, NEW d \in Nat \ {0}, NEW e \in {-1, 0, 1}, NEW z \in Int
    PROVE  /\ Ceil(<<n, d, e>>) \in Int
           /\ Ceil(<<n, d, e>>) >= z <=> n > (z - 1) * d \/ (n = (z - 1) * d /\ e = 1)
  <1> DEFINE k == n \div d
             w == z - 1
  <1>1. /\ k \in Int /\ w \in Int /\ w * d \in Int /\ (n % d = 0 <=> n = k * d)
        /\ (w + 1) * d = w * d + d /\ z = w + 1
    BY Quotients
  <1>2. (k >= w <=> n >= w * d) /\ (k >= w + 1 <=> n >= (w + 1) * d)
    <2>1. w \in Int /\ w + 1 \in Int
      OBVIOUS
    <2> HIDE DEF w
    <2> QED
      BY <2>1, Quotients
  <1>3. Ceil(<<n, d, e>>) = IF n % d = 0 /\ e # 1 THEN k ELSE k + 1
    BY DEF Ceil
  <1> HIDE DEF k, w
  <1>4. n = w * d => k = w
    BY <1>1, <1>2
  <1>5. CASE n = k * d /\ e # 1
    <2>1. Ceil(<<n, d, e>>) = k
      BY <1>1, <1>3, <1>5
    <2>2. k >= w + 1 <=> n > w * d
      <3>1. ASSUME n > w * d
            PROVE  k >= w + 1
        <4>1. k # w /\ k >= w
          BY <1>1, <1>2, <1>5, <3>1
        <4> QED
          BY <1>1, <4>1
      <3> QED
        BY <1>1, <1>2, <3>1
    <2> QED
      BY <1>1, <1>5, <2>1, <2>2 DEF w
  <1>6. CASE ~(n = k * d /\ e # 1)
    <2>1. Ceil(<<n, d, e>>) = k + 1
      BY <1>1, <1>3, <1>6
    <2>2. k + 1 >= w + 1 <=> n >= w * d
      BY <1>1, <1>2
    <2>3. n = w * d => e = 1
      BY <1>4, <1>6
    <2> QED
      BY <1>1, <2>1, <2>2, <2>3 DEF w
  <1> QED
    BY <1>5, <1>6

\* How the calculation errs, for the scale at which a rule rounds.
Error(rule, achieved, points) ==
    Scaled(achieved, points, IF rule.rounding.type = "DECIMALS" THEN rule.rounding.scale ELSE 1)[3]

\* Whether that lets a student pass at the limit.
ErrorHelps(rule, achieved, points) ==
    IF rule.rounding.type = "UP" THEN Error(rule, achieved, points) = 1
                                 ELSE Error(rule, achieved, points) # -1

\* What the rules compare.
Decides(rule, achieved, points) ==
    Reaches(Rounded(rule.rounding, achieved, points), rule.required)

\* Slacks are fractions; no error without a rest.
LEMMA SurplusIs ==
    ASSUME NEW rule \in Rules, NEW achieved \in Nat, NEW points \in Nat \ {0}
    PROVE  /\ rule.required \in Nat /\ rule.rounding \in Rounding
           /\ Slack(rule.rounding)[1] \in Nat /\ Slack(rule.rounding)[2] \in Nat \ {0}
           /\ Surplus(rule, achieved, points) \in Int
           /\ Error(rule, achieved, points) \in {-1, 0, 1}
           /\ achieved % points = 0 => Error(rule, achieved, points) = 0
  <1> DEFINE s == Slack(rule.rounding)
             scale == IF rule.rounding.type = "DECIMALS" THEN rule.rounding.scale ELSE 1
             x == <<achieved, points, scale>>
  <1>1. rule.required \in Nat /\ rule.rounding \in Rounding /\ rule.rounding.scale \in Nat \ {0}
    BY AdmissionAssumption DEF Rule, Rounding
  <1>2. s[1] \in Nat /\ s[2] \in Nat \ {0}
    <2>1. s = <<1, 1>> \/ s = <<1, 2 * rule.rounding.scale>> \/ s = <<0, 1>>
      BY DEF Slack
    <2> HIDE DEF s
    <2> QED
      BY <1>1, <2>1
  <1>3. Surplus(rule, achieved, points) \in Int
    <2>1. Surplus(rule, achieved, points)
            = 100 * achieved * s[2] - points * (rule.required * s[2] - s[1])
      BY DEF Surplus
    <2> HIDE DEF s
    <2> QED
      BY <1>1, <1>2, <2>1
  <1>4. Error(rule, achieved, points) = IF x \in TooLarge THEN 1 ELSE IF x \in TooSmall THEN -1 ELSE 0
    BY DEF Error, Scaled
  <1>5. x[1] = achieved /\ x[2] = points
    OBVIOUS
  <1> HIDE DEF x
  <1>6. x \in TooLarge \cup TooSmall => achieved % points # 0
    BY <1>5, AdmissionAssumption
  <1> QED
    BY <1>1, <1>2, <1>3, <1>4, <1>6

\* A percentage that is rounded reaches what is required if the exact one, with what
\* the rounding may add, is above it, or equal and the error helps.
LEMMA RoundedReaches ==
    ASSUME NEW rule \in Rules, NEW achieved \in Nat, NEW points \in Nat \ {0}
    PROVE  Decides(rule, achieved, points)
             <=> \/ Surplus(rule, achieved, points) > 0
                 \/ Surplus(rule, achieved, points) = 0 /\ ErrorHelps(rule, achieved, points)
  <1> DEFINE n == 100 * achieved
             r == rule.required
             d == rule.rounding
             e == Error(rule, achieved, points)
             surplus == Surplus(rule, achieved, points)
  <1>1. /\ r \in Nat /\ d.type \in {"NONE", "DOWN", "UP", "DECIMALS"} /\ d.scale \in Nat \ {0}
        /\ e \in {-1, 0, 1} /\ n \in Int /\ r \in Int
    BY SurplusIs DEF Rounding
  <1>2. \A f \in Int : \A k \in Int : Reaches(<<k, f, 0>>, r) <=> k >= r * f
    BY <1>1 DEF Reaches
  <1>3. CASE d.type \in {"NONE", "DOWN"}
    <2>1. Scaled(achieved, points, 1) = <<n, points, e>>
      <3>1. n * 1 = n
        OBVIOUS
      <3> QED
        BY <1>3, <3>1 DEF Scaled, Error
    <2>2. surplus = n - r * points
      <3>1. Slack(d) = <<0, 1>>
        BY <1>3 DEF Slack
      <3>2. surplus = n * 1 - points * (r * 1 - 0)
        BY <3>1 DEF Surplus
      <3> HIDE DEF n, r, surplus
      <3> QED
        BY <1>1, <3>2
    <2>3. Decides(rule, achieved, points) <=> n > r * points \/ (n = r * points /\ e # -1)
      <3>1. CASE d.type = "NONE"
        <4>1. Rounded(d, achieved, points) = <<n, points, e>>
          BY <2>1, <3>1 DEF Rounded
        <4> QED
          BY <4>1 DEF Decides, Reaches
      <3>2. CASE d.type = "DOWN"
        <4>1. Rounded(d, achieved, points) = <<Floor(<<n, points, e>>), 1, 0>>
          BY <2>1, <3>2 DEF Rounded
        <4>2. Decides(rule, achieved, points) <=> Reaches(<<Floor(<<n, points, e>>), 1, 0>>, r)
          BY <4>1 DEF Decides
        <4> HIDE DEF n, r, e
        <4>3. /\ Floor(<<n, points, e>>) \in Int
              /\ Floor(<<n, points, e>>) >= r <=> n > r * points \/ (n = r * points /\ e # -1)
          BY <1>1, FloorReaches
        <4>4. r * 1 = r /\ 1 \in Int
          BY <1>1
        <4> QED
          BY <1>2, <4>2, <4>3, <4>4
      <3> QED
        BY <1>3, <3>1, <3>2
    <2>4. ErrorHelps(rule, achieved, points) <=> e # -1
      BY <1>3 DEF ErrorHelps
    <2> HIDE DEF n, r, e, surplus
    <2>5. r * points \in Int
      BY <1>1
    <2>6. (surplus > 0 <=> n > r * points) /\ (surplus = 0 <=> n = r * points)
      BY <1>1, <2>2, <2>5
    <2> QED
      BY <2>3, <2>4, <2>6 DEF surplus
  <1>4. CASE d.type = "UP"
    <2>1. Rounded(d, achieved, points) = <<Ceil(<<n, points, e>>), 1, 0>>
      <3>1. n * 1 = n
        OBVIOUS
      <3>2. Scaled(achieved, points, 1) = <<n, points, e>>
        BY <1>4, <3>1 DEF Scaled, Error
      <3> QED
        BY <1>4, <3>2 DEF Rounded
    <2>2. surplus = n - (r - 1) * points
      <3>1. Slack(d) = <<1, 1>>
        BY <1>4 DEF Slack
      <3>2. surplus = n * 1 - points * (r * 1 - 1)
        BY <3>1 DEF Surplus
      <3> HIDE DEF n, r, surplus
      <3> QED
        BY <1>1, <3>2
    <2>3. Decides(rule, achieved, points) <=> Reaches(<<Ceil(<<n, points, e>>), 1, 0>>, r)
      BY <2>1 DEF Decides
    <2>4. ErrorHelps(rule, achieved, points) <=> e = 1
      BY <1>4 DEF ErrorHelps
    <2> HIDE DEF n, r, e, surplus
    <2>5. /\ Ceil(<<n, points, e>>) \in Int
          /\ Ceil(<<n, points, e>>) >= r <=> n > (r - 1) * points \/ (n = (r - 1) * points /\ e = 1)
      <3>1. n \in Int /\ e \in {-1, 0, 1} /\ r \in Int
        BY <1>1
      <3> QED
        BY ONLY <3>1, CeilReaches, points \in Nat \ {0}
    <2>6. r * 1 = r /\ 1 \in Int /\ (r - 1) * points \in Int
      BY <1>1
    <2>7. (surplus > 0 <=> n > (r - 1) * points) /\ (surplus = 0 <=> n = (r - 1) * points)
      BY <1>1, <2>2, <2>6
    <2> QED
      BY <1>2, <2>3, <2>4, <2>5, <2>6, <2>7 DEF surplus
  <1>5. CASE d.type = "DECIMALS"
    <2> DEFINE c == d.scale
               m == 2 * (n * c) + points
    <2>1. Rounded(d, achieved, points) = <<Floor(<<m, 2 * points, e>>), c, 0>>
      <3>1. Scaled(achieved, points, c) = <<n * c, points, e>>
        BY <1>5 DEF Scaled, Error
      <3> HIDE DEF n, e
      <3>2. Round(<<n * c, points, e>>) = Floor(<<m, 2 * points, e>>)
        BY DEF Round
      <3> QED
        BY <1>5, <3>1, <3>2 DEF Rounded
    <2>2. surplus = m - (r * c) * (2 * points)
      <3>1. Slack(d) = <<1, 2 * c>>
        BY <1>5 DEF Slack
      <3>2. surplus = n * (2 * c) - points * (r * (2 * c) - 1)
        BY <3>1 DEF Surplus
      <3>3. n * (2 * c) = 2 * (n * c) /\ n * c \in Int
        BY <1>1
      <3>4. points * (r * (2 * c) - 1) = (r * c) * (2 * points) - points
        BY <1>1
      <3>5. (r * c) * (2 * points) \in Int
        BY <1>1
      <3> HIDE DEF n, r, c, surplus
      <3> QED
        BY <3>2, <3>3, <3>4, <3>5
    <2>3. Decides(rule, achieved, points) <=> Reaches(<<Floor(<<m, 2 * points, e>>), c, 0>>, r)
      BY <2>1 DEF Decides
    <2>4. ErrorHelps(rule, achieved, points) <=> e # -1
      BY <1>5 DEF ErrorHelps
    <2>5. m \in Int /\ 2 * points \in Nat \ {0} /\ r * c \in Int /\ c \in Int
      BY <1>1
    <2> HIDE DEF r, e, c, m, surplus
    <2>6. /\ Floor(<<m, 2 * points, e>>) \in Int
          /\ Floor(<<m, 2 * points, e>>) >= r * c
               <=> m > (r * c) * (2 * points) \/ (m = (r * c) * (2 * points) /\ e # -1)
      BY <1>1, <2>5, FloorReaches
    <2>7. (r * c) * (2 * points) \in Int
      BY <2>5
    <2>8. /\ surplus > 0 <=> m > (r * c) * (2 * points)
          /\ surplus = 0 <=> m = (r * c) * (2 * points)
      BY <2>2, <2>5, <2>7
    <2> QED
      BY <1>2, <2>3, <2>4, <2>5, <2>6, <2>8 DEF surplus
  <1> QED
    BY <1>1, <1>3, <1>4, <1>5

\* What satisfies a rule.
Sufficient(rule, achieved, points) == points = 0 \/ Decides(rule, achieved, points)

\* Rules are satisfied by what is enough beyond doubt, and by nothing that is not.
LEMMA EnoughIsSufficient ==
    ASSUME NEW rule \in Rules, NEW achieved \in Nat, NEW points \in Nat
    PROVE  /\ Enough(TRUE, rule, achieved, points) => Sufficient(rule, achieved, points)
           /\ Sufficient(rule, achieved, points) => Enough(FALSE, rule, achieved, points)
  <1>1. CASE points = 0
    BY <1>1 DEF Enough, Sufficient
  <1>2. CASE points # 0
    <2> DEFINE surplus == Surplus(rule, achieved, points)
               e == Error(rule, achieved, points)
    <2>1. /\ Decides(rule, achieved, points)
               <=> surplus > 0 \/ (surplus = 0 /\ ErrorHelps(rule, achieved, points))
          /\ surplus \in Int /\ (achieved % points = 0 => e = 0)
      BY <1>2, RoundedReaches, SurplusIs
    <2>2. \A strict \in BOOLEAN : Enough(strict, rule, achieved, points) <=>
             IF surplus = 0 /\ achieved % points # 0 THEN ~strict
             ELSE surplus > 0 \/ (surplus = 0 /\ rule.rounding.type # "UP")
      BY <1>2 DEF Enough, AtTheLimit, Deserved
    <2>3. ErrorHelps(rule, achieved, points)
             <=> IF rule.rounding.type = "UP" THEN e = 1 ELSE e # -1
      BY DEF ErrorHelps
    <2>4. Sufficient(rule, achieved, points) <=> Decides(rule, achieved, points)
      BY <1>2 DEF Sufficient
    <2> HIDE DEF surplus, e
    <2>5. CASE surplus = 0 /\ achieved % points # 0
      BY <2>1, <2>2, <2>4, <2>5
    <2>6. CASE surplus = 0 /\ achieved % points = 0
      <3>1. ErrorHelps(rule, achieved, points) <=> rule.rounding.type # "UP"
        BY <2>1, <2>3, <2>6
      <3> QED
        BY <2>1, <2>2, <2>4, <2>6, <3>1
    <2>7. CASE surplus # 0
      BY <2>1, <2>2, <2>4, <2>7
    <2> QED
      BY <2>5, <2>6, <2>7
  <1> QED
    BY <1>1, <1>2

\* More points are not less sufficient.
LEMMA SufficientGrows ==
    ASSUME NEW rule \in Rules, NEW x \in Nat, NEW y \in Nat, x <= y, NEW points \in Nat,
           Sufficient(rule, x, points)
    PROVE  Sufficient(rule, y, points)
  <1>1. CASE points = 0 \/ x = y
    BY <1>1 DEF Sufficient
  <1>2. CASE points # 0 /\ x < y
    <2> DEFINE s == Slack(rule.rounding)
               right == points * (rule.required * s[2] - s[1])
    <2>1. s[1] \in Nat /\ s[2] \in Nat \ {0} /\ rule.required \in Nat
      BY <1>2, SurplusIs
    <2>2. /\ Surplus(rule, x, points) = 100 * x * s[2] - right
          /\ Surplus(rule, y, points) = 100 * y * s[2] - right
      BY DEF Surplus
    <2>3. right \in Int
      BY <2>1
    <2> HIDE DEF s, right
    <2>4. 100 * x * s[2] < 100 * y * s[2]
      <3>1. 100 * y * s[2] = 100 * x * s[2] + 100 * (y - x) * s[2]
        BY <2>1
      <3>2. 100 * (y - x) * s[2] > 0
        BY <1>2, <2>1
      <3> QED
        BY <2>1, <3>1, <3>2
    <2>5. 100 * x * s[2] \in Int /\ 100 * y * s[2] \in Int
      BY <2>1
    <2>6. Surplus(rule, x, points) >= 0
      <3>1. Surplus(rule, x, points) > 0 \/ Surplus(rule, x, points) = 0
        BY <1>2, RoundedReaches DEF Sufficient
      <3> QED
        BY <2>2, <2>3, <2>5, <3>1
    <2>7. Surplus(rule, y, points) > 0
      BY <2>2, <2>3, <2>4, <2>5, <2>6
    <2> QED
      BY <1>2, <2>7, RoundedReaches DEF Sufficient
  <1> QED
    BY <1>1, <1>2

\* The assignments that a rule is about are columns of the overview.
LEMMA ColumnsAre ==
    ASSUME NEW rule \in Rules, NEW u
    PROVE  /\ {a \in DOMAIN Overview(u) : TypeOf[a] = rule.assignmentType} = Relevant(rule)
           /\ DOMAIN Overview(u) = {b \in CourseAssignments : phase[b] = "evaluated"}
           /\ Relevant(rule) \subseteq {b \in CourseAssignments : phase[b] = "evaluated"}
           /\ IsFiniteSet(Relevant(rule))
           /\ \A a \in Relevant(rule) : AssignmentPoints[a] \in Nat
  <1>1. DOMAIN Overview(u) = {b \in CourseAssignments : phase[b] = "evaluated"}
    BY DEF Overview
  <1>2. Relevant(rule) \subseteq CourseAssignments
    BY DEF Relevant
  <1> QED
    BY <1>1, <1>2, AdmissionAssumption, FS_Subset DEF Relevant

\* What a student achieved, and what was to achieve, as totals.
AchievedTotal(rule, u) == Total([a \in Relevant(rule) |-> Shown(u, a)])
AvailableTotal(rule) == Total([a \in Relevant(rule) |-> AssignmentPoints[a]])

\* The sums of a rule are these totals, and numbers.
LEMMA TotalsAre ==
    ASSUME TypeOK, AssessedOnce, NEW rule \in Rules, NEW u
    PROVE  /\ SumOf(RelevantAssessments(rule, u), LAMBDA x : x.points) = AchievedTotal(rule, u)
           /\ OverallPoints(rule) = AvailableTotal(rule)
           /\ AchievedTotal(rule, u) \in Nat /\ AvailableTotal(rule) \in Nat
  <1> DEFINE C == Relevant(rule)
             A == [a \in C |-> AssignmentPoints[a]]
  <1>1. /\ IsFiniteSet(C) /\ C \subseteq {b \in CourseAssignments : phase[b] = "evaluated"}
        /\ \A a \in C : AssignmentPoints[a] \in Nat
    BY ColumnsAre
  <1>2. RelevantAssessments(rule, u) = {x \in AssessmentsOf(u) : x.assignment \in C}
    BY DEF RelevantAssessments
  <1>3. OverallPoints(rule) = SumOf(C, LAMBDA a : AssignmentPoints[a])
    BY DEF OverallPoints, SumOf, MapThenSumSet, MapThenFoldSet
  <1> HIDE DEF C
  <1>4. A \in [C -> Nat]
    BY <1>1
  <1>5. SumOf(C, LAMBDA a : AssignmentPoints[a]) = Total(A)
    BY <1>1, <1>4, SumOfAvailable
  <1>6. /\ [a \in C |-> Shown(u, a)] \in [C -> Nat]
        /\ SumOf({x \in AssessmentsOf(u) : x.assignment \in C}, LAMBDA x : x.points)
             = Total([a \in C |-> Shown(u, a)])
    BY <1>1, SumShown
  <1>7. Total(A) \in Nat
    <2> HIDE DEF A
    <2> QED
      BY <1>1, <1>4, TotalGrows
  <1>8. Total([a \in C |-> Shown(u, a)]) \in Nat
    <2> DEFINE H == [a \in C |-> Shown(u, a)]
    <2>1. H \in [C -> Nat]
      BY <1>6
    <2> HIDE DEF H
    <2>2. Total(H) \in Nat
      BY <1>1, <2>1, TotalGrows
    <2> QED
      BY <2>2 DEF H
  <1>9. SumOf(RelevantAssessments(rule, u), LAMBDA x : x.points)
          = SumOf({x \in AssessmentsOf(u) : x.assignment \in C}, LAMBDA x : x.points)
    BY <1>2 DEF SumOf, MapThenSumSet, MapThenFoldSet
  <1> QED
    BY <1>3, <1>5, <1>6, <1>7, <1>8, <1>9 DEF AchievedTotal, AvailableTotal, C

\* Enough points in one column.
ColumnSuffices(rule, u, a) == Sufficient(rule, Shown(u, a), AssignmentPoints[a])

\* An assignment is failed if its column does not show enough.
LEMMA FailedIs ==
    ASSUME TypeOK, AssessedOnce, NEW rule \in Rules, NEW u, NEW a \in Relevant(rule)
    PROVE  Failed(rule, u, a) <=> ~ColumnSuffices(rule, u, a)
  <1> DEFINE S == {x \in RelevantAssessments(rule, u) : x.assignment = a}
             D == {x \in AssessmentsOf(u) : x.assignment \in {a}}
             H == [b \in {a} |-> Shown(u, b)]
  <1>1. S = D
    BY DEF RelevantAssessments
  <1>2. /\ {a} \subseteq {b \in CourseAssignments : phase[b] = "evaluated"}
        /\ AssignmentPoints[a] \in Nat
    BY ColumnsAre
  <1>3. H \in [{a} -> Nat] /\ SumOf(D, LAMBDA x : x.points) = Total(H)
    BY <1>2, SumShown
  <1>4. Total(H) = Shown(u, a) /\ Shown(u, a) \in Nat
    <2>1. H[a] = Shown(u, a) /\ H[a] \in Nat
      BY <1>3
    <2> HIDE DEF H
    <2>2. Total(H) = H[a]
      BY <1>3, TotalOfOne
    <2> QED
      BY <2>1, <2>2
  <1>5. SumOf(S, LAMBDA x : x.points) = SumOf(D, LAMBDA x : x.points)
    BY <1>1 DEF SumOf, MapThenSumSet, MapThenFoldSet
  <1> DEFINE sum == SumOf(S, LAMBDA x : x.points)
  <1>6. Failed(rule, u, a) <=>
           /\ AssignmentPoints[a] # 0
           /\ ~Decides(rule, sum, AssignmentPoints[a])
    BY DEF Failed, Decides, SumOf, MapThenSumSet, MapThenFoldSet
  <1> HIDE DEF sum
  <1>7. sum = Shown(u, a)
    BY <1>3, <1>4, <1>5 DEF sum
  <1> QED
    BY <1>6, <1>7 DEF ColumnSuffices, Sufficient

\* A student passes a rule if what the columns show is enough.
Decided(rule, u) ==
    Passes(rule, u) <=>
       IF rule.type = "overall"
       THEN Sufficient(rule, AchievedTotal(rule, u), AvailableTotal(rule))
       ELSE \E F \in SUBSET Relevant(rule) :
               /\ Cardinality(F) <= rule.allowed
               /\ \A a \in Relevant(rule) \ F : ColumnSuffices(rule, u, a)

\* This holds whenever each student has one assessment for an assignment at most.
LEMMA RuleDecides ==
    ASSUME TypeOK, AssessedOnce, NEW rule \in Rules, NEW u
    PROVE  Decided(rule, u)
  <1>1. CASE rule.type = "overall"
    <2> DEFINE sum == SumOf(RelevantAssessments(rule, u), LAMBDA x : x.points)
    <2>1. Passes(rule, u) <=>
             \/ OverallPoints(rule) = 0
             \/ Decides(rule, sum, OverallPoints(rule))
      BY <1>1 DEF Passes, PassesOverall, Decides, SumOf, MapThenSumSet, MapThenFoldSet
    <2>2. sum = AchievedTotal(rule, u)
      BY TotalsAre
    <2> HIDE DEF sum
    <2> QED
      BY <1>1, <2>1, <2>2, TotalsAre DEF Decided, Sufficient
  <1>2. CASE rule.type # "overall"
    <2> DEFINE C == Relevant(rule)
               failed == {a \in C : Failed(rule, u, a)}
    <2>1. Passes(rule, u) <=> Cardinality(failed) <= rule.allowed
      BY <1>2 DEF Passes, PassesIndividual
    <2>2. failed \in SUBSET C /\ \A a \in C : a \in failed <=> ~ColumnSuffices(rule, u, a)
      BY FailedIs
    <2>3. IsFiniteSet(C)
      BY ColumnsAre
    <2>4. rule.allowed \in Nat
      BY AdmissionAssumption DEF Rule
    <2>5. Decided(rule, u) <=>
             (Passes(rule, u) <=>
                \E F \in SUBSET C : /\ Cardinality(F) <= rule.allowed
                                    /\ \A a \in C \ F : ColumnSuffices(rule, u, a))
      BY <1>2 DEF Decided
    <2> HIDE DEF C, failed
    <2>6. ASSUME NEW F \in SUBSET C, Cardinality(F) <= rule.allowed,
                 \A a \in C \ F : ColumnSuffices(rule, u, a)
          PROVE  Cardinality(failed) <= rule.allowed
      <3>1. failed \subseteq F /\ IsFiniteSet(F)
        BY <2>2, <2>3, <2>6, FS_Subset
      <3>2. /\ Cardinality(failed) <= Cardinality(F)
            /\ Cardinality(failed) \in Nat /\ Cardinality(F) \in Nat
        BY <3>1, FS_Subset, FS_CardinalityType
      <3> QED
        BY <2>4, <2>6, <3>2
    <2> QED
      BY <2>1, <2>2, <2>5, <2>6
  <1> QED
    BY <1>1, <1>2

Decisions == \A rule \in Rules, u \in Students : Decided(rule, u)

\* In every state the rules decide on the points that the overview shows
\* (AdmissionStatusService.hasAdmission, getStudentResults).
THEOREM RulesAgreeWithOverview == AssessmentsSpec => []RulesDecideOnTheOverview
  <1>1. ASSUME TypeOK, AssessedOnce, NEW rule \in Rules, NEW u \in Students
        PROVE  /\ ShowsEnough(TRUE, rule, u) => Passes(rule, u)
               /\ Passes(rule, u) => ShowsEnough(FALSE, rule, u)
    <2> DEFINE C == {a \in DOMAIN Overview(u) : TypeOf[a] = rule.assignmentType}
               available == SumOf(C, LAMBDA a : AssignmentPoints[a])
               achieved == SumOf(C, LAMBDA a : Shown(u, a))
    <2>1. C = Relevant(rule) /\ IsFiniteSet(C) /\ \A a \in C : AssignmentPoints[a] \in Nat
      BY <1>1, ColumnsAre
    <2>2. C \subseteq {b \in CourseAssignments : phase[b] = "evaluated"}
      BY <1>1, <2>1, ColumnsAre
    <2>3. available = AvailableTotal(rule) /\ available \in Nat
      <3> HIDE DEF C
      <3>1. [a \in C |-> AssignmentPoints[a]] \in [C -> Nat]
        BY <2>1
      <3>2. available = Total([a \in C |-> AssignmentPoints[a]])
        BY <2>1, <3>1, SumOfAvailable
      <3> QED
        BY <1>1, <2>1, <3>2, TotalsAre DEF AvailableTotal
    <2>4. achieved = AchievedTotal(rule, u) /\ achieved \in Nat
      <3> HIDE DEF C
      <3>1. [a \in C |-> Shown(u, a)] \in [C -> Nat]
        BY <1>1, <2>2, SumShown
      <3>2. achieved = Total([a \in C |-> Shown(u, a)])
        BY <2>1, <3>1, SumOfShown
      <3> QED
        BY <1>1, <2>1, <3>2, TotalsAre DEF AchievedTotal
    <2>5. Decided(rule, u)
      BY <1>1, RuleDecides
    <2>6. \A a \in C : Shown(u, a) \in Nat
      BY <1>1, <2>2, ShownIs
    <2>7. \A strict \in BOOLEAN : ShowsEnough(strict, rule, u) <=>
             IF rule.type = "overall" THEN Enough(strict, rule, achieved, available)
             ELSE \E F \in SUBSET C :
                     /\ Cardinality(F) <= rule.allowed
                     /\ \A a \in C \ F : Enough(strict, rule, Shown(u, a), AssignmentPoints[a])
      BY DEF ShowsEnough, SumOf, MapThenSumSet, MapThenFoldSet
    <2> HIDE DEF C, available, achieved
    <2>8. CASE rule.type = "overall"
      <3>1. Passes(rule, u) <=> Sufficient(rule, achieved, available)
        BY <2>3, <2>4, <2>5, <2>8 DEF Decided
      <3>2. /\ Enough(TRUE, rule, achieved, available) => Sufficient(rule, achieved, available)
            /\ Sufficient(rule, achieved, available) => Enough(FALSE, rule, achieved, available)
        BY <2>3, <2>4, EnoughIsSufficient
      <3> QED
        BY <2>7, <2>8, <3>1, <3>2
    <2>9. CASE rule.type # "overall"
      <3>1. Passes(rule, u) <=>
               \E F \in SUBSET C : /\ Cardinality(F) <= rule.allowed
                                   /\ \A a \in C \ F : ColumnSuffices(rule, u, a)
        BY <2>1, <2>5, <2>9 DEF Decided
      <3>2. \A a \in C :
               /\ Enough(TRUE, rule, Shown(u, a), AssignmentPoints[a]) => ColumnSuffices(rule, u, a)
               /\ ColumnSuffices(rule, u, a) => Enough(FALSE, rule, Shown(u, a), AssignmentPoints[a])
        BY <2>1, <2>6, EnoughIsSufficient DEF ColumnSuffices
      <3>3. ASSUME ShowsEnough(TRUE, rule, u)
            PROVE  Passes(rule, u)
        <4>1. PICK F \in SUBSET C :
                 /\ Cardinality(F) <= rule.allowed
                 /\ \A a \in C \ F : Enough(TRUE, rule, Shown(u, a), AssignmentPoints[a])
          BY <2>7, <2>9, <3>3
        <4>2. \A a \in C \ F : ColumnSuffices(rule, u, a)
          BY <3>2, <4>1
        <4> QED
          BY <3>1, <4>1, <4>2
      <3>4. ASSUME Passes(rule, u)
            PROVE  ShowsEnough(FALSE, rule, u)
        <4>1. PICK F \in SUBSET C : /\ Cardinality(F) <= rule.allowed
                                    /\ \A a \in C \ F : ColumnSuffices(rule, u, a)
          BY <3>1, <3>4
        <4>2. \A a \in C \ F : Enough(FALSE, rule, Shown(u, a), AssignmentPoints[a])
          BY <3>2, <4>1
        <4> QED
          BY <2>7, <2>9, <4>1, <4>2
      <3> QED
        BY <3>3, <3>4
    <2> QED
      BY <2>8, <2>9
  <1>2. TypeOK /\ AssessedOnce => RulesDecideOnTheOverview
    BY <1>1 DEF RulesDecideOnTheOverview
  <1> QED
    BY <1>2, Consistency, PTL DEF IndInv

\* In every state the rules decide as the totals say, and columns show numbers.
ShownNumbers ==
    \A u \in Students, a \in CourseAssignments : phase[a] = "evaluated" => Shown(u, a) \in Nat

LEMMA AlwaysDecided ==
    AssessmentsSpec => [](TypeOK /\ AssessedOnce /\ Decisions /\ ShownNumbers)
  <1>1. TypeOK /\ AssessedOnce => Decisions /\ ShownNumbers
    BY RuleDecides, ShownIs DEF Decisions, ShownNumbers
  <1> QED
    BY <1>1, Consistency, PTL DEF IndInv

\* Points that do not become fewer keep a student on the right side of a rule.
LEMMA RuleGrows ==
    ASSUME TypeOK, AssessedOnce, ShownNumbers', phase' = phase,
           NEW rule \in Rules, NEW u \in Students, Decided(rule, u), Decided(rule, u)',
           \A a \in DOMAIN Overview(u) : Shown(u, a) <= Shown(u, a)',
           Passes(rule, u)
    PROVE  Passes(rule, u)'
  <1> DEFINE C == Relevant(rule)
             F == [a \in C |-> Shown(u, a)]
             G == [a \in C |-> Shown(u, a)']
  <1>1. Relevant(rule)' = C
    BY DEF Relevant
  <1>2. /\ IsFiniteSet(C) /\ C \subseteq {b \in CourseAssignments : phase[b] = "evaluated"}
        /\ C \subseteq DOMAIN Overview(u) /\ \A a \in C : AssignmentPoints[a] \in Nat
    BY ColumnsAre
  <1>3. \A a \in C : /\ Shown(u, a) \in Nat /\ Shown(u, a)' \in Nat
                     /\ Shown(u, a) <= Shown(u, a)'
    <2>1. \A a \in C : Shown(u, a) \in Nat
      BY <1>2, ShownIs
    <2>2. ASSUME NEW a \in C
          PROVE  Shown(u, a)' \in Nat
      <3>1. a \in CourseAssignments /\ phase'[a] = "evaluated"
        BY <1>2
      <3> QED
        BY <3>1 DEF ShownNumbers
    <2> QED
      BY <1>2, <2>1, <2>2
  <1>4. AchievedTotal(rule, u) = Total(F)
    BY DEF AchievedTotal
  <1>5. AchievedTotal(rule, u)' = Total(G)
    BY <1>1 DEF AchievedTotal, Total, Counts
  <1>6. AvailableTotal(rule)' = AvailableTotal(rule)
    BY <1>1 DEF AvailableTotal, Total, Counts
  <1>7. Total(F) <= Total(G) /\ Total(F) \in Nat /\ Total(G) \in Nat
    <2>1. F \in [C -> Nat] /\ G \in [C -> Nat] /\ \A a \in C : F[a] <= G[a]
      BY <1>3
    <2> HIDE DEF F, G, C
    <2> QED
      BY <1>2, <2>1, TotalGrows
  <1>8. AvailableTotal(rule) \in Nat
    BY TotalsAre
  <1>9. \A a \in C : ColumnSuffices(rule, u, a) => ColumnSuffices(rule, u, a)'
    BY <1>2, <1>3, SufficientGrows DEF ColumnSuffices
  <1> HIDE DEF C, F, G
  <1>10. CASE rule.type = "overall"
    <2>1. Sufficient(rule, Total(F), AvailableTotal(rule))
      BY <1>4, <1>10 DEF Decided
    <2>2. Sufficient(rule, Total(G), AvailableTotal(rule))
      BY <1>7, <1>8, <2>1, SufficientGrows
    <2> QED
      BY <1>5, <1>6, <1>10, <2>2 DEF Decided
  <1>11. CASE rule.type # "overall"
    <2>1. PICK f \in SUBSET C : /\ Cardinality(f) <= rule.allowed
                                /\ \A a \in C \ f : ColumnSuffices(rule, u, a)
      BY <1>11 DEF Decided, C
    <2>2. \A a \in C \ f : ColumnSuffices(rule, u, a)'
      BY <1>9, <2>1
    <2> QED
      BY <1>1, <1>11, <2>1, <2>2 DEF Decided
  <1> QED
    BY <1>10, <1>11

\* While assignments stay evaluated nobody stops passing a rule, or loses his
\* admission, because he is given an assessment or more points: the rules and their
\* roundings are monotone, whatever step is taken (AdmissionStatusService,
\* OverallPercentRuleImpl, IndividualPercentWithAllowedFailuresImpl, math.ts).
THEOREM MorePointsHelp == AssessmentsSpec => MorePointsNeverCostAdmission
  <1>1. ASSUME TypeOK, AssessedOnce, Decisions, Decisions', ShownNumbers',
               NEW u \in Students, phase' = phase,
               \A a \in DOMAIN Overview(u) : Shown(u, a) <= Shown(u, a)'
        PROVE  /\ \A rule \in Rules : Passes(rule, u) => Passes(rule, u)'
               /\ HasAdmission(u) => HasAdmission(u)'
    <2>1. ASSUME NEW rule \in Rules, Passes(rule, u)
          PROVE  Passes(rule, u)'
      <3>1. Decided(rule, u) /\ Decided(rule, u)'
        BY <1>1 DEF Decisions
      <3> QED
        BY <1>1, <2>1, <3>1, RuleGrows
    <2> QED
      BY <2>1 DEF HasAdmission, FulfillsAdmissionCriteria
  <1>2. TypeOK /\ AssessedOnce /\ Decisions /\ Decisions' /\ ShownNumbers'
        => [\A u \in Students :
               /\ phase' = phase /\ AssessmentsOf(u)' # AssessmentsOf(u)
               /\ \A a \in DOMAIN Overview(u) : Shown(u, a) <= Shown(u, a)'
               => /\ \A rule \in Rules : Passes(rule, u) => Passes(rule, u)'
                  /\ HasAdmission(u) => HasAdmission(u)']_assessmentVars
    BY <1>1
  <1> QED
    BY <1>2, AlwaysDecided, PTL DEF MorePointsNeverCostAdmission
=============================================================================
