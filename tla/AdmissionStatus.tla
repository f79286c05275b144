---------------------------- MODULE AdmissionStatus ----------------------------
(***************************************************************************)
(* Who is admitted to the exam: the rules of AdmissionStatusService on the *)
(* assessments of module Assessments.  The code calculates percentages     *)
(* with floating point numbers.  They are compared with fractions of small *)
(* numbers, from which they differ by far more than they are inexact,      *)
(* unless they are equal: what matters is the direction in which a         *)
(* calculation errs, and that is a parameter.                              *)
(***************************************************************************)
EXTENDS Assessments

CONSTANTS
    CourseAssignments, \* the assignments of the course, the others are of another one
    TypeOf,            \* the type of each assignment
    AssignmentPoints,  \* points of each assignment, without the bonus
    TooLarge,          \* <<achieved, points, scale>> for which the calculation of
    TooSmall,          \* achieved / points * 100 * scale errs upwards, or downwards
    Rules,             \* admission criteria of the course: a set of rules
    Previous           \* students on the list of the previous semester

\* The scale of a rounding to decimals is 10 to the power of their number.
Rounding == [type : {"NONE", "DOWN", "UP", "DECIMALS"}, scale : Nat \ {0}]
Rule == [type : {"overall", "individual"}, assignmentType : {TypeOf[a] : a \in Assignments},
         required : 0 .. 100, rounding : Rounding, allowed : Nat]

ASSUME AdmissionAssumption ==
    /\ CourseAssignments \subseteq Assignments /\ IsFiniteSet(CourseAssignments)
    /\ AssignmentPoints \in [Assignments -> Nat]
    /\ Rules \subseteq Rule /\ Previous \subseteq Students
    /\ Points \subseteq Nat
    /\ TooLarge \cap TooSmall = {}
    /\ \A x \in TooLarge \cup TooSmall :
          /\ x \in Nat \X (Nat \ {0}) \X (Nat \ {0})
          /\ x[1] % x[2] # 0       \* quotients of whole points are exact

-----------------------------------------------------------------------------
(* math.ts: numbers <<numerator, denominator, error>>, a fraction that is exact *)
(* if the error is 0, a little larger if it is 1, a little smaller if it is -1   *)

SumOf(S, f(_)) == MapThenSumSet(f, S)

\* Percent, times the power of ten that DECIMALS rounds at
Scaled(achieved, points, scale) ==
    <<100 * achieved * scale, points,
      IF <<achieved, points, scale>> \in TooLarge THEN 1
      ELSE IF <<achieved, points, scale>> \in TooSmall THEN -1 ELSE 0>>

Floor(x) == IF x[1] % x[2] = 0 /\ x[3] = -1 THEN x[1] \div x[2] - 1 ELSE x[1] \div x[2]
Ceil(x) == IF x[1] % x[2] = 0 /\ x[3] # 1 THEN x[1] \div x[2] ELSE x[1] \div x[2] + 1
Round(x) == Floor(<<2 * x[1] + x[2], 2 * x[2], x[3]>>)

\* Mutant: UP rounds to the nearest integer.
RoundedToNearest(rounding, achieved, points) ==
    CASE rounding.type = "NONE" -> Scaled(achieved, points, 1)
      [] rounding.type = "DOWN" -> <<Floor(Scaled(achieved, points, 1)), 1, 0>>
      [] rounding.type = "UP" -> <<Round(Scaled(achieved, points, 1)), 1, 0>>
      [] OTHER -> <<Round(Scaled(achieved, points, rounding.scale)), rounding.scale, 0>>

\* RoundingMethod
Rounded(rounding, achieved, points) ==
    CASE rounding.type = "NONE" -> Scaled(achieved, points, 1)
      [] rounding.type = "DOWN" -> <<Floor(Scaled(achieved, points, 1)), 1, 0>>
      [] rounding.type = "UP" -> <<Ceil(Scaled(achieved, points, 1)), 1, 0>>
      [] OTHER -> <<Round(Scaled(achieved, points, rounding.scale)), rounding.scale, 0>>

Reaches(x, percent) ==
    \/ x[1] > percent * x[2]
    \/ x[1] = percent * x[2] /\ x[3] # -1

-----------------------------------------------------------------------------
(* Rules *)

\* filterAssignmentsByType
Relevant(rule) ==
    {a \in CourseAssignments : phase[a] = "evaluated" /\ TypeOf[a] = rule.assignmentType}

AssessmentsOf(u) == {Row(x.assessment) : x \in {y \in relations : y.user = u}}

\* filterAssessmentsByType
RelevantAssessments(rule, u) == {x \in AssessmentsOf(u) : x.assignment \in Relevant(rule)}

OverallPoints(rule) == SumOf(Relevant(rule), LAMBDA a : AssignmentPoints[a])

\* OverallPercentRuleImpl.check
PassesOverall(rule, u) ==
    LET achieved == SumOf(RelevantAssessments(rule, u), LAMBDA x : x.points) IN
    \/ OverallPoints(rule) = 0
    \/ Reaches(Rounded(rule.rounding, achieved, OverallPoints(rule)), rule.required)

\* Mutant: an assignment without an assessment is not counted.
FailedIfAssessed(rule, u, a) ==
    /\ AssignmentPoints[a] # 0
    /\ \E x \in {y \in RelevantAssessments(rule, u) : y.assignment = a} :
          ~Reaches(Rounded(rule.rounding, x.points, AssignmentPoints[a]), rule.required)

\* studentFailedAssignment: without an assessment 0 points were achieved; without
\* points to achieve (0/0 is NaN, x/0 infinite) nobody fails.
Failed(rule, u, a) ==
    LET achieved == SumOf({x \in RelevantAssessments(rule, u) : x.assignment = a}, LAMBDA x : x.points) IN
    /\ AssignmentPoints[a] # 0
    /\ ~Reaches(Rounded(rule.rounding, achieved, AssignmentPoints[a]), rule.required)

\* IndividualPercentWithAllowedFailuresImpl.check
PassesIndividual(rule, u) ==
    Cardinality({a \in Relevant(rule) : Failed(rule, u, a)}) <= rule.allowed

\* AdmissionRuleFactory.create
Passes(rule, u) ==
    IF rule.type = "overall" THEN PassesOverall(rule, u) ELSE PassesIndividual(rule, u)

-----------------------------------------------------------------------------
(* AdmissionStatusService *)

FulfillsAdmissionCriteria(u) == \A rule \in Rules : Passes(rule, u)
HasAdmission(u) == FulfillsAdmissionCriteria(u) \/ u \in Previous

\* getStudentsWithAssessments joins the assignment only if it is of the course, and
\* the filter of a rule reads the type of each assessment's assignment.
StatusIsComputable(u) == Rules # {} /\ \A x \in AssessmentsOf(u) : x.assignment \in CourseAssignments

\* getStudentResults: a column for each evaluated assignment, {} is undefined.
Overview(u) ==
    [a \in {b \in CourseAssignments : phase[b] = "evaluated"} |->
        {x.points : x \in {y \in AssessmentsOf(u) : y.assignment = a}}]

-----------------------------------------------------------------------------
(* Properties *)

\* The percentage that a rounding adds at most to what was achieved, as a fraction;
\* UP adds less than that.
Slack(rounding) ==
    CASE rounding.type = "UP" -> <<1, 1>>
      [] rounding.type = "DECIMALS" -> <<1, 2 * rounding.scale>>
      [] OTHER -> <<0, 1>>

\* How far achieved / points is above required - slack percent, times the denominators.
Surplus(rule, achieved, points) ==
    LET s == Slack(rule.rounding)
    IN  100 * achieved * s[2] - points * (rule.required * s[2] - s[1])

\* Exactly at that limit, floating point numbers decide, unless the quotient is whole.
AtTheLimit(rule, achieved, points) ==
    Surplus(rule, achieved, points) = 0 /\ achieved % points # 0

Deserved(rule, achieved, points) ==
    \/ Surplus(rule, achieved, points) > 0
    \/ Surplus(rule, achieved, points) = 0 /\ rule.rounding.type # "UP"

\* What is enough beyond doubt, or at most what could be.
Enough(strict, rule, achieved, points) ==
    \/ points = 0
    \/ IF AtTheLimit(rule, achieved, points) THEN ~strict ELSE Deserved(rule, achieved, points)

Shown(u, a) == IF Overview(u)[a] = {} THEN 0 ELSE CHOOSE p \in Overview(u)[a] : TRUE

ShowsEnough(strict, rule, u) ==
    LET columns == {a \in DOMAIN Overview(u) : TypeOf[a] = rule.assignmentType}
        available == SumOf(columns, LAMBDA a : AssignmentPoints[a])
        achieved == SumOf(columns, LAMBDA a : Shown(u, a))
    IN  IF rule.type = "overall" THEN Enough(strict, rule, achieved, available)
        ELSE \E F \in SUBSET columns :
                /\ Cardinality(F) <= rule.allowed
                /\ \A a \in columns \ F : Enough(strict, rule, Shown(u, a), AssignmentPoints[a])

\* The rules decide on the points that the overview shows, column by column: a student
\* with enough points passes, and rounding helps him by what its type says and no
\* more.  Only at the very limit either may happen.
RulesDecideOnTheOverview ==
    \A rule \in Rules, u \in Students :
       /\ ShowsEnough(TRUE, rule, u) => Passes(rule, u)
       /\ Passes(rule, u) => ShowsEnough(FALSE, rule, u)

\* While assignments stay evaluated, nobody stops passing a rule, or loses his
\* admission, because he is given an assessment or more points.
MorePointsNeverCostAdmission ==
    [][\A u \in Students :
          /\ phase' = phase /\ AssessmentsOf(u)' # AssessmentsOf(u)
          /\ \A a \in DOMAIN Overview(u) : Shown(u, a) <= Shown(u, a)'
          => /\ \A rule \in Rules : Passes(rule, u) => Passes(rule, u)'
             /\ HasAdmission(u) => HasAdmission(u)']_assessmentVars

\* Said by the route: the status of all participants is returned.
EveryStatusIsComputable == Rules # {} => \A u \in Students : StatusIsComputable(u)
=============================================================================
