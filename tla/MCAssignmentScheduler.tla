----------------------- MODULE MCAssignmentScheduler -----------------------
(***************************************************************************)
(* Two assignments that compete for the two timers, and what lecturers do  *)
(* with them in the runs.                                                  *)
(***************************************************************************)
EXTENDS AssignmentScheduler

\* Assignments to be started, in all orders of their dates, whose end is early,
\* and assignments that were created in progress, whose end is late.
MCNewRows ==
    {[state |-> "INVISIBLE", start |-> s, end |-> e] : s \in Date, e \in {NoDate, 0}}
      \cup {[state |-> "IN_PROGRESS", start |-> NoDate, end |-> MaxTime - 1]}

MCChanges ==
    {[state |-> s] : s \in {"INVISIBLE", "IN_PROGRESS"}}
      \cup {[start |-> 1], [end |-> 1]}

\* With one date: one that is due or will be, a change of the state or the date.
MCDueRows ==
    {[state |-> "INVISIBLE", start |-> 0, end |-> NoDate],
     [state |-> "IN_PROGRESS", start |-> NoDate, end |-> 0]}
MCMoves == {[state |-> s] : s \in {"INVISIBLE", "IN_PROGRESS"}} \cup {[start |-> NoDate], [end |-> NoDate]}
=============================================================================
