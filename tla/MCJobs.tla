-------------------------------- MODULE MCJobs --------------------------------
(* Jobs on small instances. *)
EXTENDS Jobs

CONSTANT t1

OneTab == {t1}

\* Scenarios of two buttons, one of which hands over functions of its own.
TwoButtons == {"cascade", "connections"}

\* The other scenarios.
OtherScenarios == Scenarios \ TwoButtons

AllFaults == FaultKinds

\* A table the plan gives no rows, and its child.
TwoTables == <<0, 2>>

\* No rows per batch, and two.
EmptyOrTwo == {0, 2}

\* What a statement that inserts nothing, and one that inserts more than the batch, answer.
StrangeCounts == {-1, 3}
=============================================================================
