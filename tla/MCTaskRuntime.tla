---------------------------- MODULE MCTaskRuntime ----------------------------
(* Model checking of the task runtime: instances of one task.              *)
EXTENDS TaskRuntime, TLC

CONSTANTS t1, t2, o1, o2, a1, a2

OneTask == {t1}
OneOperator == {o1}
TwoOperators == {o1, o2}
OneApproval == {a1}
TwoApprovals == {a1, a2}
AgeRange == 0 .. 2

\* With one task the initial state and the actions treat the operators alike,
\* and the approvals too.
Symmetry == Permutations(Operators) \cup Permutations(Approvals)
=============================================================================
