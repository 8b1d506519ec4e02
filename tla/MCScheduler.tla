---------------------------- MODULE MCScheduler ----------------------------
(* Model values for the runs of Scheduler.                                 *)
EXTENDS Scheduler

CONSTANTS caller, w1, w2, root, f1, f2, f3

CallerOnly == {caller}
CallerAndTwo == {caller, w1, w2}
TwoFibers == {root, f1, f2}
ThreeFibers == {root, f1, f2, f3}

\* Workers are interchangeable, and so are user fibers.
MCSymmetry == Permutations({w1, w2}) \cup Permutations({f1, f2})
=============================================================================
