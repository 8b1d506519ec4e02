--------------------------- MODULE MCFiberThreads ---------------------------
(* Model values for the runs of FiberThreads.                              *)
EXTENDS FiberThreads

CONSTANTS t1, t2, c1, c2, c3

MCThreads == {t1, t2}
MCCoroutines == {c1, c2, c3}
=============================================================================
