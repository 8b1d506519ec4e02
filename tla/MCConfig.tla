------------------------------ MODULE MCConfig ------------------------------
(* Model values for the runs of Config: one variable and the two types it  *)
(* may be asked for as, or two variables of one type; a file that sets a   *)
(* variable, with a text that does not convert at first.                   *)
EXTENDS Config

CONSTANTS t1, t2, int, list

MCThreads == {t1, t2}
MCTypes == {int, list}
MCFiles == {<<<<1, Bad>>, <<1, 1>>>>}
=============================================================================
