---------------------------- MODULE MCAsyncLog -----------------------------
(* Model values for the runs of AsyncLog: a short message, one that nearly *)
(* fills a buffer of three, and one that no buffer holds.                  *)
EXTENDS AsyncLog

CONSTANTS short, long, huge

MCMessages == {short, long, huge}
MCSize == [m \in MCMessages |-> IF m = short THEN 1 ELSE IF m = long THEN 2 ELSE 3]
=============================================================================
