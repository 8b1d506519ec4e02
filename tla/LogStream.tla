----------------------------- MODULE LogStream -----------------------------
(***************************************************************************)
(* What the asynchronous log appender of code/common/log.h promises:       *)
(* messages are logged in some order, and the file is always a prefix of   *)
(* that order which only grows, until the appender closes it.  How far the *)
(* file lags behind, and what it still misses when it is closed, is left   *)
(* open.                                                                   *)
(***************************************************************************)
EXTENDS Naturals, Sequences

CONSTANT Message

VARIABLES
  logged,    \* the messages, in the order append() took them
  written,   \* the messages in the file
  closed     \* the file is closed

vars == <<logged, written, closed>>

TypeOK ==
  /\ logged \in Seq(Message)
  /\ written \in Seq(Message)
  /\ closed \in BOOLEAN

Init ==
  /\ logged = <<>>
  /\ written = <<>>
  /\ closed = FALSE

Log(m) ==
  /\ logged' = Append(logged, m)
  /\ UNCHANGED <<written, closed>>

Flush ==
  /\ ~closed
  /\ \E n \in Len(written)..Len(logged) : written' = SubSeq(logged, 1, n)
  /\ UNCHANGED <<logged, closed>>

Close ==
  /\ closed' = TRUE
  /\ UNCHANGED <<logged, written>>

Next == (\E m \in Message : Log(m)) \/ Flush \/ Close

Spec == Init /\ [][Next]_vars
=============================================================================
