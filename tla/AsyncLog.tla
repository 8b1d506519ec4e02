------------------------------ MODULE AsyncLog ------------------------------
(***************************************************************************)
(* The asynchronous appender: class AsycLogAppender of code/common/log.h   *)
(* and log.cpp, over the buffers of fixbuffer.hpp.  Any number of threads  *)
(* append() formatted messages to the current buffer under m_mutex; one    *)
(* backend thread collects the filled buffers and writes them to a file.   *)
(*                                                                         *)
(* A message is a value with a size.  A list of buffers is modelled by its *)
(* contents, in order, and the number of buffers; a buffer in reserve is   *)
(* empty and is modelled by whether it is there.  Operators called Mut...  *)
(* are slips to try in the operation after them, as in Fiber.              *)
(***************************************************************************)
EXTENDS Integers, Sequences

CONSTANTS Message,
          Size,      \* the length of each formatted message
          Cap,       \* LargeBuffer, the size of a buffer
          MaxCalls   \* bound: calls of append()

ASSUME AsyncLogAssumption ==
  /\ Size \in [Message -> Nat]
  /\ Cap \in Nat \ {0}
  /\ MaxCalls \in Nat

VARIABLES
  cur,        \* contents of m_curBuffer
  used,       \* its length(): m_cur - m_data
  next,       \* m_nextBuffer is there
  pending,    \* contents of m_buffers
  full,       \* m_buffers.size()
  out,        \* contents of BufferToWrite, not yet written
  outCount,   \* BufferToWrite.size()
  spare1,     \* replaceBuffer1 is there
  spare2,     \* replaceBuffer2 is there
  running,    \* m_run
  backend,    \* where backendThread() stands
  stopper,    \* where stop() stands
  fileOpen,   \* ofs.is_open()
  written,    \* the file
  failed,     \* "none", or the use of a buffer that is not there
  calls,      \* calls of append() so far
  logged      \* the messages a buffer can hold, in the order of append()

frontVars == <<cur, used, next, pending, full>>
backVars == <<out, outCount, spare1, spare2, fileOpen, written>>
vars == <<frontVars, backVars, running, backend, stopper, failed, calls, logged>>

TypeOK ==
  /\ cur \in Seq(Message)
  /\ used \in 0..(Cap - 1)
  /\ next \in BOOLEAN
  /\ pending \in Seq(Message)
  /\ full \in Nat
  /\ out \in Seq(Message)
  /\ outCount \in Nat
  /\ spare1 \in BOOLEAN
  /\ spare2 \in BOOLEAN
  /\ running \in BOOLEAN
  /\ backend \in {"check", "lock", "wait", "woken", "write", "gone"}
  /\ stopper \in {"up", "stopping", "joining", "stopped"}
  /\ fileOpen \in BOOLEAN
  /\ written \in Seq(Message)
  /\ failed \in {"none", "nullBuffer", "emptyVector"}
  /\ calls \in 0..MaxCalls
  /\ logged \in Seq(Message)

\* AsycLogAppender(path), and the locals of backendThread().
Init ==
  /\ cur = <<>> /\ used = 0
  /\ next = TRUE
  /\ pending = <<>> /\ full = 0
  /\ out = <<>> /\ outCount = 0
  /\ spare1 = TRUE /\ spare2 = TRUE
  /\ running = TRUE
  /\ backend = "check"
  /\ stopper = "up"
  /\ fileOpen \in BOOLEAN
  /\ written = <<>>
  /\ failed = "none"
  /\ calls = 0
  /\ logged = <<>>

-----------------------------------------------------------------------------
\* Mutant: a message that fills the buffer to the last byte fits.
MutFits(m, n) == Cap - n >= Size[m]

\* FixBuffer::append into a buffer with n bytes in use copies a message only if
\* it is shorter than what is left.
Fits(m, n) == Cap - n > Size[m]

\* notify_all() reaches the backend only while it waits.
Notified == IF backend = "wait" THEN "woken" ELSE backend

\* append() when the current buffer has room.
AppendToCurrent(m) ==
  /\ Fits(m, used)
  /\ cur' = Append(cur, m)
  /\ used' = used + Size[m]
  /\ UNCHANGED <<next, pending, full, backend>>

\* append() when it has not: the buffer goes to m_buffers, the reserve or a new
\* one takes its place, and a message no buffer can hold is dropped there.
AppendToFresh(m) ==
  /\ ~Fits(m, used)
  /\ pending' = pending \o cur
  /\ full' = full + 1
  /\ next' = FALSE
  /\ cur' = IF Fits(m, 0) THEN <<m>> ELSE <<>>
  /\ used' = IF Fits(m, 0) THEN Size[m] ELSE 0
  /\ backend' = Notified

\* append() of a message by any thread, at any time, after stop() too.
LogMessage(m) ==
  /\ calls < MaxCalls
  /\ calls' = calls + 1
  /\ AppendToCurrent(m) \/ AppendToFresh(m)
  /\ logged' = IF Size[m] < Cap THEN Append(logged, m) ELSE logged
  /\ UNCHANGED <<backVars, running, stopper, failed>>

-----------------------------------------------------------------------------
\* while(m_run), and the end of backendThread().
Check ==
  /\ backend = "check"
  /\ backend' = IF running THEN "lock" ELSE "gone"
  /\ UNCHANGED <<frontVars, backVars, running, stopper, failed, calls, logged>>

\* The lock is taken with no filled buffer: wait_for releases it.
Wait ==
  /\ backend = "lock"
  /\ full = 0
  /\ backend' = "wait"
  /\ UNCHANGED <<frontVars, backVars, running, stopper, failed, calls, logged>>

\* Mutant: wait() in place of wait_for().
MutTimeout == FALSE /\ UNCHANGED vars

\* wait_for gives up after m_flushTimeInterval.
Timeout ==
  /\ backend = "wait"
  /\ backend' = "woken"
  /\ UNCHANGED <<frontVars, backVars, running, stopper, failed, calls, logged>>

\* Mutant: the current buffer goes before the filled ones.
MutGathered == cur \o pending

\* The current buffer joins the filled ones.
Gathered == pending \o cur

\* The locked section: the backend takes them all and leaves its replacements.
Collect ==
  /\ backend = "woken" \/ (backend = "lock" /\ full > 0)
  /\ backend' = "write"
  /\ out' = Gathered
  /\ outCount' = full + 1
  /\ pending' = <<>> /\ full' = 0
  /\ cur' = <<>> /\ used' = 0
  /\ spare1' = FALSE
  /\ failed' = IF spare1 THEN failed ELSE "nullBuffer"
  /\ next' = (next \/ spare2)
  /\ spare2' = (spare2 /\ next)
  /\ UNCHANGED <<fileOpen, written, running, stopper, calls, logged>>

\* Buffers the backend wants back from the two it keeps.
Wanted == (IF spare1 THEN 0 ELSE 1) + (IF spare2 THEN 0 ELSE 1)

\* Mutant: one written buffer is kept.
MutKept == IF outCount > 1 THEN 1 ELSE outCount

\* Of the written buffers two are kept.
Kept == IF outCount > 2 THEN 2 ELSE outCount

\* The buffers are written, and emptied for reuse.
WriteOut ==
  /\ backend = "write"
  /\ backend' = "check"
  /\ written' = IF fileOpen THEN written \o out ELSE written
  /\ out' = <<>>
  /\ outCount' = 0
  /\ failed' = IF Kept < Wanted THEN "emptyVector" ELSE failed
  /\ spare1' = TRUE
  /\ spare2' = TRUE
  /\ UNCHANGED <<frontVars, fileOpen, running, stopper, calls, logged>>

-----------------------------------------------------------------------------
\* stop(), or the destructor: m_run = false, without the lock ...
StopFlag ==
  /\ stopper = "up"
  /\ running' = FALSE
  /\ stopper' = "stopping"
  /\ UNCHANGED <<frontVars, backVars, backend, failed, calls, logged>>

\* ... then notify_all() ...
StopNotify ==
  /\ stopper = "stopping"
  /\ backend' = Notified
  /\ stopper' = "joining"
  /\ UNCHANGED <<frontVars, backVars, running, failed, calls, logged>>

\* ... then join().
StopJoin ==
  /\ stopper = "joining"
  /\ backend = "gone"
  /\ stopper' = "stopped"
  /\ UNCHANGED <<frontVars, backVars, running, backend, failed, calls, logged>>

\* The appender is stopped and the bound on append() is used up.
Over ==
  /\ stopper = "stopped"
  /\ calls = MaxCalls
  /\ UNCHANGED vars

Backend == Check \/ Wait \/ Timeout \/ Collect \/ WriteOut
Stop == StopFlag \/ StopNotify \/ StopJoin

Next ==
  \/ \E m \in Message : LogMessage(m)
  \/ Backend
  \/ Stop
  \/ Over

Spec == Init /\ [][Next]_vars

\* The backend thread runs and its waits end; a stop() that began goes on.
FairSpec == Spec /\ WF_vars(Backend) /\ WF_vars(StopNotify \/ StopJoin)

-----------------------------------------------------------------------------
(* Properties.                                                             *)

\* No message is lost, doubled or overtaken on its way: the file, what the
\* backend writes, the filled buffers and the current one are, in this order,
\* every message a buffer can hold.
Conserved == fileOpen => logged = written \o (out \o (pending \o cur))

\* The backend always finds the two buffers it wants back, and the current
\* buffer is always there: no null buffer, no back() of an empty vector.
BuffersSuffice == failed = "none"

\* The file is a growing prefix of what is logged, until it is closed.
Stream == INSTANCE LogStream WITH closed <- (backend = "gone")

ImplementsLogStream == Stream!Spec

\* While the appender runs every message reaches the file, full buffer or not.
MessagesReachFile ==
  \A n \in 1..MaxCalls :
    Len(logged) >= n ~> Len(written) >= n \/ ~running \/ ~fileOpen

\* stop() returns, even when its notification finds nobody waiting.
StopReturns == stopper = "stopping" ~> stopper = "stopped"
=============================================================================
