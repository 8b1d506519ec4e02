-------------------------- MODULE AsyncLog_proofs --------------------------
(***************************************************************************)
(* Proofs about AsyncLog, for every set of messages, every size and every  *)
(* capacity.                                                               *)
(***************************************************************************)
EXTENDS AsyncLog, SequenceTheorems, TLAPS

\* The buffers in circulation: the backend holds both replacements except while
\* it writes, and then it has collected as many buffers as it has given away;
\* a missing m_nextBuffer was moved to make room for a filled one.
Reserve ==
  /\ failed = "none"
  /\ backend # "write" => spare1 /\ spare2 /\ out = <<>>
  /\ backend = "write" => outCount >= 1 /\ (~spare2 => outCount >= 2)
  /\ ~next => full >= 1

IInv == TypeOK /\ Reserve /\ Conserved

-----------------------------------------------------------------------------
(* Sequences.                                                              *)

\* Concatenation of messages is associative.
LEMMA Regroup ==
  \A s, t, u \in Seq(Message) : (s \o t) \o u = s \o (t \o u)
BY ConcatAssociative

\* Appending to the last part of a concatenation appends to the whole.
LEMMA AppendToLast ==
  \A s, t \in Seq(Message), x \in Message : Append(s \o t, x) = s \o Append(t, x)
<1> SUFFICES ASSUME NEW s \in Seq(Message), NEW t \in Seq(Message), NEW x \in Message
             PROVE  Append(s \o t, x) = s \o Append(t, x)
  OBVIOUS
<1>1. s \o t \in Seq(Message) /\ <<x>> \in Seq(Message)
  BY ConcatProperties
<1>2. Append(s \o t, x) = (s \o t) \o <<x>> /\ Append(t, x) = t \o <<x>>
  BY <1>1, AppendIsConcat
<1>3. (s \o t) \o <<x>> = s \o (t \o <<x>>)
  BY <1>1, Regroup
<1> QED
  BY <1>2, <1>3

-----------------------------------------------------------------------------
LEMMA InitIInv == Init => IInv
BY AsyncLogAssumption, ConcatEmptySeq DEF Init, IInv, TypeOK, Reserve, Conserved

\* Type correctness is preserved by every step.
LEMMA NextTypeOK == TypeOK /\ [Next]_vars => TypeOK'
<1> SUFFICES ASSUME TypeOK, [Next]_vars PROVE TypeOK'
  OBVIOUS
<1> USE AsyncLogAssumption DEF TypeOK
<1>1. ASSUME NEW m \in Message, LogMessage(m) PROVE TypeOK'
  <2>1. Size[m] \in Nat /\ calls' \in 0..MaxCalls /\ logged' \in Seq(Message)
    BY <1>1 DEF LogMessage
  <2>2. CASE AppendToCurrent(m)
    <3>1. used' \in 0..(Cap - 1) /\ cur' \in Seq(Message)
      BY <2>1, <2>2 DEF AppendToCurrent, Fits
    <3> QED
      BY <1>1, <2>1, <2>2, <3>1 DEF LogMessage, AppendToCurrent, backVars
  <2>3. CASE AppendToFresh(m)
    <3>1. used' \in 0..(Cap - 1) /\ cur' \in Seq(Message)
      BY <2>1, <2>3 DEF AppendToFresh, Fits
    <3>2. pending' \in Seq(Message)
      BY <2>3, ConcatProperties DEF AppendToFresh
    <3>3. full' \in Nat /\ backend' \in {"check", "lock", "wait", "woken", "write", "gone"}
      BY <2>3 DEF AppendToFresh, Notified
    <3>4. next' \in BOOLEAN
      BY <2>3 DEF AppendToFresh
    <3> QED
      BY <1>1, <2>1, <3>1, <3>2, <3>3, <3>4 DEF LogMessage, backVars
  <2> QED
    BY <1>1, <2>2, <2>3 DEF LogMessage
<1>2. CASE Check
  BY <1>2 DEF Check, frontVars, backVars
<1>3. CASE Wait
  BY <1>3 DEF Wait, frontVars, backVars
<1>4. CASE Timeout
  BY <1>4 DEF Timeout, frontVars, backVars
<1>5. CASE Collect
  <2>1. out' \in Seq(Message)
    BY <1>5, ConcatProperties DEF Collect, Gathered
  <2>2. /\ cur' \in Seq(Message) /\ used' \in 0..(Cap - 1)
        /\ pending' \in Seq(Message) /\ full' \in Nat
    BY <1>5 DEF Collect, Gathered
  <2>3. outCount' \in Nat /\ failed' \in {"none", "nullBuffer", "emptyVector"}
    BY <1>5 DEF Collect, Gathered
  <2>4. UNCHANGED <<fileOpen, written, running, stopper, calls, logged>> /\ backend' = "write"
    BY <1>5 DEF Collect, Gathered
  <2>5. next' \in BOOLEAN /\ spare1' \in BOOLEAN /\ spare2' \in BOOLEAN
    BY <1>5, Zenon DEF Collect, Gathered
  <2> QED
    BY <2>1, <2>2, <2>3, <2>4, <2>5
<1>6. CASE WriteOut
  <2>1. written' \in Seq(Message)
    BY <1>6, ConcatProperties DEF WriteOut
  <2> QED
    BY <1>6, <2>1 DEF WriteOut, frontVars
<1>7. CASE StopFlag
  BY <1>7 DEF StopFlag, frontVars, backVars
<1>8. CASE StopNotify
  BY <1>8 DEF StopNotify, Notified, frontVars, backVars
<1>9. CASE StopJoin
  BY <1>9 DEF StopJoin, frontVars, backVars
<1>10. CASE UNCHANGED vars
  BY <1>10 DEF vars, frontVars, backVars
<1> QED
  BY <1>1, <1>2, <1>3, <1>4, <1>5, <1>6, <1>7, <1>8, <1>9, <1>10
  DEF Next, Backend, Stop, Over

\* The buffers in circulation are preserved: the two the backend wants back are
\* among those it collected.
LEMMA NextReserve == TypeOK /\ Reserve /\ [Next]_vars => Reserve'
<1> SUFFICES ASSUME TypeOK, Reserve, [Next]_vars PROVE Reserve'
  OBVIOUS
<1> USE DEF TypeOK, Reserve
<1>1. ASSUME NEW m \in Message, LogMessage(m) PROVE Reserve'
  BY <1>1 DEF LogMessage, AppendToCurrent, AppendToFresh, Notified, backVars
<1>2. CASE Check
  BY <1>2 DEF Check, frontVars, backVars
<1>3. CASE Wait
  BY <1>3 DEF Wait, frontVars, backVars
<1>4. CASE Timeout
  BY <1>4 DEF Timeout, frontVars, backVars
<1>5. CASE Collect
  BY <1>5 DEF Collect, Gathered
<1>6. CASE WriteOut
  <2>1. Wanted <= Kept
    BY <1>6 DEF WriteOut, Wanted, Kept
  <2>2. Wanted \in Int /\ Kept \in Int
    BY DEF Wanted, Kept
  <2> QED
    BY <1>6, <2>1, <2>2 DEF WriteOut, frontVars
<1>7. CASE StopFlag
  BY <1>7 DEF StopFlag, frontVars, backVars
<1>8. CASE StopNotify
  BY <1>8 DEF StopNotify, Notified, frontVars, backVars
<1>9. CASE StopJoin
  BY <1>9 DEF StopJoin, frontVars, backVars
<1>10. CASE UNCHANGED vars
  BY <1>10 DEF vars, frontVars, backVars
<1> QED
  BY <1>1, <1>2, <1>3, <1>4, <1>5, <1>6, <1>7, <1>8, <1>9, <1>10
  DEF Next, Backend, Stop, Over

\* Every step moves messages one place on, or none.
LEMMA NextConserved == IInv /\ [Next]_vars => Conserved'
<1> SUFFICES ASSUME IInv, [Next]_vars, fileOpen' PROVE logged' = written' \o (out' \o (pending' \o cur'))
  BY DEF Conserved
<1>1. fileOpen
  BY DEF Next, LogMessage, Backend, Check, Wait, Timeout, Collect, Gathered, WriteOut, Stop,
         StopFlag, StopNotify, StopJoin, Over, vars, backVars
<1>2. logged = written \o (out \o (pending \o cur))
  BY <1>1 DEF IInv, Conserved
<1>3. /\ cur \in Seq(Message) /\ pending \in Seq(Message)
      /\ out \in Seq(Message) /\ written \in Seq(Message)
  BY DEF IInv, TypeOK
<1>4. pending \o cur \in Seq(Message) /\ out \o (pending \o cur) \in Seq(Message)
  BY <1>3, ConcatProperties
<1>5. ASSUME NEW m \in Message, LogMessage(m)
      PROVE  logged' = written' \o (out' \o (pending' \o cur'))
  <2>1. Size[m] \in Nat /\ Cap \in Nat /\ used \in 0..(Cap - 1)
    BY AsyncLogAssumption DEF IInv, TypeOK
  <2>2. written' = written /\ out' = out
    BY <1>5 DEF LogMessage, backVars
  <2>3. Append(logged, m) = written \o (out \o (pending \o Append(cur, m)))
    <3>1. Append(pending \o cur, m) = pending \o Append(cur, m)
      BY <1>3, AppendToLast, Zenon
    <3>2. Append(out \o (pending \o cur), m) = out \o Append(pending \o cur, m)
      BY <1>3, <1>4, AppendToLast, Zenon
    <3>3. Append(written \o (out \o (pending \o cur)), m)
            = written \o Append(out \o (pending \o cur), m)
      BY <1>3, <1>4, AppendToLast, Zenon
    <3> QED
      BY <1>2, <3>1, <3>2, <3>3
  <2>4. CASE AppendToCurrent(m)
    <3>1. logged' = Append(logged, m)
      BY <1>5, <2>1, <2>4 DEF LogMessage, AppendToCurrent, Fits
    <3> QED
      BY <2>2, <2>3, <2>4, <3>1 DEF AppendToCurrent
  <2>5. CASE AppendToFresh(m) /\ Size[m] < Cap
    <3>1. logged' = Append(logged, m) /\ cur' = <<m>> /\ pending' = pending \o cur
      BY <1>5, <2>1, <2>5 DEF LogMessage, AppendToFresh, Fits
    <3>2. (pending \o cur) \o <<m>> = pending \o Append(cur, m)
      <4>1. Append(pending \o cur, m) = (pending \o cur) \o <<m>>
        BY <1>4, AppendIsConcat
      <4> QED
        BY <1>3, <4>1, AppendToLast, Zenon
    <3> QED
      BY <2>2, <2>3, <3>1, <3>2
  <2>6. CASE AppendToFresh(m) /\ ~(Size[m] < Cap)
    <3>1. logged' = logged /\ cur' = <<>> /\ pending' = pending \o cur
      BY <1>5, <2>1, <2>6 DEF LogMessage, AppendToFresh, Fits
    <3>2. (pending \o cur) \o <<>> = pending \o cur
      BY <1>4, ConcatEmptySeq
    <3> QED
      BY <1>2, <2>2, <3>1, <3>2
  <2> QED
    BY <1>5, <2>4, <2>5, <2>6 DEF LogMessage
<1>6. CASE Collect
  <2>1. out = <<>>
    BY <1>6 DEF IInv, Reserve, Collect, Gathered
  <2>2. /\ out' = pending \o cur /\ pending' = <<>> /\ cur' = <<>>
        /\ logged' = logged /\ written' = written
    BY <1>6 DEF Collect, Gathered
  <2>3. out' \o (pending' \o cur') = pending \o cur
    BY <1>4, <2>2, ConcatEmptySeq, EmptySeq
  <2>4. out \o (pending \o cur) = pending \o cur
    BY <1>4, <2>1, ConcatEmptySeq
  <2> QED
    BY <1>2, <2>2, <2>3, <2>4
<1>7. CASE WriteOut
  <2>1. /\ written' = written \o out /\ out' = <<>>
        /\ pending' = pending /\ cur' = cur /\ logged' = logged
    BY <1>1, <1>7 DEF WriteOut, frontVars
  <2>2. out' \o (pending' \o cur') = pending \o cur
    BY <1>4, <2>1, ConcatEmptySeq
  <2>3. (written \o out) \o (pending \o cur) = written \o (out \o (pending \o cur))
    BY <1>3, <1>4, Regroup, Zenon
  <2> QED
    BY <1>2, <2>1, <2>2, <2>3
<1>8. CASE UNCHANGED <<cur, pending, out, written, logged>>
  BY <1>2, <1>8
<1> QED
  BY <1>5, <1>6, <1>7, <1>8
  DEF Next, Backend, Check, Wait, Timeout, Stop, StopFlag, StopNotify, StopJoin, Over,
      vars, frontVars, backVars

-----------------------------------------------------------------------------
\* IInv is an invariant: of AsycLogAppender's buffers, whatever the threads that
\* log, the backend and stop() do.
THEOREM Invariance == Spec => []IInv
<1>1. Init => IInv
  BY InitIInv
<1>2. IInv /\ [Next]_vars => IInv'
  BY NextTypeOK, NextReserve, NextConserved DEF IInv
<1> QED
  BY <1>1, <1>2, PTL DEF Spec

\* Every variable of the appender keeps its type; the current buffer is never
\* filled to its last byte.
THEOREM TypeCorrect == Spec => []TypeOK
<1>1. IInv => TypeOK
  BY DEF IInv
<1> QED
  BY <1>1, Invariance, PTL

\* No message append() could store is lost, doubled or reordered between
\* append() and the file, for every capacity and every message size.
THEOREM NothingLost == Spec => []Conserved
<1>1. IInv => Conserved
  BY DEF IInv
<1> QED
  BY <1>1, Invariance, PTL

\* The two replacement buffers suffice: neither BufferToWrite.back() of an empty
\* vector nor a null current buffer, however many buffers were filled meanwhile.
THEOREM ReserveSuffices == Spec => []BuffersSuffice
<1>1. IInv => BuffersSuffice
  BY DEF IInv, Reserve, BuffersSuffice
<1> QED
  BY <1>1, Invariance, PTL

-----------------------------------------------------------------------------
(* The appender implements LogStream.                                      *)

\* What the file holds after a write is the beginning of what was logged.
LEMMA WrittenIsPrefix ==
  ASSUME IInv, fileOpen
  PROVE  /\ Len(written \o out) \in Len(written)..Len(logged)
         /\ SubSeq(logged, 1, Len(written \o out)) = written \o out
<1> DEFINE w == written \o out
           r == pending \o cur
<1>1. /\ cur \in Seq(Message) /\ pending \in Seq(Message)
      /\ out \in Seq(Message) /\ written \in Seq(Message)
  BY DEF IInv, TypeOK
<1>2. w \in Seq(Message) /\ Len(w) = Len(written) + Len(out)
  BY <1>1, ConcatProperties
<1>3. r \in Seq(Message)
  BY <1>1, ConcatProperties
<1>4. logged = w \o r
  BY <1>1, <1>3, Regroup, Zenon DEF IInv, Conserved
<1> HIDE DEF w, r
<1>5. Len(w \o r) = Len(w) + Len(r)
  BY <1>2, <1>3, ConcatProperties
<1>6. Len(w) \in Nat /\ Len(r) \in Nat /\ Len(written) \in Nat /\ Len(out) \in Nat
  BY <1>1, <1>2, <1>3, LenProperties
<1>7. SubSeq(w \o r, 1, Len(w)) = w
  <2>1. CASE w = <<>>
    BY <1>2, <1>3, <2>1, SubSeqEmpty
  <2>2. CASE w # <<>>
    <3>1. 1 \in 1..Len(w) /\ Len(w) \in 1..Len(w)
      BY <1>2, <1>6, <2>2, EmptySeq
    <3>2. SubSeq(w \o r, 1, Len(w)) = SubSeq(w, 1, Len(w))
      BY <1>2, <1>3, <3>1, SubSeqOfConcat1
    <3> QED
      BY <1>2, <3>2, SubSeqFull
  <2> QED
    BY <2>1, <2>2
<1>8. Len(w) \in Len(written)..Len(w \o r)
  BY <1>2, <1>5, <1>6
<1> QED
  BY <1>4, <1>7, <1>8 DEF w

\* Every step of the appender is a step of the stream or leaves it alone.
LEMMA StepImplements == IInv /\ [Next]_vars => [Stream!Next]_Stream!vars
<1> SUFFICES ASSUME IInv, [Next]_vars PROVE [Stream!Next]_Stream!vars
  OBVIOUS
<1>1. ASSUME NEW m \in Message, LogMessage(m) PROVE [Stream!Next]_Stream!vars
  <2>1. written' = written /\ (backend' = "gone") = (backend = "gone")
    BY <1>1 DEF LogMessage, AppendToCurrent, AppendToFresh, Notified, backVars
  <2>2. CASE logged' = Append(logged, m)
    BY <2>1, <2>2 DEF Stream!Next, Stream!Log
  <2>3. CASE logged' = logged
    BY <2>1, <2>3 DEF Stream!vars
  <2> QED
    BY <1>1, <2>2, <2>3 DEF LogMessage
<1>2. CASE Check
  <2>1. logged' = logged /\ written' = written
    BY <1>2 DEF Check, backVars
  <2>2. CASE running
    <3>1. (backend' = "gone") = (backend = "gone")
      BY <1>2, <2>2 DEF Check
    <3> QED
      BY <2>1, <3>1 DEF Stream!vars
  <2>3. CASE ~running
    <3>1. (backend' = "gone") = TRUE
      BY <1>2, <2>3 DEF Check
    <3> QED
      BY <2>1, <3>1 DEF Stream!Next, Stream!Close
  <2> QED
    BY <2>2, <2>3
<1>3. CASE WriteOut /\ fileOpen
  <2>1. /\ written' = written \o out /\ logged' = logged
        /\ (backend' = "gone") = FALSE /\ (backend = "gone") = FALSE
    BY <1>3 DEF WriteOut
  <2>2. /\ Len(written \o out) \in Len(written)..Len(logged)
        /\ SubSeq(logged, 1, Len(written \o out)) = written \o out
    BY <1>3, WrittenIsPrefix
  <2>3. \E n \in Len(written)..Len(logged) : written' = SubSeq(logged, 1, n)
    BY <2>1, <2>2, Zenon
  <2> QED
    BY <2>1, <2>3 DEF Stream!Next, Stream!Flush
<1>4. CASE UNCHANGED <<logged, written>> /\ (backend' = "gone") = (backend = "gone")
  BY <1>4 DEF Stream!vars
<1>5. ASSUME Wait \/ Timeout \/ Collect \/ (WriteOut /\ ~fileOpen) \/ Stop
             \/ UNCHANGED vars
      PROVE  UNCHANGED <<logged, written>> /\ (backend' = "gone") = (backend = "gone")
  BY <1>5 DEF Wait, Timeout, Collect, Gathered, WriteOut, Stop, StopFlag, StopNotify, StopJoin,
              Notified, vars, frontVars, backVars
<1> QED
  BY <1>1, <1>2, <1>3, <1>4, <1>5 DEF Next, Backend, Over

\* The file is a prefix of what was logged, in order, at every moment, grows only,
\* and does not change once the backend has closed it.
THEOREM Refinement == Spec => ImplementsLogStream
<1>1. Init => Stream!Init
  BY DEF Init, Stream!Init
<1>2. IInv /\ [Next]_vars => [Stream!Next]_Stream!vars
  BY StepImplements
<1> QED
  BY <1>1, <1>2, Invariance, PTL DEF Spec, ImplementsLogStream, Stream!Spec
=============================================================================
