---------------------------- MODULE Logger_proofs ----------------------------
(***************************************************************************)
(* Proofs about Logger, for any number of threads, loggers and appenders,  *)
(* whatever they log, add, take off and set.                               *)
(***************************************************************************)
EXTENDS Logger, TLAPS, SequenceTheorems, FiniteSetTheorems, WellFoundedInduction

\* Every logger and every appender has a place for its formatter.
FormatterTyped == formatter \in [Logger \cup Appender -> Formatter \cup {Null}]

LEMMA WithFormatterType ==
  ASSUME FormatterTyped, NEW s, NEW f \in Formatter \cup {Null}
  PROVE  /\ WithFormatter(s, f) \in [Logger \cup Appender -> Formatter \cup {Null}]
         /\ \A x \in Logger \cup Appender :
              formatter[x] # Null => WithFormatter(s, f)[x] = formatter[x]
BY DEF FormatterTyped, WithFormatter

-----------------------------------------------------------------------------
(* The inductive invariant.                                                *)

\* What TypeOK does not say.
Typed ==
  /\ held \in [Thread -> Seq(Logger)]
  /\ cur \in [Thread -> Logger \cup {Null}]
  /\ event \in [Thread -> Event \cup {0}]
  /\ todo \in [Thread -> Seq(Appender)]
  /\ grade \in [Event -> Levels \cup {DEBUG}]
  /\ logged \in 0..MaxEvents
  /\ changes \in Nat
  /\ seen \in [Appender -> Seq(Event)]
  /\ source \in [Event -> [logger : Logger \cup {Null}, to : Seq(Appender)]]

\* The manager's loggers have a root, and nobody else.
Objects ==
  /\ {Root} \cup Own \subseteq made /\ made \subseteq Logger
  /\ root = [l \in Logger |-> IF l \in made \cap Named THEN Root ELSE Null]
  /\ level \in [Logger -> Levels \cup {DEBUG}]
  /\ appenders \in [Logger -> Seq(Appender)]
  /\ FormatterTyped
  /\ mutex \in [Logger -> Thread \cup {Null}]
  /\ place \in [Thread -> {"idle", "enter", "lock", "deliver", "return", "failed"}]

\* Loggers have a formatter, and so have the appenders on their lists.
Formats ==
  /\ \A l \in Logger : formatter[l] # Null
  /\ \A l \in Logger : \A a \in ToSet(appenders[l]) : formatter[a] # Null

\* The mutexes taken on the way to the logger l that log() is in: none, or that of the
\* logger that had no appenders.
CameTo(t, l) == held[t] = <<>> \/ (l = Root /\ \E k \in made \cap Named : held[t] = <<k>>)

\* Those, and that of l.
Inside(t, l) ==
  held[t] = <<l>> \/ (l = Root /\ \E k \in made \cap Named : held[t] = <<k, Root>>)

Route(t) ==
  /\ At(t, "idle") <=> event[t] = 0
  /\ At(t, "idle") => held[t] = <<>>
  /\ ~At(t, "idle") => cur[t] \in made
  /\ place[t] \in {"enter", "lock"} => CameTo(t, cur[t])
  /\ At(t, "deliver") => Inside(t, cur[t])
  /\ At(t, "return") => held[t] = <<>> \/ \E l \in made : Inside(t, l)
  /\ At(t, "failed") => Inside(t, cur[t]) /\ root[cur[t]] = Null /\ appenders[cur[t]] = <<>>
  /\ ~At(t, "deliver") => todo[t] = <<>>

Routes == \A t \in Thread : Route(t)

\* A mutex is held by the thread that took it and has not given it back.
Mutexes == \A l \in Logger, t \in Thread : mutex[l] = t <=> l \in ToSet(held[t])

\* Whom an event is still to be handed to is on the list of the logger it comes out of,
\* which is locked.
Attached ==
  \A t \in Thread : At(t, "deliver") => ToSet(todo[t]) \subseteq ToSet(appenders[cur[t]])

SafeInv == Typed /\ Objects /\ Formats /\ Routes /\ Mutexes /\ Attached

\* An event is logged by one thread at a time, and has come out of no logger before one
\* with appenders was locked for it.
Events ==
  /\ \A e \in Event : e > logged => source[e].logger = Null /\ \A t \in Thread : event[t] # e
  /\ \A t, u \in Thread : event[t] = event[u] /\ event[t] # 0 => t = u
  /\ \A t \in Thread : place[t] \in {"enter", "lock"} => source[event[t]].logger = Null
  /\ \A t \in Thread : At(t, "deliver") => source[event[t]].logger = cur[t]
  /\ \A e \in Event : source[e].logger = Null =>
       source[e].to = <<>> /\ \A a \in Appender : e \notin ToSet(seen[a])

\* What comes out of a logger now comes behind what came out of it before.
Latest ==
  \A t \in Thread, d \in Event, b \in Appender :
    At(t, "deliver") /\ d # event[t] /\ source[d].logger = cur[t] =>
      ~Before(event[t], d, seen[b])

OrderInv == Events /\ Latest /\ SameOrder

\* HandedOut, for an event that t logs, or that nobody logs.
Handed ==
  \A e \in Event, a \in Appender :
    /\ grade[e] < DEBUG => Times(e, seen[a]) = 0
    /\ \A t \in Thread : event[t] = e /\ grade[e] >= DEBUG =>
         Times(e, seen[a]) + Times(a, todo[t]) = Times(a, source[e].to)
    /\ (\A t \in Thread : event[t] # e) /\ grade[e] >= DEBUG =>
         Times(e, seen[a]) = Times(a, source[e].to)

-----------------------------------------------------------------------------
(* Sequences.                                                              *)

LEMMA ToSetOfFew ==
  ASSUME NEW x, NEW y
  PROVE  ToSet(<<>>) = {} /\ ToSet(<<x>>) = {x} /\ ToSet(<<x, y>>) = {x, y}
<1>1. DOMAIN <<>> = {} /\ DOMAIN <<x>> = {1} /\ DOMAIN <<x, y>> = {1, 2}
  OBVIOUS
<1> QED
  BY <1>1 DEF ToSet

LEMMA AppendToFew ==
  ASSUME NEW x, NEW y
  PROVE  Append(<<>>, x) = <<x>> /\ Append(<<x>>, y) = <<x, y>>
<1>1. Append(<<>>, x) = <<x>>
  <2>1. <<>> \in Seq({x}) /\ Len(<<>>) = 0
    OBVIOUS
  <2>2. Append(<<>>, x) \in Seq({x}) /\ Len(Append(<<>>, x)) = 1 /\ Append(<<>>, x)[1] = x
    BY <2>1
  <2>3. <<x>> \in Seq({x}) /\ Len(<<x>>) = 1 /\ <<x>>[1] = x
    OBVIOUS
  <2> QED
    BY <2>2, <2>3, SeqEqual
<1>2. Append(<<x>>, y) = <<x, y>>
  <2>1. <<x>> \in Seq({x, y}) /\ Len(<<x>>) = 1 /\ <<x>>[1] = x
    OBVIOUS
  <2>2. /\ Append(<<x>>, y) \in Seq({x, y}) /\ Len(Append(<<x>>, y)) = 2
        /\ Append(<<x>>, y)[1] = x /\ Append(<<x>>, y)[2] = y
    BY <2>1
  <2>3. /\ <<x, y>> \in Seq({x, y}) /\ Len(<<x, y>>) = 2
        /\ <<x, y>>[1] = x /\ <<x, y>>[2] = y
    OBVIOUS
  <2>4. \A i \in 1..2 : Append(<<x>>, y)[i] = <<x, y>>[i]
    BY <2>2, <2>3
  <2> QED
    BY <2>2, <2>3, <2>4, SeqEqual
<1> QED
  BY <1>1, <1>2

LEMMA EndOfFew ==
  ASSUME NEW x, NEW y
  PROVE  /\ Last(<<x>>) = x /\ Front(<<x>>) = <<>>
         /\ Last(<<x, y>>) = y /\ Front(<<x, y>>) = <<x>>
<1>1. Len(<<x>>) = 1 /\ Len(<<x, y>>) = 2
  OBVIOUS
<1>2. SubSeq(<<x>>, 1, 0) = <<>>
  OBVIOUS
<1>3. SubSeq(<<x, y>>, 1, 1) = <<x>>
  <2> DEFINE s == <<x, y>>
  <2>1. s \in Seq({x, y}) /\ Len(s) = 2 /\ s[1] = x
    OBVIOUS
  <2> HIDE DEF s
  <2>2. /\ SubSeq(s, 1, 1) \in Seq({x, y}) /\ Len(SubSeq(s, 1, 1)) = 1
        /\ SubSeq(s, 1, 1)[1] = x
    BY <2>1
  <2>3. <<x>> \in Seq({x, y}) /\ Len(<<x>>) = 1 /\ <<x>>[1] = x
    OBVIOUS
  <2>4. \A i \in 1..1 : SubSeq(s, 1, 1)[i] = <<x>>[i]
    BY <2>2, <2>3
  <2>5. SubSeq(s, 1, 1) = <<x>>
    BY <2>2, <2>3, <2>4, SeqEqual
  <2> QED
    BY <2>5 DEF s
<1> QED
  BY <1>1, <1>2, <1>3 DEF Last, Front

LEMMA ToSetAppend ==
  ASSUME NEW S, NEW s \in Seq(S), NEW x
  PROVE  ToSet(Append(s, x)) = ToSet(s) \cup {x}
<1>1. Len(s) \in Nat /\ DOMAIN s = 1..Len(s) /\ DOMAIN Append(s, x) = 1..Len(s) + 1
  OBVIOUS
<1>2. \A i \in 1..Len(s) : Append(s, x)[i] = s[i]
  OBVIOUS
<1>3. Append(s, x)[Len(s) + 1] = x
  OBVIOUS
<1>4. 1..Len(s) + 1 = (1..Len(s)) \cup {Len(s) + 1}
  BY <1>1
<1> HIDE <1>1
<1> QED
  BY <1>1, <1>2, <1>3, <1>4 DEF ToSet

LEMMA ToSetTail ==
  ASSUME NEW S, NEW s \in Seq(S), s # <<>>
  PROVE  /\ Tail(s) \in Seq(S) /\ Head(s) \in ToSet(s) /\ Head(s) \in S
         /\ ToSet(Tail(s)) \subseteq ToSet(s)
<1>1. Len(s) \in Nat \ {0} /\ DOMAIN s = 1..Len(s) /\ DOMAIN Tail(s) = 1..(Len(s) - 1)
  OBVIOUS
<1>2. \A i \in 1..(Len(s) - 1) : Tail(s)[i] = s[i + 1] /\ i + 1 \in 1..Len(s)
  BY <1>1
<1>3. Head(s) = s[1] /\ 1 \in 1..Len(s)
  BY <1>1
<1>4. Head(s) \in ToSet(s) /\ ToSet(Tail(s)) \subseteq ToSet(s)
  BY <1>1, <1>2, <1>3 DEF ToSet
<1> QED
  BY <1>3, <1>4

LEMMA ToSetInSeq ==
  ASSUME NEW S, NEW s \in Seq(S)
  PROVE  ToSet(s) \subseteq S
BY DEF ToSet

\* A set of natural numbers has a least one.
LEMMA MinInSet ==
  ASSUME NEW I \in SUBSET Nat, I # {}
  PROVE  Min(I) \in I
<1> DEFINE R == {p \in Nat \X Nat : p[1] < p[2]}
<1>1. IsWellFoundedOn(R, Nat)
  BY NatLessThanWellFounded DEF OpToRel
<1> HIDE DEF R
<1>2. PICK x \in I : \A y \in I : ~(<<y, x>> \in R)
  BY <1>1, WFMin
<1>3. ASSUME NEW y \in I PROVE x <= y
  <2>1. <<y, x>> \in Nat \X Nat /\ <<y, x>>[1] = y /\ <<y, x>>[2] = x
    OBVIOUS
  <2> QED
    BY <1>2, <2>1 DEF R
<1> QED
  BY <1>3 DEF Min

LEMMA RemoveFirstSeq ==
  ASSUME NEW S, NEW s \in Seq(S), NEW a
  PROVE  RemoveFirst(s, a) \in Seq(S) /\ ToSet(RemoveFirst(s, a)) \subseteq ToSet(s)
<1>1. CASE ~\E i \in 1..Len(s) : s[i] = a
  BY <1>1 DEF RemoveFirst
<1>2. CASE \E i \in 1..Len(s) : s[i] = a
  <2> DEFINE I == {i \in 1..Len(s) : s[i] = a}
             p == Min(I)
             u == SubSeq(s, 1, p - 1)
             w == SubSeq(s, p + 1, Len(s))
  <2>1. I # {} /\ I \in SUBSET Nat
    BY <1>2
  <2>2. p \in 1..Len(s)
    BY <2>1, MinInSet
  <2>3. RemoveFirst(s, a) = u \o w
    BY <1>2, <2>1 DEF RemoveFirst, RemoveAt, SelectInSeq
  <2> HIDE DEF p
  <2>4. u \in Seq(S) /\ Len(u) = p - 1 /\ \A i \in 1..(p - 1) : u[i] = s[i]
    BY <2>2
  <2>5. w \in Seq(S) /\ Len(w) = Len(s) - p /\ \A i \in 1..(Len(s) - p) : w[i] = s[p + i]
    BY <2>2
  <2> HIDE DEF u, w, I
  <2>6. u \o w \in Seq(S) /\ DOMAIN (u \o w) = 1..(Len(u) + Len(w))
    BY <2>4, <2>5
  <2>7. ASSUME NEW i \in DOMAIN (u \o w) PROVE (u \o w)[i] \in ToSet(s)
    <3>1. DOMAIN s = 1..Len(s) /\ Len(s) \in Nat
      OBVIOUS
    <3>2. CASE i <= p - 1
      BY <2>2, <2>4, <2>5, <2>6, <3>1, <3>2 DEF ToSet
    <3>3. CASE ~(i <= p - 1)
      <4>1. Len(u) \in Nat /\ Len(w) \in Nat /\ i \in Len(u) + 1..Len(u) + Len(w)
        BY <2>2, <2>4, <2>5, <2>6, <3>1, <3>3
      <4>2. PICK j \in 1..(Len(s) - p) : (u \o w)[i] = w[j]
        <5>1. (u \o w)[i] = w[i - Len(u)]
          BY <2>4, <2>5, <4>1, ConcatProperties
        <5>2. i - Len(u) \in 1..(Len(s) - p)
          BY <2>5, <4>1
        <5> QED
          BY <5>1, <5>2
      <4>3. p + j \in 1..Len(s)
        BY <2>2, <3>1
      <4>4. w[j] = s[p + j]
        BY <2>5
      <4> QED
        BY <3>1, <4>2, <4>3, <4>4 DEF ToSet
    <3> QED
      BY <3>2, <3>3
  <2> QED
    BY <2>3, <2>6, <2>7 DEF ToSet
<1> QED
  BY <1>1, <1>2

-----------------------------------------------------------------------------
(* SafeInv.                                                                *)

LEMMA InitSafeInv == Init => SafeInv
<1> SUFFICES ASSUME Init PROVE SafeInv
  OBVIOUS
<1> USE LoggerAssumption
<1>1. Typed
  BY DEF Init, Typed, Event
<1>2. Objects
  <2>1. FormatterTyped
    BY DEF Init, FormatterTyped
  <2>2. root = [l \in Logger |-> IF l \in made \cap Named THEN Root ELSE Null]
    BY DEF Init
  <2>3. appenders \in [Logger -> Seq(Appender)]
    BY DEF Init
  <2> QED
    BY <2>1, <2>2, <2>3 DEF Init, Objects, Logger
<1>3. Formats
  <2>1. \A l \in Logger : ToSet(appenders[l]) \subseteq {Stdout}
    BY ToSetOfFew DEF Init
  <2>2. formatter[Stdout] # Null
    BY DEF Init
  <2> QED
    BY <2>1, <2>2 DEF Init, Formats
<1>4. Routes /\ Attached
  BY DEF Init, Routes, Route, Attached, At
<1>5. Mutexes
  BY ToSetOfFew DEF Init, Mutexes
<1> QED
  BY <1>1, <1>2, <1>3, <1>4, <1>5 DEF SafeInv

LEMMA InsideHolds ==
  ASSUME NEW t, NEW l, Inside(t, l)
  PROVE  l \in ToSet(held[t])
<1>1. CASE held[t] = <<l>>
  BY <1>1, ToSetOfFew
<1>2. ASSUME l = Root, NEW k, held[t] = <<k, Root>> PROVE l \in ToSet(held[t])
  <2>1. ToSet(<<k, Root>>) = {k, Root}
    BY ToSetOfFew
  <2> QED
    BY <1>2, <2>1
<1> QED
  BY <1>1, <1>2 DEF Inside

\* Who delivers holds the mutex of the logger.
LEMMA DelivererHolds ==
  ASSUME SafeInv, NEW t \in Thread, At(t, "deliver")
  PROVE  cur[t] \in Logger /\ cur[t] \in made /\ mutex[cur[t]] = t
<1>1. Route(t) /\ cur[t] \in made /\ made \subseteq Logger
  BY DEF SafeInv, Routes, Route, Objects, At
<1> QED
  BY <1>1, InsideHolds DEF Route, SafeInv, Mutexes

\* A change of the loggers, as those who log see it.
Effect ==
  /\ UNCHANGED <<mutex, calls, history>>
  /\ made \subseteq made' /\ Objects' /\ Formats' /\ changes' \in Nat
  /\ \A k \in Logger : mutex[k] # Null => appenders'[k] = appenders[k]

LEMMA EffectSafeInv ==
  ASSUME SafeInv, ~Failed, Effect
  PROVE  SafeInv'
<1>1. Typed' /\ Mutexes'
  BY DEF SafeInv, Effect, Typed, Mutexes, calls, history
<1>2. Routes'
  <2> SUFFICES ASSUME NEW t \in Thread PROVE Route(t)'
    BY DEF Routes
  <2>1. Route(t) /\ ~At(t, "failed")
    BY DEF SafeInv, Routes, Failed
  <2>2. UNCHANGED <<place, held, cur, event, todo>> /\ made \subseteq made'
    BY DEF Effect, calls
  <2> QED
    BY <2>1, <2>2 DEF Route, At, CameTo, Inside
<1>3. Attached'
  <2> SUFFICES ASSUME NEW t \in Thread, At(t, "deliver")
               PROVE  ToSet(todo[t]) \subseteq ToSet(appenders'[cur[t]])
    BY DEF Attached, Effect, calls, At
  <2>1. cur[t] \in Logger /\ mutex[cur[t]] # Null
    BY DelivererHolds, LoggerAssumption
  <2> QED
    BY <2>1 DEF Effect, SafeInv, Attached
<1> QED
  BY <1>1, <1>2, <1>3 DEF SafeInv, Effect

LEMMA AnyWithFormatter ==
  ASSUME FormatterTyped, Formats, NEW s, NEW l \in Logger
  PROVE  /\ WithFormatter(s, formatter[l]) \in [Logger \cup Appender -> Formatter \cup {Null}]
         /\ \A x \in Logger \cup Appender :
              (formatter[x] # Null \/ x \in s) => WithFormatter(s, formatter[l])[x] # Null
BY DEF FormatterTyped, Formats, WithFormatter

LEMMA ChangeEffect ==
  ASSUME SafeInv, NEW t \in Thread, NEW l \in Logger,
         \/ \E grd \in Levels : SetLevel(t, l, grd)
         \/ \E f \in Formatter : SetFormatter(t, l, f) \/ SetPattern(t, l, f)
         \/ GetLogger(t, l) \/ ClearAppender(t, l)
         \/ \E a \in Appender :
              GetFileLogger(t, l, a) \/ AddAppender(t, l, a) \/ DelAppender(t, l, a)
  PROVE  Effect
<1>0. Objects /\ Formats /\ FormatterTyped /\ changes \in Nat
  BY DEF SafeInv, Objects, Typed
<1>1. ASSUME NEW grd \in Levels, SetLevel(t, l, grd) PROVE Effect
  BY <1>0, <1>1 DEF SetLevel, Change, Effect, Objects, Formats, calls, FormatterTyped
<1>2. ASSUME NEW f \in Formatter, SetFormatter(t, l, f) PROVE Effect
  <2> DEFINE w == WithFormatter(ToSet(appenders[l]), f)
  <2>1. /\ w \in [Logger \cup Appender -> Formatter \cup {Null}]
        /\ \A x \in Logger \cup Appender : formatter[x] # Null => w[x] # Null
    BY <1>0, WithFormatterType
  <2>2. /\ formatter' = [w EXCEPT ![l] = f] /\ changes' = changes + 1
        /\ UNCHANGED <<made, root, level, appenders, mutex, calls, history>>
    BY <1>2 DEF SetFormatter, Locked, Change
  <2> HIDE DEF w
  <2>3. /\ formatter' \in [Logger \cup Appender -> Formatter \cup {Null}]
        /\ \A x \in Logger \cup Appender : formatter[x] # Null => formatter'[x] # Null
    BY <2>1, <2>2, LoggerAssumption
  <2>4. Objects'
    BY <1>0, <2>2, <2>3 DEF Objects, FormatterTyped, calls
  <2>5. \A k \in Logger : ToSet(appenders[k]) \subseteq Appender
    BY <1>0, ToSetInSeq DEF Objects
  <2>6. Formats'
    BY <1>0, <2>2, <2>3, <2>5 DEF Formats
  <2> QED
    BY <1>0, <2>2, <2>4, <2>6 DEF Effect
<1>3. ASSUME NEW f \in Formatter, SetPattern(t, l, f) PROVE Effect
  <2>1. /\ formatter' = [formatter EXCEPT ![l] = f] /\ changes' = changes + 1
        /\ UNCHANGED <<made, root, level, appenders, mutex, calls, history>>
    BY <1>3 DEF SetPattern, Change
  <2>2. /\ formatter' \in [Logger \cup Appender -> Formatter \cup {Null}]
        /\ \A x \in Logger \cup Appender : formatter[x] # Null => formatter'[x] # Null
    BY <1>0, <2>1, LoggerAssumption DEF FormatterTyped
  <2>3. Objects'
    BY <1>0, <2>1, <2>2 DEF Objects, FormatterTyped, calls
  <2>4. \A k \in Logger : ToSet(appenders[k]) \subseteq Appender
    BY <1>0, ToSetInSeq DEF Objects
  <2>5. Formats'
    BY <1>0, <2>1, <2>2, <2>4 DEF Formats
  <2> QED
    BY <1>0, <2>1, <2>3, <2>5 DEF Effect
<1>4. ASSUME l \in Named \ made, root' = RootGiven(l), made' = made \cup {l}
      PROVE  /\ {Root} \cup Own \subseteq made' /\ made' \subseteq Logger
             /\ root' = [k \in Logger |-> IF k \in made' \cap Named THEN Root ELSE Null]
  BY <1>0, <1>4 DEF Objects, RootGiven
<1>5. CASE GetLogger(t, l)
  <2>1. Objects'
    BY <1>0, <1>4, <1>5 DEF GetLogger, Objects, calls, FormatterTyped
  <2> QED
    BY <1>0, <1>5, <2>1 DEF GetLogger, Locked, Change, Effect, Formats
<1>6. CASE ClearAppender(t, l)
  <2>1. /\ appenders' = [appenders EXCEPT ![l] = <<>>] /\ mutex[l] = Null
        /\ UNCHANGED <<made, root, level, formatter, mutex, calls, history>>
        /\ changes' = changes + 1
    BY <1>6 DEF ClearAppender, Locked, Change
  <2>2. appenders' \in [Logger -> Seq(Appender)]
    BY <1>0, <2>1 DEF Objects
  <2>3. Objects'
    BY <1>0, <2>1, <2>2 DEF Objects, calls, FormatterTyped
  <2>4. \A k \in Logger : ToSet(appenders'[k]) \subseteq ToSet(appenders[k])
    BY <1>0, <2>1, ToSetOfFew DEF Objects
  <2>5. Formats'
    BY <1>0, <2>1, <2>4 DEF Formats
  <2>6. \A k \in Logger : mutex[k] # Null => appenders'[k] = appenders[k]
    BY <1>0, <2>1 DEF Objects
  <2> QED
    BY <1>0, <2>1, <2>3, <2>5, <2>6 DEF Effect
<1>7. ASSUME NEW a \in Appender, GetFileLogger(t, l, a) PROVE Effect
  <2>1. /\ appenders' = [appenders EXCEPT ![l] = <<a>>] /\ mutex[l] = Null
        /\ formatter' = WithFormatter({a}, formatter[l])
        /\ l \in Named \ made /\ root' = RootGiven(l) /\ made' = made \cup {l}
        /\ UNCHANGED <<level, mutex, calls, history>>
        /\ changes' = changes + 1
    BY <1>7 DEF GetFileLogger, Locked, Change
  <2>2. appenders' \in [Logger -> Seq(Appender)]
    BY <1>0, <2>1 DEF Objects
  <2>3. /\ formatter' \in [Logger \cup Appender -> Formatter \cup {Null}]
        /\ \A x \in Logger \cup Appender : formatter[x] # Null \/ x = a => formatter'[x] # Null
    <3>1. /\ WithFormatter({a}, formatter[l]) \in [Logger \cup Appender -> Formatter \cup {Null}]
          /\ \A x \in Logger \cup Appender :
               (formatter[x] # Null \/ x \in {a}) => WithFormatter({a}, formatter[l])[x] # Null
      BY <1>0, AnyWithFormatter
    <3> QED
      BY <2>1, <3>1
  <2>4. Objects'
    BY <1>0, <1>4, <2>1, <2>2, <2>3 DEF Objects, calls, FormatterTyped
  <2>5. \A k \in Logger : ToSet(appenders'[k]) \subseteq ToSet(appenders[k]) \cup {a}
    BY <1>0, <2>1, ToSetOfFew DEF Objects
  <2>6. \A k \in Logger : ToSet(appenders[k]) \subseteq Appender
    BY <1>0, ToSetInSeq DEF Objects
  <2>7. Formats'
    BY <1>0, <2>3, <2>5, <2>6 DEF Formats
  <2>8. \A k \in Logger : mutex[k] # Null => appenders'[k] = appenders[k]
    BY <1>0, <2>1 DEF Objects
  <2> QED
    BY <1>0, <2>1, <2>4, <2>7, <2>8 DEF Effect
<1>8. ASSUME NEW a \in Appender, AddAppender(t, l, a) PROVE Effect
  <2>1. /\ appenders' = [appenders EXCEPT ![l] = Append(appenders[l], a)] /\ mutex[l] = Null
        /\ formatter' = WithFormatter({a}, formatter[l])
        /\ UNCHANGED <<made, root, level, mutex, calls, history>>
        /\ changes' = changes + 1
    BY <1>8 DEF AddAppender, Locked, Change
  <2>2. appenders[l] \in Seq(Appender) /\ Append(appenders[l], a) \in Seq(Appender)
    BY <1>0 DEF Objects
  <2>3. appenders' \in [Logger -> Seq(Appender)]
    BY <1>0, <2>1, <2>2 DEF Objects
  <2>4. /\ formatter' \in [Logger \cup Appender -> Formatter \cup {Null}]
        /\ \A x \in Logger \cup Appender : formatter[x] # Null \/ x = a => formatter'[x] # Null
    <3>1. /\ WithFormatter({a}, formatter[l]) \in [Logger \cup Appender -> Formatter \cup {Null}]
          /\ \A x \in Logger \cup Appender :
               (formatter[x] # Null \/ x \in {a}) => WithFormatter({a}, formatter[l])[x] # Null
      BY <1>0, AnyWithFormatter
    <3> QED
      BY <2>1, <3>1
  <2>5. Objects'
    BY <1>0, <2>1, <2>3, <2>4 DEF Objects, calls, FormatterTyped
  <2>6. \A k \in Logger : ToSet(appenders'[k]) \subseteq ToSet(appenders[k]) \cup {a}
    BY <1>0, <2>1, <2>2, ToSetAppend DEF Objects
  <2>7. \A k \in Logger : ToSet(appenders[k]) \subseteq Appender
    BY <1>0, ToSetInSeq DEF Objects
  <2>8. Formats'
    BY <1>0, <2>4, <2>6, <2>7 DEF Formats
  <2>9. \A k \in Logger : mutex[k] # Null => appenders'[k] = appenders[k]
    BY <1>0, <2>1 DEF Objects
  <2> QED
    BY <1>0, <2>1, <2>5, <2>8, <2>9 DEF Effect
<1>9. ASSUME NEW a \in Appender, DelAppender(t, l, a) PROVE Effect
  <2>1. /\ appenders' = [appenders EXCEPT ![l] = RemoveFirst(appenders[l], a)] /\ mutex[l] = Null
        /\ UNCHANGED <<made, root, level, formatter, mutex, calls, history>>
        /\ changes' = changes + 1
    BY <1>9 DEF DelAppender, Locked, Change
  <2>2. /\ RemoveFirst(appenders[l], a) \in Seq(Appender)
        /\ ToSet(RemoveFirst(appenders[l], a)) \subseteq ToSet(appenders[l])
    BY <1>0, RemoveFirstSeq DEF Objects
  <2>3. appenders' \in [Logger -> Seq(Appender)]
    BY <1>0, <2>1, <2>2 DEF Objects
  <2>4. Objects'
    BY <1>0, <2>1, <2>3 DEF Objects, calls, FormatterTyped
  <2>5. \A k \in Logger : ToSet(appenders'[k]) \subseteq ToSet(appenders[k])
    BY <1>0, <2>1, <2>2 DEF Objects
  <2>6. Formats'
    BY <1>0, <2>1, <2>5 DEF Formats
  <2>7. \A k \in Logger : mutex[k] # Null => appenders'[k] = appenders[k]
    BY <1>0, <2>1 DEF Objects
  <2> QED
    BY <1>0, <2>1, <2>4, <2>6, <2>7 DEF Effect
<1> QED
  BY <1>1, <1>2, <1>3, <1>5, <1>6, <1>7, <1>8, <1>9

\* A step of t in log(): the others stand where they stood.
Frame(t) ==
  /\ UNCHANGED <<made, root, level, appenders, formatter, changes>>
  /\ \A u \in Thread \ {t} :
       /\ place'[u] = place[u] /\ held'[u] = held[u] /\ cur'[u] = cur[u]
       /\ event'[u] = event[u] /\ todo'[u] = todo[u]

LEMMA FrameSafeInv ==
  ASSUME SafeInv, ~Failed, NEW t \in Thread, Frame(t), Typed', Mutexes', Route(t)',
         mutex' \in [Logger -> Thread \cup {Null}],
         place' \in [Thread -> {"idle", "enter", "lock", "deliver", "return", "failed"}],
         place'[t] = "deliver" => ToSet(todo'[t]) \subseteq ToSet(appenders[cur'[t]])
  PROVE  SafeInv'
<1>1. Objects' /\ Formats'
  BY DEF SafeInv, Objects, FormatterTyped, Formats, Frame
<1>2. ASSUME NEW u \in Thread \ {t} PROVE Route(u)'
  <2>1. Route(u) /\ ~At(u, "failed")
    BY DEF SafeInv, Routes, Failed
  <2>2. /\ place'[u] = place[u] /\ held'[u] = held[u] /\ cur'[u] = cur[u]
        /\ event'[u] = event[u] /\ todo'[u] = todo[u] /\ made' = made
    BY DEF Frame
  <2> QED
    BY <2>1, <2>2 DEF Route, At, CameTo, Inside
<1>3. Routes'
  BY <1>2 DEF Routes
<1>4. Attached'
  BY DEF Attached, SafeInv, Frame, At
<1> QED
  BY <1>1, <1>3, <1>4 DEF SafeInv

\* The mutex of l is taken.
LEMMA LockMutexes ==
  ASSUME SafeInv, NEW t \in Thread, NEW l \in Logger, LockMutex(t, l)
  PROVE  /\ Mutexes' /\ held' \in [Thread -> Seq(Logger)]
         /\ mutex' \in [Logger -> Thread \cup {Null}]
         /\ held'[t] = Append(held[t], l)
         /\ \A u \in Thread \ {t} : held'[u] = held[u]
<1>1. held \in [Thread -> Seq(Logger)] /\ mutex \in [Logger -> Thread \cup {Null}] /\ Mutexes
  BY DEF SafeInv, Typed, Objects
<1>2. /\ mutex[l] = Null /\ mutex' = [mutex EXCEPT ![l] = t]
      /\ held' = [held EXCEPT ![t] = Append(held[t], l)]
  BY DEF LockMutex
<1>3. Append(held[t], l) \in Seq(Logger) /\ ToSet(Append(held[t], l)) = ToSet(held[t]) \cup {l}
  BY <1>1, ToSetAppend
<1>4. ASSUME NEW k \in Logger, NEW u \in Thread PROVE mutex'[k] = u <=> k \in ToSet(held'[u])
  <2>1. CASE u = t
    BY <1>1, <1>2, <1>3, <2>1 DEF Mutexes
  <2>2. CASE u # t
    BY <1>1, <1>2, <2>2, LoggerAssumption DEF Mutexes
  <2> QED
    BY <2>1, <2>2
<1> QED
  BY <1>1, <1>2, <1>3, <1>4 DEF Mutexes

\* It is given back: the one taken last.
LEMMA UnlockMutexes ==
  ASSUME SafeInv, NEW t \in Thread, At(t, "return"), held[t] # <<>>,
         mutex' = [mutex EXCEPT ![Innermost(t)] = Null],
         held' = [held EXCEPT ![t] = Front(held[t])]
  PROVE  /\ Mutexes' /\ held' \in [Thread -> Seq(Logger)]
         /\ mutex' \in [Logger -> Thread \cup {Null}]
         /\ held'[t] = <<>> \/ \E l \in made : held'[t] = <<l>>
         /\ \A u \in Thread \ {t} : held'[u] = held[u]
<1>1. /\ held \in [Thread -> Seq(Logger)] /\ mutex \in [Logger -> Thread \cup {Null}]
      /\ Mutexes /\ made \subseteq Logger
  BY DEF SafeInv, Typed, Objects
<1>2. PICK l \in made : Inside(t, l)
  BY DEF SafeInv, Routes, Route
<1>3. ASSUME NEW front, NEW last \in Logger, Innermost(t) = last, Front(held[t]) = front,
             front \in Seq(Logger), ToSet(front) = ToSet(held[t]) \ {last},
             last \in ToSet(held[t])
      PROVE  /\ Mutexes' /\ held' \in [Thread -> Seq(Logger)]
             /\ mutex' \in [Logger -> Thread \cup {Null}]
             /\ held'[t] = front
  <2>1. ASSUME NEW k \in Logger, NEW u \in Thread PROVE mutex'[k] = u <=> k \in ToSet(held'[u])
    <3>1. CASE u = t
      BY <1>1, <1>3, <3>1, LoggerAssumption DEF Mutexes
    <3>2. CASE u # t
      BY <1>1, <1>3, <3>2, LoggerAssumption DEF Mutexes
    <3> QED
      BY <3>1, <3>2
  <2> QED
    BY <1>1, <1>3, <2>1 DEF Mutexes
<1>4. CASE held[t] = <<l>>
  <2>1. Last(<<l>>) = l /\ Front(<<l>>) = <<>>
    BY EndOfFew
  <2>2. Innermost(t) = l /\ Front(held[t]) = <<>> /\ <<>> \in Seq(Logger) /\ l \in Logger
    BY <1>1, <1>4, <2>1 DEF Innermost
  <2>3. ToSet(<<>>) = ToSet(held[t]) \ {l} /\ l \in ToSet(held[t])
    BY <1>4, ToSetOfFew
  <2> QED
    BY <1>3, <2>2, <2>3
<1>5. ASSUME NEW k \in made \cap Named, held[t] = <<k, Root>>
      PROVE  /\ Mutexes' /\ held' \in [Thread -> Seq(Logger)]
             /\ mutex' \in [Logger -> Thread \cup {Null}]
             /\ held'[t] = <<k>>
  <2>1. Last(<<k, Root>>) = Root /\ Front(<<k, Root>>) = <<k>>
    BY EndOfFew
  <2>2. Innermost(t) = Root /\ Front(held[t]) = <<k>> /\ k \in Logger /\ <<k>> \in Seq(Logger)
    BY <1>1, <1>5, <2>1 DEF Innermost
  <2>3. ToSet(<<k>>) = {k} /\ ToSet(<<k, Root>>) = {k, Root} /\ k # Root
    BY <1>5, ToSetOfFew, LoggerAssumption
  <2>4. ToSet(<<k>>) = ToSet(held[t]) \ {Root} /\ Root \in ToSet(held[t]) /\ Root \in Logger
    BY <1>5, <2>3 DEF Logger
  <2> QED
    BY <1>3, <2>2, <2>4
<1> QED
  BY <1>1, <1>2, <1>4, <1>5 DEF Inside

LEMMA StepSafeInv ==
  ASSUME SafeInv, ~Failed, NEW t \in Thread, Step(t)
  PROVE  SafeInv'
<1>0. Typed /\ Objects /\ Mutexes /\ Route(t) /\ ~At(t, "failed") /\ made \subseteq Logger
  BY DEF SafeInv, Routes, Failed, Objects
<1> DEFINE p == {"idle", "enter", "lock", "deliver", "return", "failed"}
<1>1. place \in [Thread -> p] /\ mutex \in [Logger -> Thread \cup {Null}]
  BY <1>0 DEF Objects
<1>2. CASE Enter(t)
  <2>1. /\ At(t, "enter") /\ UNCHANGED <<objects, held, cur, event, todo, grade, logged, changes, history>>
        /\ place' = [place EXCEPT ![t] = IF grade[event[t]] >= level[cur[t]] THEN "lock" ELSE "return"]
    BY <1>2 DEF Enter, Goto
  <2>2. Frame(t) /\ place' \in [Thread -> p] /\ place'[t] \in {"lock", "return"}
    BY <1>1, <2>1 DEF Frame, objects
  <2>3. Typed' /\ Mutexes'
    BY <1>0, <2>1 DEF Typed, Mutexes, objects, history
  <2>4. CameTo(t, cur[t])
    BY <1>0, <2>1 DEF Route, At
  <2>5. held[t] = <<>> \/ \E l \in made : held[t] = <<l>>
    BY <2>4 DEF CameTo
  <2>6. Route(t)'
    BY <1>0, <2>1, <2>2, <2>4, <2>5 DEF Route, At, CameTo, Inside, objects
  <2> QED
    BY <1>1, <2>1, <2>2, <2>3, <2>6, FrameSafeInv DEF objects
<1>3. CASE Lock(t)
  <2> DEFINE l == cur[t]
  <2>1. /\ At(t, "lock") /\ LockMutex(t, l)
        /\ todo' = [todo EXCEPT ![t] = appenders[l]]
        /\ source' = [source EXCEPT ![event[t]] = [logger |-> l, to |-> appenders[l]]]
        /\ place' = [place EXCEPT ![t] = "deliver"]
        /\ UNCHANGED <<made, root, level, appenders, formatter, cur, event, grade, logged, changes, seen>>
    BY <1>3 DEF Lock, Goto
  <2>2. l \in made /\ l \in Logger /\ CameTo(t, l) /\ event[t] # 0
    BY <1>0, <2>1 DEF Route, At
  <2>3. /\ Mutexes' /\ held' \in [Thread -> Seq(Logger)]
        /\ mutex' \in [Logger -> Thread \cup {Null}]
        /\ held'[t] = Append(held[t], l)
        /\ \A u \in Thread \ {t} : held'[u] = held[u]
    BY <2>1, <2>2, LockMutexes
  <2>4. Typed'
    <3>1. appenders[l] \in Seq(Appender)
      BY <1>0, <2>2 DEF Objects
    <3>2. todo' \in [Thread -> Seq(Appender)]
      BY <1>0, <2>1, <3>1 DEF Typed
    <3>3. source' \in [Event -> [logger : Logger \cup {Null}, to : Seq(Appender)]]
      BY <1>0, <2>1, <2>2, <3>1 DEF Typed
    <3> QED
      BY <1>0, <2>1, <2>3, <3>2, <3>3 DEF Typed
  <2>5. Frame(t) /\ place' \in [Thread -> p] /\ place'[t] = "deliver" /\ todo'[t] = appenders[l]
    BY <1>0, <1>1, <2>1, <2>3 DEF Frame, Typed
  <2>6. Inside(t, l)'
    <3>1. CASE held[t] = <<>>
      BY <2>1, <2>3, <3>1, AppendToFew DEF Inside
    <3>2. ASSUME l = Root, NEW k \in made \cap Named, held[t] = <<k>> PROVE Inside(t, l)'
      <4>1. Append(<<k>>, Root) = <<k, Root>>
        BY AppendToFew
      <4> QED
        BY <2>1, <2>3, <3>2, <4>1 DEF Inside
    <3> QED
      BY <2>2, <3>1, <3>2 DEF CameTo
  <2>7. Route(t)'
    BY <2>1, <2>2, <2>5, <2>6 DEF Route, At
  <2> QED
    BY <2>1, <2>3, <2>4, <2>5, <2>7, FrameSafeInv
<1>4. CASE Fallback(t)
  <2> DEFINE l == cur[t]
  <2>1. /\ At(t, "lock") /\ LockMutex(t, l) /\ appenders[l] = <<>>
        /\ IF root[l] = Null
           THEN place' = [place EXCEPT ![t] = "failed"] /\ UNCHANGED cur
           ELSE /\ place' = [place EXCEPT ![t] = "enter"]
                /\ cur' = [cur EXCEPT ![t] = root[l]]
        /\ UNCHANGED <<made, root, level, appenders, formatter, event, todo, grade, logged, changes, history>>
    BY <1>4 DEF Fallback, Goto
  <2>2. l \in made /\ l \in Logger /\ CameTo(t, l) /\ event[t] # 0
    BY <1>0, <2>1 DEF Route, At
  <2>3. /\ Mutexes' /\ held' \in [Thread -> Seq(Logger)]
        /\ mutex' \in [Logger -> Thread \cup {Null}]
        /\ held'[t] = Append(held[t], l)
        /\ \A u \in Thread \ {t} : held'[u] = held[u]
    BY <2>1, <2>2, LockMutexes
  <2>4. CASE root[l] = Null
    <3>1. Typed'
      BY <1>0, <2>1, <2>3, <2>4 DEF Typed, history
    <3>2. Frame(t) /\ place' \in [Thread -> p] /\ place'[t] = "failed"
      BY <1>1, <2>1, <2>3, <2>4 DEF Frame
    <3>3. Inside(t, l)'
      <4>1. CASE held[t] = <<>>
        BY <2>1, <2>3, <2>4, <4>1, AppendToFew DEF Inside
      <4>2. ASSUME l = Root, NEW k \in made \cap Named, held[t] = <<k>> PROVE Inside(t, l)'
        <5>1. Append(<<k>>, Root) = <<k, Root>>
          BY AppendToFew
        <5> QED
          BY <2>1, <2>3, <2>4, <4>2, <5>1 DEF Inside
      <4> QED
        BY <2>2, <4>1, <4>2 DEF CameTo
    <3>4. Route(t)'
      BY <1>0, <2>1, <2>2, <2>4, <3>2, <3>3 DEF Route, At
    <3> QED
      BY <2>3, <3>1, <3>2, <3>4, FrameSafeInv
  <2>5. CASE root[l] # Null
    <3>1. root[l] = Root /\ l \in Named /\ l # Root /\ Root \in made
      BY <1>0, <2>2, <2>5, LoggerAssumption DEF Objects
    <3>2. cur' \in [Thread -> Logger \cup {Null}] /\ cur'[t] = Root
          /\ \A u \in Thread \ {t} : cur'[u] = cur[u]
      BY <1>0, <2>1, <2>5, <3>1 DEF Typed, Logger
    <3>3. Typed'
      BY <1>0, <2>1, <2>3, <3>2 DEF Typed, history
    <3>4. Frame(t) /\ place' \in [Thread -> p] /\ place'[t] = "enter"
      BY <1>1, <2>1, <2>3, <2>5, <3>2 DEF Frame
    <3>5. held'[t] = <<l>>
      BY <2>2, <2>3, <3>1, AppendToFew DEF CameTo
    <3>6. Route(t)'
      BY <1>0, <2>1, <2>2, <3>1, <3>2, <3>4, <3>5 DEF Route, At, CameTo
    <3> QED
      BY <2>3, <3>3, <3>4, <3>6, FrameSafeInv
  <2> QED
    BY <2>4, <2>5
<1>5. CASE Deliver(t)
  <2> DEFINE a == Head(todo[t])
             e == event[t]
  <2>1. /\ At(t, "deliver") /\ todo[t] # <<>>
        /\ IF grade[e] >= DEBUG /\ formatter[a] = Null
           THEN Goto(t, "failed") /\ UNCHANGED <<todo, seen>>
           ELSE /\ seen' = IF grade[e] >= DEBUG THEN [seen EXCEPT ![a] = Append(@, e)] ELSE seen
                /\ todo' = [todo EXCEPT ![t] = Tail(@)]
                /\ UNCHANGED place
        /\ UNCHANGED <<objects, held, cur, event, grade, logged, changes, source>>
    BY <1>5 DEF Deliver, Following
  <2>2. /\ todo[t] \in Seq(Appender) /\ e \in Event
        /\ cur[t] \in Logger /\ ToSet(todo[t]) \subseteq ToSet(appenders[cur[t]])
    BY <1>0, <2>1, DelivererHolds DEF Typed, SafeInv, Attached, Route, At
  <2>3. /\ a \in Appender /\ a \in ToSet(appenders[cur[t]])
        /\ Tail(todo[t]) \in Seq(Appender)
        /\ ToSet(Tail(todo[t])) \subseteq ToSet(appenders[cur[t]])
    BY <2>1, <2>2, ToSetTail
  <2>4. formatter[a] # Null
    BY <2>2, <2>3 DEF SafeInv, Formats
  <2>5. /\ seen' = IF grade[e] >= DEBUG THEN [seen EXCEPT ![a] = Append(@, e)] ELSE seen
        /\ todo' = [todo EXCEPT ![t] = Tail(todo[t])]
        /\ UNCHANGED place
    BY <2>1, <2>4
  <2>6. Typed'
    <3>1. seen' \in [Appender -> Seq(Event)]
      <4>1. Append(seen[a], e) \in Seq(Event)
        BY <1>0, <2>2, <2>3 DEF Typed
      <4> QED
        BY <1>0, <2>5, <4>1 DEF Typed
    <3>2. todo' \in [Thread -> Seq(Appender)]
      BY <1>0, <2>3, <2>5 DEF Typed
    <3> QED
      BY <1>0, <2>1, <3>1, <3>2 DEF Typed
  <2>7. Frame(t) /\ Mutexes' /\ todo'[t] = Tail(todo[t])
    BY <1>0, <2>1, <2>5 DEF Frame, Mutexes, objects, Typed
  <2>8. Route(t)'
    BY <1>0, <2>1, <2>5 DEF Route, At, Inside, objects
  <2> QED
    BY <1>1, <2>1, <2>3, <2>5, <2>6, <2>7, <2>8, FrameSafeInv DEF objects
<1>6. CASE Delivered(t)
  <2>1. /\ At(t, "deliver") /\ todo[t] = <<>> /\ place' = [place EXCEPT ![t] = "return"]
        /\ UNCHANGED <<objects, held, cur, event, todo, grade, logged, changes, history>>
    BY <1>6 DEF Delivered, Goto
  <2>2. Frame(t) /\ place' \in [Thread -> p] /\ place'[t] = "return"
    BY <1>1, <2>1 DEF Frame, objects
  <2>3. Typed' /\ Mutexes'
    BY <1>0, <2>1 DEF Typed, Mutexes, objects, history
  <2>4. Route(t)'
    BY <1>0, <2>1, <2>2 DEF Route, At, Inside, objects
  <2> QED
    BY <1>1, <2>1, <2>2, <2>3, <2>4, FrameSafeInv DEF objects
<1>7. CASE Return(t)
  <2>1. /\ At(t, "return")
        /\ UNCHANGED <<made, root, level, appenders, formatter, todo, grade, logged, changes, history>>
    BY <1>7 DEF Return
  <2>2. CASE held[t] # <<>>
    <3>1. /\ mutex' = [mutex EXCEPT ![Innermost(t)] = Null]
          /\ held' = [held EXCEPT ![t] = Front(held[t])]
          /\ UNCHANGED <<place, event, cur>>
      BY <1>7, <2>2 DEF Return
    <3>2. /\ Mutexes' /\ held' \in [Thread -> Seq(Logger)]
          /\ mutex' \in [Logger -> Thread \cup {Null}]
          /\ held'[t] = <<>> \/ \E l \in made : held'[t] = <<l>>
          /\ \A u \in Thread \ {t} : held'[u] = held[u]
      BY <2>1, <2>2, <3>1, UnlockMutexes
    <3>3. Typed' /\ Frame(t)
      BY <1>0, <2>1, <3>1, <3>2 DEF Typed, Frame, history
    <3>4. Route(t)'
      BY <1>0, <2>1, <3>1, <3>2 DEF Route, At, Inside
    <3> QED
      BY <1>1, <2>1, <3>1, <3>2, <3>3, <3>4, FrameSafeInv DEF At
  <2>3. CASE held[t] = <<>>
    <3>1. /\ place' = [place EXCEPT ![t] = "idle"]
          /\ event' = [event EXCEPT ![t] = 0] /\ cur' = [cur EXCEPT ![t] = Null]
          /\ UNCHANGED <<mutex, held>>
      BY <1>7, <2>3 DEF Return, Goto
    <3>2. Typed' /\ Mutexes'
      BY <1>0, <2>1, <3>1 DEF Typed, Mutexes, history
    <3>3. Frame(t) /\ place' \in [Thread -> p] /\ place'[t] = "idle" /\ event'[t] = 0
      BY <1>0, <1>1, <2>1, <3>1 DEF Frame, Typed
    <3>4. Route(t)'
      BY <1>0, <2>1, <2>3, <3>1, <3>3 DEF Route, At
    <3> QED
      BY <1>1, <3>1, <3>2, <3>3, <3>4, FrameSafeInv
  <2> QED
    BY <2>2, <2>3
<1> QED
  BY <1>2, <1>3, <1>4, <1>5, <1>6, <1>7 DEF Step

LEMMA BeginSafeInv ==
  ASSUME SafeInv, ~Failed, NEW t \in Thread, NEW l \in Logger, NEW grd \in Levels,
         Begin(t, l, grd)
  PROVE  SafeInv'
<1>0. Typed /\ Objects /\ Mutexes /\ Route(t)
  BY DEF SafeInv, Routes
<1>1. /\ At(t, "idle") /\ l \in made /\ logged < MaxEvents /\ logged' = logged + 1
      /\ grade' = [grade EXCEPT ![logged'] = grd]
      /\ event' = [event EXCEPT ![t] = logged']
      /\ cur' = [cur EXCEPT ![t] = l]
      /\ place' = [place EXCEPT ![t] = "enter"]
      /\ UNCHANGED <<objects, held, todo, changes, history>>
  BY DEF Begin, Goto
<1>2. logged' \in 0..MaxEvents /\ logged' \in Event /\ logged' # 0
  BY <1>0, <1>1, LoggerAssumption DEF Typed, Event
<1>3. Typed'
  BY <1>0, <1>1, <1>2 DEF Typed, history
<1>4. /\ Frame(t) /\ Mutexes' /\ place'[t] = "enter" /\ event'[t] = logged' /\ cur'[t] = l
      /\ place' \in [Thread -> {"idle", "enter", "lock", "deliver", "return", "failed"}]
  BY <1>0, <1>1 DEF Frame, Typed, Objects, Mutexes, objects
<1>5. Route(t)'
  BY <1>0, <1>1, <1>2, <1>4 DEF Route, At, CameTo, objects
<1> QED
  BY <1>0, <1>1, <1>3, <1>4, <1>5, FrameSafeInv DEF objects, Objects

LEMMA NextSafeInv == SafeInv /\ [Next]_vars => SafeInv'
<1> SUFFICES ASSUME SafeInv, [Next]_vars PROVE SafeInv'
  OBVIOUS
<1>1. CASE Next
  <2> SUFFICES ASSUME ~Failed, NEW t \in Thread, Step(t) \/ Call(t) PROVE SafeInv'
    BY <1>1 DEF Next
  <2>1. CASE Call(t)
    <3> SUFFICES ASSUME NEW l \in Logger,
                        \/ \E grd \in Levels : Begin(t, l, grd) \/ SetLevel(t, l, grd)
                        \/ \E f \in Formatter : SetFormatter(t, l, f) \/ SetPattern(t, l, f)
                        \/ GetLogger(t, l) \/ ClearAppender(t, l)
                        \/ \E a \in Appender :
                             GetFileLogger(t, l, a) \/ AddAppender(t, l, a) \/ DelAppender(t, l, a)
                 PROVE  SafeInv'
      BY <2>1 DEF Call
    <3>1. CASE \E grd \in Levels : Begin(t, l, grd)
      BY <3>1, BeginSafeInv
    <3>2. CASE ~\E grd \in Levels : Begin(t, l, grd)
      <4>1. Effect
        BY <3>2, ChangeEffect
      <4> QED
        BY <4>1, EffectSafeInv
    <3> QED
      BY <3>1, <3>2
  <2> QED
    BY <2>1, StepSafeInv
<1>2. CASE UNCHANGED vars
  <2>1. UNCHANGED <<objects, calls, changes, history>>
    BY <1>2 DEF vars
  <2>2. Typed' /\ Objects'
    BY <2>1 DEF SafeInv, Typed, Objects, FormatterTyped, objects, calls, history
  <2>3. Formats' /\ Routes' /\ Mutexes' /\ Attached'
    BY <2>1 DEF SafeInv, Formats, Routes, Route, CameTo, Inside, At, Mutexes, Attached, objects,
                calls
  <2> QED
    BY <2>2, <2>3 DEF SafeInv
<1> QED
  BY <1>1, <1>2

LEMMA SafeInvariance == Spec => []SafeInv
BY InitSafeInv, NextSafeInv, PTL DEF Spec

\* What a thread holds, and in what order.
LEMMA HeldShape ==
  ASSUME SafeInv, NEW t \in Thread
  PROVE  \/ held[t] = <<>>
         \/ \E l \in made : held[t] = <<l>>
         \/ \E k \in made \ {Root} : held[t] = <<k, Root>>
<1>1. Route(t) /\ Root \in made
  BY DEF SafeInv, Routes, Objects
<1>2. place[t] \in {"idle", "enter", "lock", "deliver", "return", "failed"}
  BY DEF SafeInv, Objects
<1>3. Root \notin Named
  BY LoggerAssumption
<1> QED
  BY <1>1, <1>2, <1>3 DEF Route, At, CameTo, Inside

LEMMA SafeInvTypeOK == SafeInv => TypeOK
<1> SUFFICES ASSUME SafeInv PROVE TypeOK
  OBVIOUS
<1>1. Objects /\ Routes /\ Mutexes /\ Root \in made
  BY DEF SafeInv, Objects
<1>2. ASSUME NEW t \in Thread
      PROVE  held[t] \in Seq(made) /\ Len(held[t]) <= 2 /\ IsInjective(held[t])
  <2>1. CASE held[t] = <<>>
    BY <2>1 DEF IsInjective
  <2>2. ASSUME NEW l \in made, held[t] = <<l>>
        PROVE  held[t] \in Seq(made) /\ Len(held[t]) <= 2 /\ IsInjective(held[t])
    BY <2>2 DEF IsInjective
  <2>3. ASSUME NEW k \in made \ {Root}, held[t] = <<k, Root>>
        PROVE  held[t] \in Seq(made) /\ Len(held[t]) <= 2 /\ IsInjective(held[t])
    <3>1. /\ <<k, Root>> \in Seq(made) /\ Len(<<k, Root>>) = 2 /\ DOMAIN <<k, Root>> = {1, 2}
          /\ <<k, Root>>[1] = k /\ <<k, Root>>[2] = Root
      BY <1>1
    <3> QED
      BY <2>3, <3>1 DEF IsInjective
  <2> QED
    BY <2>1, <2>2, <2>3, HeldShape
<1>3. \A t \in Thread : (At(t, "idle") => held[t] = <<>>) /\ (todo[t] # <<>> => At(t, "deliver"))
  BY <1>1 DEF Routes, Route
<1>4. \A l \in Logger : mutex[l] = Null \/ l \in ToSet(held[mutex[l]])
  BY <1>1 DEF Mutexes, Objects
<1>5. root \in [Logger -> {Root, Null}]
  BY <1>1 DEF Objects
<1> QED
  BY <1>1, <1>2, <1>3, <1>4, <1>5 DEF TypeOK, Objects, FormatterTyped, At

\* Loggers, appenders and mutexes stay typed whatever threads log, set, add and remove: a
\* thread in log() holds two mutexes at most, the root logger's behind another one's, and
\* a mutex that is taken is given back by the thread that took it.
THEOREM TypeCorrect == Spec => []TypeOK
BY SafeInvariance, SafeInvTypeOK, PTL

LEMMA SafeInvFails == SafeInv => FailsOnlyWithoutRoot
<1> SUFFICES ASSUME SafeInv, NEW t \in Thread, At(t, "failed")
             PROVE  Last(held[t]) \in Own \cup {Root} /\ appenders[Last(held[t])] = <<>>
  BY DEF FailsOnlyWithoutRoot
<1>1. /\ Inside(t, cur[t]) /\ root[cur[t]] = Null /\ appenders[cur[t]] = <<>>
      /\ cur[t] \in made /\ made \subseteq Logger
  BY DEF SafeInv, Routes, Route, Objects, At
<1>2. cur[t] \in Own \cup {Root}
  BY <1>1, LoggerAssumption DEF SafeInv, Objects, Logger
<1>3. Last(held[t]) = cur[t]
  <2>1. CASE held[t] = <<cur[t]>>
    BY <2>1, EndOfFew
  <2>2. ASSUME cur[t] = Root, NEW k, held[t] = <<k, Root>> PROVE Last(held[t]) = cur[t]
    <3>1. Last(<<k, Root>>) = Root
      BY EndOfFew
    <3> QED
      BY <2>2, <3>1
  <2> QED
    BY <1>1, <2>1, <2>2 DEF Inside
<1> QED
  BY <1>1, <1>2, <1>3

\* Logger::log() goes through a null pointer only on a logger that has neither appenders
\* nor a root: one its user constructed, or the root logger itself. A logger of the manager
\* never does, and no appender is handed an event without a formatter.
THEOREM FailsOnlyOnBareLoggers == Spec => []FailsOnlyWithoutRoot
BY SafeInvariance, SafeInvFails, PTL

\* What an appender puts out, it puts out on behalf of a logger it is on the list of.
SilentStep == \A a \in Appender : seen'[a] # seen[a] => \E l \in Logger : a \in ToSet(appenders[l])

LEMMA DeliverIsAttached ==
  ASSUME SafeInv, NEW t \in Thread, Deliver(t)
  PROVE  SilentStep
<1>1. At(t, "deliver") /\ todo[t] # <<>> /\ cur[t] \in Logger
  BY DelivererHolds DEF Deliver
<1>2. todo[t] \in Seq(Appender) /\ ToSet(todo[t]) \subseteq ToSet(appenders[cur[t]])
  BY <1>1 DEF SafeInv, Typed, Attached
<1>3. Head(todo[t]) \in ToSet(appenders[cur[t]])
  BY <1>1, <1>2, ToSetTail
<1>4. \A a \in Appender \ {Head(todo[t])} : seen'[a] = seen[a]
  <2>1. seen' = seen \/ seen' = [seen EXCEPT ![Head(todo[t])] = Append(@, event[t])]
    BY DEF Deliver
  <2> QED
    BY <2>1 DEF SafeInv, Typed
<1> QED
  BY <1>1, <1>3, <1>4 DEF SilentStep

LEMMA NextSilent == SafeInv /\ [Next]_vars => [SilentStep]_vars
<1> SUFFICES ASSUME SafeInv, NEW t \in Thread, Step(t) \/ Call(t) PROVE SilentStep
  BY DEF Next
<1>1. CASE Deliver(t)
  BY <1>1, DeliverIsAttached
<1>2. CASE Enter(t) \/ Lock(t) \/ Fallback(t) \/ Delivered(t) \/ Return(t)
  BY <1>2 DEF Enter, Lock, Fallback, Delivered, Return, history, SilentStep
<1>3. CASE Call(t)
  <2>1. UNCHANGED seen
    BY <1>3 DEF Call, Begin, SetLevel, SetFormatter, SetPattern, GetLogger, ClearAppender,
                GetFileLogger, AddAppender, DelAppender, history
  <2> QED
    BY <2>1 DEF SilentStep
<1> QED
  BY <1>1, <1>2, <1>3 DEF Step

\* delAppender() and clearAppender(): an appender that is on no logger's list puts nothing
\* out, not even an event that was being handed out when it was taken off - for any number
\* of threads that log and change loggers meanwhile.
THEOREM SilentOnceRemoved == Spec => SilentAfterRemoval
BY SafeInvariance, NextSilent, PTL DEF Spec, SilentAfterRemoval, SilentStep

-----------------------------------------------------------------------------
(* Formats.                                                                *)

\* An appender keeps the formatter it was given when it was first added, and has put
\* nothing out in another.
FormatInv ==
  /\ shown \in [Appender -> SUBSET Formatter]
  /\ first \in [Appender -> Formatter \cup {Null}]
  /\ \A a \in Appender : first[a] = formatter[a] /\ shown[a] \subseteq {formatter[a]} \ {Null}

LEMMA InitFormatInv == Init => FormatInv
<1> SUFFICES ASSUME Init PROVE FormatInv
  OBVIOUS
<1>1. \A a \in Appender : a \notin Logger
  BY LoggerAssumption DEF Logger
<1>2. \A a \in Appender : first[a] = formatter[a] /\ shown[a] = {}
  BY <1>1 DEF Init
<1>3. shown \in [Appender -> SUBSET Formatter] /\ first \in [Appender -> Formatter \cup {Null}]
  BY LoggerAssumption DEF Init
<1> QED
  BY <1>2, <1>3 DEF FormatInv

LEMMA DeliverFormatInv ==
  ASSUME SafeInv, FormatInv, NEW t \in Thread, Deliver(t)
  PROVE  FormatInv'
<1> DEFINE a == Head(todo[t])
<1>1. UNCHANGED <<formatter, first>>
  BY DEF Deliver, objects
<1>2. \/ UNCHANGED shown
      \/ formatter[a] # Null /\ shown' = [shown EXCEPT ![a] = @ \cup {formatter[a]}]
  BY DEF Deliver
<1>3. formatter \in [Logger \cup Appender -> Formatter \cup {Null}]
  BY DEF SafeInv, Objects, FormatterTyped
<1> HIDE DEF a
<1>4. CASE UNCHANGED shown
  BY <1>1, <1>4 DEF FormatInv
<1>5. CASE a \notin Appender
  BY <1>1, <1>2, <1>5 DEF FormatInv
<1>6. CASE /\ a \in Appender /\ formatter[a] # Null
           /\ shown' = [shown EXCEPT ![a] = @ \cup {formatter[a]}]
  <2>1. formatter[a] \in Formatter
    BY <1>3, <1>6
  <2>2. shown' \in [Appender -> SUBSET Formatter]
    BY <1>6, <2>1 DEF FormatInv
  <2>3. \A b \in Appender : shown'[b] \subseteq {formatter[b]} \ {Null}
    BY <1>6 DEF FormatInv
  <2> QED
    BY <1>1, <2>2, <2>3 DEF FormatInv
<1> QED
  BY <1>2, <1>4, <1>5, <1>6

\* Adding an appender: it is given the logger's format if it has none.
LEMMA AddFormatInv ==
  ASSUME SafeInv, FormatInv, NEW l \in Logger, NEW a \in Appender,
         formatter' = WithFormatter({a}, formatter[l]), first' = FirstOf(a, l), UNCHANGED shown
  PROVE  FormatInv'
<1>1. /\ formatter \in [Logger \cup Appender -> Formatter \cup {Null}]
      /\ formatter[l] \in Formatter \cup {Null}
  BY DEF SafeInv, Objects, FormatterTyped
<1>2. \A b \in Appender : formatter'[b] = IF b = a /\ formatter[b] = Null THEN formatter[l]
                                         ELSE formatter[b]
  BY <1>1 DEF WithFormatter
<1>3. /\ first' \in [Appender -> Formatter \cup {Null}]
      /\ \A b \in Appender : first'[b] = formatter'[b]
  BY <1>1, <1>2 DEF FormatInv, FirstOf
<1>4. \A b \in Appender : shown[b] \subseteq {formatter'[b]} \ {Null}
  BY <1>2 DEF FormatInv
<1> QED
  BY <1>3, <1>4 DEF FormatInv

\* Setting a logger's format: every appender on a list has a formatter already, and no
\* other is reached.
LEMMA SetFormatInv ==
  ASSUME SafeInv, FormatInv, NEW t \in Thread, NEW l \in Logger, NEW f \in Formatter,
         SetFormatter(t, l, f) \/ SetPattern(t, l, f)
  PROVE  FormatInv'
<1>1. \A a \in Appender : a # l
  BY LoggerAssumption DEF Logger
<1>2. formatter \in [Logger \cup Appender -> Formatter \cup {Null}]
  BY DEF SafeInv, Objects, FormatterTyped
<1>3. \A a \in ToSet(appenders[l]) : formatter[a] # Null
  BY DEF SafeInv, Formats
<1>4. \A a \in Appender : formatter'[a] = formatter[a]
  <2>1. CASE SetFormatter(t, l, f)
    <3>1. formatter' = [WithFormatter(ToSet(appenders[l]), f) EXCEPT ![l] = f]
      BY <2>1 DEF SetFormatter
    <3>2. \A a \in Appender : WithFormatter(ToSet(appenders[l]), f)[a] = formatter[a]
      BY <1>2, <1>3 DEF WithFormatter
    <3>3. WithFormatter(ToSet(appenders[l]), f) \in [Logger \cup Appender -> Formatter \cup {Null}]
      BY <1>2 DEF WithFormatter
    <3> QED
      BY <1>1, <3>1, <3>2, <3>3
  <2>2. CASE SetPattern(t, l, f)
    BY <1>1, <1>2, <2>2 DEF SetPattern
  <2> QED
    BY <2>1, <2>2
<1>5. UNCHANGED <<shown, first>>
  BY DEF SetFormatter, SetPattern, formats
<1> QED
  BY <1>4, <1>5 DEF FormatInv

LEMMA NextFormatInv == SafeInv /\ FormatInv /\ [Next]_vars => FormatInv'
<1> SUFFICES ASSUME SafeInv, FormatInv, [Next]_vars PROVE FormatInv'
  OBVIOUS
<1>1. ASSUME UNCHANGED <<formatter, formats>> PROVE FormatInv'
  BY <1>1 DEF FormatInv, formats
<1>2. CASE UNCHANGED vars
  BY <1>1, <1>2 DEF vars, objects
<1>3. ASSUME NEW t \in Thread, Step(t) PROVE FormatInv'
  <2>1. CASE Deliver(t)
    BY <2>1, DeliverFormatInv
  <2>2. CASE Enter(t) \/ Lock(t) \/ Fallback(t) \/ Delivered(t) \/ Return(t)
    BY <1>1, <2>2 DEF Enter, Lock, Fallback, Delivered, Return, objects
  <2> QED
    BY <1>3, <2>1, <2>2 DEF Step
<1>4. ASSUME NEW t \in Thread, Call(t) PROVE FormatInv'
  <2>1. PICK l \in Logger :
          \/ \E grd \in Levels : Begin(t, l, grd) \/ SetLevel(t, l, grd)
          \/ \E f \in Formatter : SetFormatter(t, l, f) \/ SetPattern(t, l, f)
          \/ GetLogger(t, l) \/ ClearAppender(t, l)
          \/ \E a \in Appender :
               GetFileLogger(t, l, a) \/ AddAppender(t, l, a) \/ DelAppender(t, l, a)
    BY <1>4 DEF Call
  <2>2. CASE \E f \in Formatter : SetFormatter(t, l, f) \/ SetPattern(t, l, f)
    BY <2>2, SetFormatInv
  <2>3. ASSUME NEW a \in Appender, GetFileLogger(t, l, a) \/ AddAppender(t, l, a)
        PROVE  FormatInv'
    <3>1. formatter' = WithFormatter({a}, formatter[l]) /\ first' = FirstOf(a, l) /\ UNCHANGED shown
      BY <2>3 DEF GetFileLogger, AddAppender
    <3> QED
      BY <3>1, AddFormatInv
  <2>4. CASE \/ \E grd \in Levels : Begin(t, l, grd) \/ SetLevel(t, l, grd)
             \/ GetLogger(t, l) \/ ClearAppender(t, l)
             \/ \E a \in Appender : DelAppender(t, l, a)
    BY <1>1, <2>4 DEF Begin, SetLevel, GetLogger, ClearAppender, DelAppender, objects
  <2> QED
    BY <2>1, <2>2, <2>3, <2>4
<1> QED
  BY <1>2, <1>3, <1>4 DEF Next

LEMMA FormatInvShown == FormatInv => ShownAsFirstAdded
BY DEF FormatInv, ShownAsFirstAdded

\* Whatever threads set, add, move and log: all that an appender ever puts out is in the
\* format that the first logger it was added to had then.
THEOREM OneFormatEach == Spec => []ShownAsFirstAdded
<1>1. SafeInv /\ FormatInv /\ [Next]_vars => FormatInv'
  BY NextFormatInv
<1> QED
  BY <1>1, InitFormatInv, SafeInvariance, FormatInvShown, PTL DEF Spec

-----------------------------------------------------------------------------
(* Counting.                                                               *)

LEMMA TimesAppend ==
  ASSUME NEW S, NEW s \in Seq(S), NEW y, NEW x
  PROVE  /\ Times(x, s) \in Nat
         /\ Times(x, Append(s, y)) = IF x = y THEN Times(x, s) + 1 ELSE Times(x, s)
<1> DEFINE I == {k \in DOMAIN s : s[k] = x}
           J == {k \in DOMAIN Append(s, y) : Append(s, y)[k] = x}
<1>1. DOMAIN s = 1..Len(s) /\ Len(s) \in Nat /\ DOMAIN Append(s, y) = 1..(Len(s) + 1)
  OBVIOUS
<1>2. /\ \A k \in 1..Len(s) : Append(s, y)[k] = s[k]
      /\ Append(s, y)[Len(s) + 1] = y
  OBVIOUS
<1>3. IsFiniteSet(I) /\ Len(s) + 1 \notin I
  <2>1. IsFiniteSet(1..Len(s)) /\ I \in SUBSET (1..Len(s))
    BY <1>1, FS_Interval
  <2> QED
    BY <1>1, <2>1, FS_Subset
<1>4. J = IF x = y THEN I \cup {Len(s) + 1} ELSE I
  BY <1>1, <1>2
<1>5. Times(x, s) = Cardinality(I) /\ Times(x, Append(s, y)) = Cardinality(J)
  BY DEF Times
<1> HIDE DEF I, J
<1>6. Cardinality(I) \in Nat
  BY <1>3, FS_CardinalityType
<1>7. Cardinality(I \cup {Len(s) + 1}) = Cardinality(I) + 1
  BY <1>3, FS_AddElement
<1> QED
  BY <1>4, <1>5, <1>6, <1>7

LEMMA TimesTail ==
  ASSUME NEW S, NEW s \in Seq(S), s # <<>>, NEW x
  PROVE  Times(x, s) = IF x = Head(s) THEN Times(x, Tail(s)) + 1 ELSE Times(x, Tail(s))
<1> DEFINE I == {k \in DOMAIN s : s[k] = x}
           T == {k \in DOMAIN Tail(s) : Tail(s)[k] = x}
           J == {k \in 2..Len(s) : s[k] = x}
<1>1. /\ DOMAIN s = 1..Len(s) /\ Len(s) \in Nat \ {0}
      /\ DOMAIN Tail(s) = 1..(Len(s) - 1) /\ Head(s) = s[1]
      /\ \A k \in 1..(Len(s) - 1) : Tail(s)[k] = s[k + 1]
  OBVIOUS
<1>2. IsFiniteSet(T) /\ IsFiniteSet(J)
  <2>1. IsFiniteSet(1..(Len(s) - 1)) /\ IsFiniteSet(2..Len(s))
    BY <1>1, FS_Interval
  <2>2. T \in SUBSET (1..(Len(s) - 1)) /\ J \in SUBSET (2..Len(s))
    BY <1>1
  <2> QED
    BY <2>1, <2>2, FS_Subset
<1>3. ExistsBijection(T, J)
  <2> DEFINE f == [k \in T |-> k + 1]
  <2>1. f \in [T -> J]
    BY <1>1
  <2>2. \A j, k \in T : f[j] = f[k] => j = k
    BY <1>1
  <2>3. \A k \in J : k - 1 \in T /\ f[k - 1] = k
    BY <1>1
  <2> HIDE DEF f, T, J
  <2>4. f \in Injection(T, J)
    BY <2>1, <2>2 DEF Injection, IsInjective
  <2>5. f \in Surjection(T, J)
    BY <2>1, <2>3 DEF Surjection
  <2> QED
    BY <2>4, <2>5 DEF ExistsBijection, Bijection
<1>4. I = IF x = Head(s) THEN J \cup {1} ELSE J
  BY <1>1
<1>5. 1 \notin J
  OBVIOUS
<1>6. Times(x, s) = Cardinality(I) /\ Times(x, Tail(s)) = Cardinality(T)
  BY DEF Times
<1> HIDE DEF I, J, T
<1>7. Cardinality(J) = Cardinality(T) /\ Cardinality(J \cup {1}) = Cardinality(J) + 1
  BY <1>2, <1>3, <1>5, FS_Bijection, FS_AddElement
<1> QED
  BY <1>4, <1>6, <1>7

LEMMA TimesNone ==
  ASSUME NEW x, NEW s, x \notin ToSet(s)
  PROVE  Times(x, s) = 0
<1>1. {k \in DOMAIN s : s[k] = x} = {}
  BY DEF ToSet
<1> QED
  BY <1>1, FS_EmptySet DEF Times

LEMMA BeforeAppend ==
  ASSUME NEW S, NEW s \in Seq(S), NEW x, NEW d, NEW e
  PROVE  Before(d, e, Append(s, x)) <=> Before(d, e, s) \/ (e = x /\ d \in ToSet(s))
<1>1. DOMAIN s = 1..Len(s) /\ Len(s) \in Nat /\ DOMAIN Append(s, x) = 1..(Len(s) + 1)
  OBVIOUS
<1>2. /\ \A k \in 1..Len(s) : Append(s, x)[k] = s[k]
      /\ Append(s, x)[Len(s) + 1] = x
  OBVIOUS
<1> DEFINE w == Append(s, x)
<1> HIDE DEF w
<1>3. ASSUME Before(d, e, s) PROVE Before(d, e, Append(s, x))
  <2>1. PICK j, k \in 1..Len(s) : j < k /\ s[j] = d /\ s[k] = e
    BY <1>1, <1>3 DEF Before
  <2>2. j \in DOMAIN Append(s, x) /\ k \in DOMAIN Append(s, x)
    BY <1>1
  <2> QED
    BY <1>2, <2>1, <2>2 DEF Before
<1>4. ASSUME e = x, d \in ToSet(s) PROVE Before(d, e, Append(s, x))
  <2>1. PICK j \in 1..Len(s) : s[j] = d
    BY <1>1, <1>4 DEF ToSet
  <2>2. j < Len(s) + 1 /\ j \in DOMAIN Append(s, x) /\ Len(s) + 1 \in DOMAIN Append(s, x)
    BY <1>1
  <2> QED
    BY <1>2, <1>4, <2>1, <2>2 DEF Before
<1>5. ASSUME Before(d, e, Append(s, x)) PROVE Before(d, e, s) \/ (e = x /\ d \in ToSet(s))
  <2>1. PICK j, k \in 1..(Len(s) + 1) : j < k /\ Append(s, x)[j] = d /\ Append(s, x)[k] = e
    BY <1>1, <1>5 DEF Before
  <2>2. j \in 1..Len(s) /\ s[j] = d
    BY <1>1, <1>2, <2>1
  <2>3. CASE k = Len(s) + 1
    BY <1>1, <1>2, <2>1, <2>2, <2>3 DEF ToSet
  <2>4. CASE k # Len(s) + 1
    <3>1. k \in 1..Len(s) /\ s[k] = e
      BY <1>1, <1>2, <2>1, <2>4
    <3> QED
      BY <1>1, <2>1, <2>2, <3>1 DEF Before
  <2> QED
    BY <2>3, <2>4
<1> QED
  BY <1>3, <1>4, <1>5

LEMMA BeforeInSet ==
  ASSUME NEW s, NEW d, NEW e, Before(d, e, s)
  PROVE  d \in ToSet(s) /\ e \in ToSet(s)
BY DEF Before, ToSet

\* What MapThenSumSet makes of the todo lists of the threads in S.
Summed(a, S) ==
  (CHOOSE it : it =
     [s \in SUBSET S |-> IF s = {} THEN 0
                         ELSE Times(a, todo[CHOOSE x \in s : TRUE])
                              + it[s \ {CHOOSE x \in s : TRUE}]])[S]

LEMMA SummedFew ==
  ASSUME NEW a, NEW S, \A x \in S : S = {x} /\ Times(a, todo[x]) \in Nat
  PROVE  Summed(a, S) = IF S = {} THEN 0 ELSE Times(a, todo[CHOOSE x \in S : TRUE])
<1> DEFINE t == CHOOSE x \in S : TRUE
<1>0. S = {} \/ (S = {t} /\ Times(a, todo[t]) \in Nat)
  <2>1. S # {} => t \in S
    OBVIOUS
  <2> HIDE DEF t
  <2> QED
    BY <2>1
<1> HIDE DEF t
<1> SUFFICES Summed(a, S) = IF S = {} THEN 0 ELSE Times(a, todo[t])
  BY DEF t
<1> DEFINE n(s) == Times(a, todo[CHOOSE x \in s : TRUE])
           Sum(it) == [s \in SUBSET S |-> IF s = {} THEN 0
                                          ELSE n(s) + it[s \ {CHOOSE x \in s : TRUE}]]
           iter == CHOOSE it : it = Sum(it)
           g == [s \in SUBSET S |-> IF s = {} THEN 0 ELSE Times(a, todo[t])]
<1>1. \A s \in SUBSET S : s # {} => s = {t} /\ (CHOOSE x \in s : TRUE) = t
  BY <1>0
<1>2. g = Sum(g)
  <2>1. ASSUME NEW s \in SUBSET S PROVE g[s] = Sum(g)[s]
    <3>1. CASE s = {}
      BY <3>1
    <3>2. CASE s # {}
      <4>1. s \ {CHOOSE x \in s : TRUE} = {} /\ (CHOOSE x \in s : TRUE) = t
        BY <1>1, <3>2
      <4>2. {} \in SUBSET S /\ g[{}] = 0
        OBVIOUS
      <4> QED
        BY <3>2, <4>1, <4>2
    <3> QED
      BY <3>1, <3>2
  <2> QED
    BY <2>1
<1>3. iter = Sum(iter)
  <2> HIDE DEF g, Sum
  <2> QED
    BY <1>2
<1>4. Summed(a, S) = iter[S]
  BY DEF Summed
<1> HIDE DEF iter
<1>5. iter[{}] = 0
  <2>1. {} \in SUBSET S
    OBVIOUS
  <2> QED
    BY <1>3, <2>1
<1>6. CASE S = {}
  BY <1>4, <1>5, <1>6
<1>7. CASE S # {}
  <2>1. S \ {CHOOSE x \in S : TRUE} = {} /\ (CHOOSE x \in S : TRUE) = t /\ S \in SUBSET S
    BY <1>0, <1>1, <1>7
  <2>2. iter[S] = n(S) + iter[S \ {CHOOSE x \in S : TRUE}]
    BY <1>3, <1>7, <2>1
  <2>3. iter[S] = Times(a, todo[t]) + 0
    BY <1>0, <1>5, <1>7, <2>1, <2>2
  <2> QED
    BY <1>0, <1>4, <1>7, <2>3
<1> QED
  BY <1>6, <1>7

-----------------------------------------------------------------------------
(* The order of events, and who gets them.                                 *)

LEMMA InitOrderInv == Init => Events /\ Latest /\ SameOrder /\ Handed
<1> SUFFICES ASSUME Init PROVE Events /\ Latest /\ SameOrder /\ Handed
  OBVIOUS
<1>1. /\ \A t \in Thread : place[t] = "idle" /\ event[t] = 0 /\ todo[t] = <<>>
      /\ \A e \in Event : source[e].logger = Null /\ source[e].to = <<>>
      /\ \A a \in Appender : seen[a] = <<>>
      /\ 0 \notin Event
  BY DEF Init, Event
<1>2. \A x : x \notin ToSet(<<>>) /\ Times(x, <<>>) = 0
  BY ToSetOfFew, TimesNone
<1>3. \A d, e : ~Before(d, e, <<>>)
  BY <1>2, BeforeInSet
<1>4. Events
  BY <1>1, <1>2 DEF Events, At
<1>5. Latest /\ SameOrder
  BY <1>1, <1>3 DEF Latest, SameOrder
<1>6. Handed
  BY <1>1, <1>2 DEF Handed
<1> QED
  BY <1>4, <1>5, <1>6

\* A thread in no log() logs nothing; the others log an event each.
LEMMA EventOf ==
  ASSUME SafeInv, NEW t \in Thread
  PROVE  /\ ~At(t, "idle") => event[t] \in Event /\ event[t] # 0
         /\ At(t, "idle") => event[t] = 0
         /\ ~At(t, "deliver") => todo[t] = <<>>
         /\ todo[t] \in Seq(Appender)
BY DEF SafeInv, Typed, Routes, Route, Event

\* A step that hands nothing out and locks no logger with appenders.
Aside ==
  /\ UNCHANGED history
  /\ logged' = logged
  /\ \A u \in Thread : event'[u] \in {event[u], 0}
  /\ \A u \in Thread : place'[u] \in {"enter", "lock"} =>
       place[u] \in {"enter", "lock"} /\ event'[u] = event[u]
  /\ \A u \in Thread : place'[u] = "deliver" =>
       place[u] = "deliver" /\ event'[u] = event[u] /\ cur'[u] = cur[u]

LEMMA AsideOrderInv ==
  ASSUME OrderInv, Aside
  PROVE  OrderInv'
<1>1. UNCHANGED <<seen, source, logged>>
  BY DEF Aside, history
<1>2. Events'
  <2>1. \A e \in Event : e > logged => source[e].logger = Null /\ \A u \in Thread : event'[u] # e
    BY DEF OrderInv, Events, Aside, Event
  <2>2. \A u, w \in Thread : event'[u] = event'[w] /\ event'[u] # 0 => u = w
    BY DEF OrderInv, Events, Aside
  <2>3. \A u \in Thread : place'[u] \in {"enter", "lock"} => source[event'[u]].logger = Null
    BY DEF OrderInv, Events, Aside
  <2>4. \A u \in Thread : place'[u] = "deliver" => source[event'[u]].logger = cur'[u]
    BY DEF OrderInv, Events, Aside, At
  <2>5. \A e \in Event : source[e].logger = Null =>
          source[e].to = <<>> /\ \A a \in Appender : e \notin ToSet(seen[a])
    BY DEF OrderInv, Events
  <2> QED
    BY <1>1, <2>1, <2>2, <2>3, <2>4, <2>5 DEF Events, At
<1>3. Latest'
  BY <1>1 DEF OrderInv, Latest, Aside, At
<1>4. SameOrder'
  BY <1>1 DEF OrderInv, SameOrder
<1> QED
  BY <1>2, <1>3, <1>4 DEF OrderInv

\* A logger with appenders is locked: the event comes out of it, behind all that came out
\* of it before, since those who deliver hold the mutex.
LEMMA LockOrderInv ==
  ASSUME SafeInv, OrderInv, NEW t \in Thread, Lock(t)
  PROVE  OrderInv'
<1> DEFINE l == cur[t]
           e == event[t]
<1>1. /\ At(t, "lock") /\ mutex[l] = Null
      /\ source' = [source EXCEPT ![e] = [logger |-> l, to |-> appenders[l]]]
      /\ place' = [place EXCEPT ![t] = "deliver"]
      /\ UNCHANGED <<cur, event, logged, seen>>
  BY DEF Lock, LockMutex, Goto
<1>2. /\ place \in [Thread -> {"idle", "enter", "lock", "deliver", "return", "failed"}]
      /\ DOMAIN source = Event /\ logged \in Nat
  BY DEF SafeInv, Objects, Typed
<1>3. e \in Event /\ e # 0 /\ l \in Logger /\ l # Null
  <2>1. e \in Event /\ e # 0
    BY <1>1, EventOf DEF At
  <2>2. l \in made /\ made \subseteq Logger
    BY <1>1 DEF SafeInv, Routes, Route, Objects, At
  <2> QED
    BY <2>1, <2>2, LoggerAssumption DEF Logger
<1>4. source[e].logger = Null /\ \A a \in Appender : e \notin ToSet(seen[a])
  BY <1>1, <1>3 DEF OrderInv, Events, At
<1>5. ~(e > logged)
  BY <1>3 DEF OrderInv, Events
<1>6. \A u \in Thread \ {t} : event[u] # e
  BY <1>3 DEF OrderInv, Events
<1>7. \A u \in Thread : place[u] = "deliver" => cur[u] # l
  BY <1>1, DelivererHolds, LoggerAssumption DEF At
<1>8. /\ source'[e].logger = l
      /\ \A d \in Event \ {e} : source'[d] = source[d]
  BY <1>1, <1>2, <1>3
<1>9. place'[t] = "deliver" /\ \A u \in Thread \ {t} : place'[u] = place[u]
  BY <1>1, <1>2
<1> HIDE DEF l, e
<1>10. Events'
  <2>1. \A d \in Event : d > logged' => source'[d].logger = Null /\ \A u \in Thread : event'[u] # d
    BY <1>1, <1>5, <1>8 DEF OrderInv, Events
  <2>2. \A u, w \in Thread : event'[u] = event'[w] /\ event'[u] # 0 => u = w
    BY <1>1 DEF OrderInv, Events
  <2>3. ASSUME NEW u \in Thread, place'[u] \in {"enter", "lock"}
        PROVE  source'[event'[u]].logger = Null
    <3>1. u # t /\ place[u] \in {"enter", "lock"}
      BY <1>9, <2>3
    <3>2. event[u] \in Event \ {e} /\ event'[u] = event[u]
      BY <1>1, <1>6, <3>1, EventOf DEF At
    <3> QED
      BY <1>8, <3>1, <3>2 DEF OrderInv, Events
  <2>4. ASSUME NEW u \in Thread, place'[u] = "deliver"
        PROVE  source'[event'[u]].logger = cur'[u]
    <3>1. CASE u = t
      BY <1>1, <1>8, <3>1 DEF l, e
    <3>2. CASE u # t
      <4>1. place[u] = "deliver"
        BY <1>9, <2>4, <3>2
      <4>2. event[u] \in Event \ {e} /\ event'[u] = event[u]
        BY <1>1, <1>6, <3>2, <4>1, EventOf DEF At
      <4> QED
        BY <1>1, <1>8, <4>1, <4>2 DEF OrderInv, Events, At
    <3> QED
      BY <3>1, <3>2
  <2>5. \A d \in Event : source'[d].logger = Null =>
          source'[d].to = <<>> /\ \A a \in Appender : d \notin ToSet(seen'[a])
    BY <1>1, <1>3, <1>8 DEF OrderInv, Events
  <2> QED
    BY <2>1, <2>2, <2>3, <2>4, <2>5 DEF Events, At
<1>11. \A d, b : b \in Appender => ~Before(e, d, seen[b]) /\ ~Before(d, e, seen[b])
  BY <1>4, BeforeInSet
<1>12. Latest'
  <2> SUFFICES ASSUME NEW u \in Thread, NEW d \in Event, NEW b \in Appender,
                      place'[u] = "deliver", d # event[u], source'[d].logger = cur[u]
               PROVE  ~Before(event[u], d, seen[b])
    BY <1>1 DEF Latest, At
  <2>1. CASE u = t
    BY <1>11, <2>1 DEF e
  <2>2. CASE u # t
    <3>1. place[u] = "deliver"
      BY <1>9, <2>2
    <3>2. d # e
      BY <1>7, <1>8, <3>1
    <3> QED
      BY <1>8, <3>1, <3>2 DEF OrderInv, Latest, At
  <2> QED
    BY <2>1, <2>2
<1>13. SameOrder'
  <2> SUFFICES ASSUME NEW d \in Event, NEW f \in Event, NEW a \in Appender, NEW b \in Appender,
                      source'[d].logger = source'[f].logger, d # f
               PROVE  ~(Before(d, f, seen[a]) /\ Before(f, d, seen[b]))
    BY <1>1 DEF SameOrder
  <2>1. CASE d = e \/ f = e
    BY <1>11, <2>1
  <2>2. CASE d # e /\ f # e
    BY <1>8, <2>2 DEF OrderInv, SameOrder
  <2> QED
    BY <2>1, <2>2
<1> QED
  BY <1>10, <1>12, <1>13 DEF OrderInv

\* An appender puts an event out, behind all it put out before.
LEMMA DeliverOrderInv ==
  ASSUME SafeInv, OrderInv, NEW t \in Thread, Deliver(t)
  PROVE  OrderInv'
<1> DEFINE h == Head(todo[t])
           e == event[t]
<1>1. /\ At(t, "deliver") /\ todo[t] # <<>>
      /\ UNCHANGED <<cur, event, logged, source>>
      /\ seen' = seen \/ seen' = [seen EXCEPT ![h] = Append(seen[h], e)]
      /\ \A u \in Thread : place'[u] \in {place[u], "failed"}
  BY DEF Deliver, Goto, objects, SafeInv, Objects
<1>2. e \in Event /\ e # 0 /\ cur[t] \in Logger /\ mutex[cur[t]] = t
  BY <1>1, EventOf, DelivererHolds DEF At
<1>3. seen \in [Appender -> Seq(Event)]
  BY DEF SafeInv, Typed
<1>4. source[e].logger = cur[t] /\ cur[t] # Null
  BY <1>1, <1>2, LoggerAssumption DEF OrderInv, Events, Logger
<1> HIDE DEF h, e
<1>5. \A d, f, a : a \in Appender /\ Before(d, f, seen'[a]) => Before(d, f, seen[a]) \/ f = e
  <2> SUFFICES ASSUME NEW d, NEW f, NEW a \in Appender, Before(d, f, seen'[a])
               PROVE  Before(d, f, seen[a]) \/ f = e
    OBVIOUS
  <2>1. seen'[a] = seen[a] \/ seen'[a] = Append(seen[a], e)
    BY <1>1, <1>3
  <2> QED
    BY <1>3, <2>1, BeforeAppend
<1>6. \A a \in Appender : ToSet(seen'[a]) \subseteq ToSet(seen[a]) \cup {e}
  <2> SUFFICES ASSUME NEW a \in Appender PROVE ToSet(seen'[a]) \subseteq ToSet(seen[a]) \cup {e}
    OBVIOUS
  <2>1. seen'[a] = seen[a] \/ seen'[a] = Append(seen[a], e)
    BY <1>1, <1>3
  <2> QED
    BY <1>3, <2>1, ToSetAppend
<1>7. Events'
  <2>1. \A d \in Event : source[d].logger = Null =>
          source[d].to = <<>> /\ \A a \in Appender : d \notin ToSet(seen'[a])
    BY <1>4, <1>6 DEF OrderInv, Events
  <2>2. /\ \A d \in Event : d > logged => source[d].logger = Null /\ \A u \in Thread : event[u] # d
        /\ \A u, w \in Thread : event[u] = event[w] /\ event[u] # 0 => u = w
        /\ \A u \in Thread : place'[u] \in {"enter", "lock"} => source[event[u]].logger = Null
        /\ \A u \in Thread : place'[u] = "deliver" => source[event[u]].logger = cur[u]
    BY <1>1 DEF OrderInv, Events, At
  <2> QED
    BY <1>1, <2>1, <2>2 DEF Events, At
<1>8. Latest'
  <2> SUFFICES ASSUME NEW u \in Thread, NEW d \in Event, NEW b \in Appender,
                      place'[u] = "deliver", d # event[u], source[d].logger = cur[u],
                      Before(event[u], d, seen'[b])
               PROVE  FALSE
    BY <1>1 DEF Latest, At
  <2>1. place[u] = "deliver"
    BY <1>1
  <2>2. ~Before(event[u], d, seen[b])
    BY <2>1 DEF OrderInv, Latest, At
  <2>3. d = e
    BY <1>5, <2>2
  <2>4. cur[u] = cur[t]
    BY <1>4, <2>3
  <2>5. u = t
    BY <1>2, <2>1, <2>4, DelivererHolds DEF At
  <2> QED
    BY <2>3, <2>5 DEF e
<1>9. SameOrder'
  <2>1. ASSUME NEW d \in Event, NEW a \in Appender, NEW b \in Appender,
               source[d].logger = cur[t], d # e, Before(e, d, seen'[b])
        PROVE  FALSE
    <3>1. Before(e, d, seen[b])
      BY <1>5, <2>1
    <3> QED
      BY <1>1, <2>1, <3>1 DEF OrderInv, Latest, e
  <2> SUFFICES ASSUME NEW d \in Event, NEW f \in Event, NEW a \in Appender, NEW b \in Appender,
                      source[d].logger = source[f].logger, d # f,
                      Before(d, f, seen'[a]), Before(f, d, seen'[b])
               PROVE  FALSE
    BY <1>1 DEF SameOrder
  <2>2. CASE f = e
    BY <1>4, <2>1, <2>2
  <2>3. CASE d = e
    BY <1>4, <2>1, <2>3
  <2>4. CASE d # e /\ f # e
    BY <1>5, <2>4 DEF OrderInv, SameOrder
  <2> QED
    BY <2>2, <2>3, <2>4
<1> QED
  BY <1>7, <1>8, <1>9 DEF OrderInv

LEMMA BeginOrderInv ==
  ASSUME SafeInv, OrderInv, NEW t \in Thread, NEW l \in Logger, NEW grd \in Levels,
         Begin(t, l, grd)
  PROVE  OrderInv'
<1> DEFINE e == logged + 1
<1>1. /\ place[t] = "idle" /\ logged < MaxEvents /\ logged' = e
      /\ event' = [event EXCEPT ![t] = e]
      /\ place' = [place EXCEPT ![t] = "enter"]
      /\ cur' = [cur EXCEPT ![t] = l]
      /\ UNCHANGED history
  BY DEF Begin, Goto, At
<1>2. /\ place \in [Thread -> {"idle", "enter", "lock", "deliver", "return", "failed"}]
      /\ event \in [Thread -> Event \cup {0}] /\ cur \in [Thread -> Logger \cup {Null}]
      /\ logged \in 0..MaxEvents
  BY DEF SafeInv, Typed, Objects
<1>3. e \in Event /\ e # 0 /\ e > logged
  BY <1>1, <1>2, LoggerAssumption DEF Event
<1>4. source[e].logger = Null /\ \A u \in Thread : event[u] # e
  BY <1>3 DEF OrderInv, Events
<1>5. /\ place'[t] = "enter" /\ event'[t] = e
      /\ \A u \in Thread \ {t} : place'[u] = place[u] /\ event'[u] = event[u] /\ cur'[u] = cur[u]
  BY <1>1, <1>2
<1>6. \A d \in Event : d > e => d > logged /\ d # e
  BY <1>2 DEF Event
<1>7. UNCHANGED <<seen, source>>
  BY <1>1 DEF history
<1> HIDE DEF e
<1>8. Events'
  <2>1. \A d \in Event : d > e => source[d].logger = Null /\ \A u \in Thread : event'[u] # d
    BY <1>5, <1>6 DEF OrderInv, Events
  <2>2. \A u, w \in Thread : event'[u] = event'[w] /\ event'[u] # 0 => u = w
    BY <1>4, <1>5 DEF OrderInv, Events
  <2>3. \A u \in Thread : place'[u] \in {"enter", "lock"} => source[event'[u]].logger = Null
    BY <1>4, <1>5 DEF OrderInv, Events
  <2>4. \A u \in Thread : place'[u] = "deliver" => source[event'[u]].logger = cur'[u]
    BY <1>5 DEF OrderInv, Events, At
  <2> QED
    BY <1>1, <1>7, <2>1, <2>2, <2>3, <2>4 DEF OrderInv, Events, At
<1>9. Latest'
  BY <1>5, <1>7 DEF OrderInv, Latest, At
<1>10. SameOrder'
  BY <1>7 DEF OrderInv, SameOrder
<1> QED
  BY <1>8, <1>9, <1>10 DEF OrderInv

LEMMA NextOrderInv == SafeInv /\ OrderInv /\ [Next]_vars => OrderInv'
<1> SUFFICES ASSUME SafeInv, OrderInv, [Next]_vars PROVE OrderInv'
  OBVIOUS
<1>0. /\ place \in [Thread -> {"idle", "enter", "lock", "deliver", "return", "failed"}]
      /\ event \in [Thread -> Event \cup {0}] /\ cur \in [Thread -> Logger \cup {Null}]
  BY DEF SafeInv, Typed, Objects
<1>1. ASSUME NEW t \in Thread, Step(t) PROVE OrderInv'
  <2>1. CASE Enter(t)
    <3>1. Aside
      BY <1>0, <2>1 DEF Enter, Aside, Goto, At, objects
    <3> QED
      BY <3>1, AsideOrderInv
  <2>2. CASE Fallback(t)
    <3>1. UNCHANGED <<event, logged, history>> /\ place[t] = "lock"
          /\ place'[t] \in {"enter", "failed"}
          /\ \A u \in Thread \ {t} : place'[u] = place[u] /\ cur'[u] = cur[u]
      BY <1>0, <2>2 DEF Fallback, Goto, At
    <3>2. Aside
      BY <3>1 DEF Aside
    <3> QED
      BY <3>2, AsideOrderInv
  <2>3. CASE Delivered(t)
    <3>1. Aside
      BY <1>0, <2>3 DEF Delivered, Aside, Goto, At, objects
    <3> QED
      BY <3>1, AsideOrderInv
  <2>4. CASE Return(t)
    <3>1. UNCHANGED <<logged, history>> /\ place[t] = "return"
          /\ place'[t] \in {"return", "idle"} /\ event'[t] \in {event[t], 0}
          /\ \A u \in Thread \ {t} :
               place'[u] = place[u] /\ cur'[u] = cur[u] /\ event'[u] = event[u]
      BY <1>0, <2>4 DEF Return, Goto, At
    <3>2. Aside
      BY <3>1 DEF Aside
    <3> QED
      BY <3>2, AsideOrderInv
  <2> QED
    BY <1>1, <2>1, <2>2, <2>3, <2>4, LockOrderInv, DeliverOrderInv DEF Step
<1>2. ASSUME NEW t \in Thread, Call(t) PROVE OrderInv'
  <2>1. CASE \E l \in Logger, grd \in Levels : Begin(t, l, grd)
    BY <2>1, BeginOrderInv
  <2>2. CASE ~\E l \in Logger, grd \in Levels : Begin(t, l, grd)
    <3>1. Effect
      BY <1>2, <2>2, ChangeEffect DEF Call
    <3>2. Aside
      BY <3>1 DEF Effect, Aside, calls
    <3> QED
      BY <3>2, AsideOrderInv
  <2> QED
    BY <2>1, <2>2
<1>3. CASE UNCHANGED vars
  <2>1. Aside
    BY <1>3 DEF vars, calls, Aside
  <2> QED
    BY <2>1, AsideOrderInv
<1> QED
  BY <1>1, <1>2, <1>3 DEF Next

\* The levels of events are numbers.
LEMMA GradesAreNumbers == ASSUME NEW g \in Levels \cup {DEBUG} PROVE g \in Nat
<1>1. g \in 1..6 \/ g = 2
  BY LoggerAssumption DEF DEBUG
<1> QED
  BY <1>1

\* Nobody has anything to hand out when nobody logs.
LEMMA SummedNone == ASSUME NEW a PROVE Summed(a, {}) = 0
BY SummedFew

LEMMA TimesNat ==
  ASSUME NEW S, NEW s \in Seq(S), NEW x
  PROVE  Times(x, s) \in Nat
BY TimesAppend

\* A step that hands nothing out, and changes what is to be handed out by nobody.
AsideHanded ==
  /\ UNCHANGED <<history, todo, event>>
  /\ \A e \in Event : grade'[e] = grade[e]

LEMMA AsideHandedStays ==
  ASSUME Handed, AsideHanded
  PROVE  Handed'
BY DEF Handed, AsideHanded, history

\* The event is to be handed out to the list the logger has now, as often as it is on it.
LEMMA LockHanded ==
  ASSUME SafeInv, OrderInv, Handed, NEW t \in Thread, Lock(t)
  PROVE  Handed'
<1> DEFINE l == cur[t]
           e == event[t]
<1>1. /\ At(t, "lock")
      /\ source' = [source EXCEPT ![e] = [logger |-> l, to |-> appenders[l]]]
      /\ todo' = [todo EXCEPT ![t] = appenders[l]]
      /\ UNCHANGED <<event, grade, seen>>
  BY DEF Lock
<1>2. DOMAIN source = Event /\ todo \in [Thread -> Seq(Appender)]
  BY DEF SafeInv, Typed
<1>3. /\ e \in Event /\ e # 0
      /\ \A u \in Thread \ {t} : event[u] # e
  BY <1>1, EventOf DEF OrderInv, Events, At
<1>4. \A a \in Appender : Times(e, seen[a]) = 0
  BY <1>1, <1>3, TimesNone DEF OrderInv, Events, At
<1>5. /\ source'[e].to = appenders[l] /\ todo'[t] = appenders[l]
      /\ \A d \in Event \ {e} : source'[d] = source[d]
      /\ \A u \in Thread \ {t} : todo'[u] = todo[u]
  BY <1>1, <1>2, <1>3
<1>6. appenders[l] \in Seq(Appender)
  BY <1>1 DEF SafeInv, Routes, Route, Objects, At
<1> HIDE DEF l
<1> SUFFICES ASSUME NEW d \in Event, NEW a \in Appender
             PROVE  /\ grade[d] < DEBUG => Times(d, seen[a]) = 0
                    /\ \A u \in Thread : event[u] = d /\ grade[d] >= DEBUG =>
                         Times(d, seen[a]) + Times(a, todo'[u]) = Times(a, source'[d].to)
                    /\ (\A u \in Thread : event[u] # d) /\ grade[d] >= DEBUG =>
                         Times(d, seen[a]) = Times(a, source'[d].to)
  BY <1>1 DEF Handed
<1>7. grade[d] < DEBUG => Times(d, seen[a]) = 0
  BY DEF Handed
<1>8. CASE d = e
  <2>1. Times(a, appenders[l]) \in Nat
    BY <1>6, TimesNat
  <2>2. 0 + Times(a, appenders[l]) = Times(a, appenders[l])
    BY <2>1
  <2> QED
    BY <1>3, <1>4, <1>5, <1>7, <1>8, <2>2
<1>9. CASE d # e
  <2>1. \A u \in Thread : event[u] = d => u # t
    BY <1>9
  <2> HIDE DEF e
  <2> QED
    BY <1>5, <1>7, <1>9, <2>1 DEF Handed
<1> QED
  BY <1>8, <1>9

\* An appender whose turn it is puts the event out, if it is of its level.
LEMMA DeliverHanded ==
  ASSUME SafeInv, OrderInv, Handed, NEW t \in Thread, Deliver(t)
  PROVE  Handed'
<1> DEFINE h == Head(todo[t])
           e == event[t]
<1>1. At(t, "deliver") /\ todo[t] # <<>> /\ UNCHANGED <<event, grade, source>>
  BY DEF Deliver
<1>2. /\ seen \in [Appender -> Seq(Event)] /\ todo \in [Thread -> Seq(Appender)]
      /\ grade \in [Event -> Levels \cup {DEBUG}]
  BY DEF SafeInv, Typed
<1>3. /\ e \in Event /\ e # 0
      /\ \A u \in Thread \ {t} : event[u] # e
      /\ todo[t] \in Seq(Appender) /\ h \in Appender
  BY <1>1, EventOf, ToSetTail DEF OrderInv, Events, At
<1>4. formatter[h] # Null
  <2>1. cur[t] \in Logger
    BY <1>1, DelivererHolds
  <2> QED
    BY <1>1, <1>3, <2>1, ToSetTail DEF SafeInv, Attached, Formats
<1>5. /\ seen' = IF grade[e] >= DEBUG THEN [seen EXCEPT ![h] = Append(seen[h], e)] ELSE seen
      /\ todo' = [todo EXCEPT ![t] = Tail(todo[t])]
  BY <1>4 DEF Deliver, Following
<1>6. todo'[t] = Tail(todo[t]) /\ \A u \in Thread \ {t} : todo'[u] = todo[u]
  BY <1>2, <1>5
<1>7. grade[e] \in Nat
  <2>1. grade[e] \in Levels \cup {DEBUG}
    BY <1>1, <1>3 DEF SafeInv, Typed
  <2> QED
    BY <2>1, GradesAreNumbers
<1>8. \A a \in Appender :
        Times(a, todo[t]) = IF a = h THEN Times(a, todo'[t]) + 1 ELSE Times(a, todo'[t])
  BY <1>1, <1>3, <1>6, TimesTail
<1>9. \A d \in Event, a \in Appender :
        Times(d, seen'[a]) = IF d = e /\ a = h /\ grade[e] >= DEBUG THEN Times(d, seen[a]) + 1
                             ELSE Times(d, seen[a])
  <2> SUFFICES ASSUME NEW d \in Event, NEW a \in Appender
               PROVE  Times(d, seen'[a]) =
                        IF d = e /\ a = h /\ grade[e] >= DEBUG THEN Times(d, seen[a]) + 1
                        ELSE Times(d, seen[a])
    OBVIOUS
  <2>1. CASE a = h /\ grade[e] >= DEBUG
    <3>1. seen'[a] = Append(seen[a], e) /\ seen[a] \in Seq(Event)
      BY <1>2, <1>5, <2>1
    <3> HIDE DEF e
    <3> QED
      BY <2>1, <3>1, TimesAppend
  <2>2. CASE ~(a = h /\ grade[e] >= DEBUG)
    <3>1. seen'[a] = seen[a]
      BY <1>2, <1>5, <2>2
    <3> QED
      BY <2>2, <3>1
  <2> QED
    BY <2>1, <2>2
<1>10. \A d \in Event, a \in Appender : Times(d, seen[a]) \in Nat
  <2> SUFFICES ASSUME NEW d \in Event, NEW a \in Appender PROVE Times(d, seen[a]) \in Nat
    OBVIOUS
  <2>1. seen[a] \in Seq(Event)
    BY <1>2
  <2> QED
    BY <2>1, TimesNat
<1>11. \A a \in Appender : Times(a, todo'[t]) \in Nat
  <2> SUFFICES ASSUME NEW a \in Appender PROVE Times(a, todo'[t]) \in Nat
    OBVIOUS
  <2>1. todo'[t] \in Seq(Appender)
    BY <1>1, <1>3, <1>6, ToSetTail
  <2> QED
    BY <2>1, TimesNat
<1> SUFFICES ASSUME NEW d \in Event, NEW a \in Appender
             PROVE  /\ grade[d] < DEBUG => Times(d, seen'[a]) = 0
                    /\ \A u \in Thread : event[u] = d /\ grade[d] >= DEBUG =>
                         Times(d, seen'[a]) + Times(a, todo'[u]) = Times(a, source[d].to)
                    /\ (\A u \in Thread : event[u] # d) /\ grade[d] >= DEBUG =>
                         Times(d, seen'[a]) = Times(a, source[d].to)
  BY <1>1 DEF Handed
<1>12. CASE d = e
  <2>1. grade[d] < DEBUG => Times(d, seen'[a]) = 0
    BY <1>7, <1>9, <1>12 DEF Handed, DEBUG
  <2>2. ASSUME grade[d] >= DEBUG
        PROVE  Times(d, seen'[a]) + Times(a, todo'[t]) = Times(a, source[d].to)
    <3>1. Times(d, seen[a]) + Times(a, todo[t]) = Times(a, source[d].to)
      BY <1>12, <2>2 DEF Handed
    <3>2. CASE a = h
      <4>1. /\ Times(d, seen'[a]) = Times(d, seen[a]) + 1
            /\ Times(a, todo[t]) = Times(a, todo'[t]) + 1
        BY <1>8, <1>9, <1>12, <2>2, <3>2
      <4> QED
        BY <1>10, <1>11, <3>1, <4>1
    <3>3. CASE a # h
      BY <1>8, <1>9, <3>1, <3>3
    <3> QED
      BY <3>2, <3>3
  <2> QED
    BY <1>3, <1>12, <2>1, <2>2
<1>13. CASE d # e
  <2>1. Times(d, seen'[a]) = Times(d, seen[a])
    BY <1>9, <1>13
  <2>2. \A u \in Thread : event[u] = d => todo'[u] = todo[u]
    BY <1>6, <1>13
  <2> HIDE DEF e
  <2> QED
    BY <2>1, <2>2 DEF Handed
<1> QED
  BY <1>12, <1>13

\* log() has returned: nothing is left to be handed out.
LEMMA ReturnHanded ==
  ASSUME SafeInv, OrderInv, Handed, NEW t \in Thread, Return(t)
  PROVE  Handed'
<1>1. At(t, "return") /\ UNCHANGED <<todo, grade, history>>
  BY DEF Return
<1>2. CASE UNCHANGED event
  <2>1. AsideHanded
    BY <1>1, <1>2 DEF AsideHanded
  <2> QED
    BY <2>1, AsideHandedStays
<1>3. CASE ~UNCHANGED event
  <2> DEFINE e == event[t]
  <2>1. event' = [event EXCEPT ![t] = 0]
    BY <1>3 DEF Return
  <2>2. event \in [Thread -> Event \cup {0}] /\ 0 \notin Event
    BY DEF SafeInv, Typed, Event
  <2>3. /\ event'[t] = 0 /\ \A u \in Thread \ {t} : event'[u] = event[u]
        /\ e \in Event /\ todo[t] = <<>>
    BY <1>1, <2>1, <2>2, EventOf DEF At
  <2>4. \A a \in Appender : Times(a, todo[t]) = 0
    BY <2>3, ToSetOfFew, TimesNone
  <2>5. \A d \in Event, a \in Appender : Times(d, seen[a]) \in Nat
    <3> SUFFICES ASSUME NEW d \in Event, NEW a \in Appender PROVE Times(d, seen[a]) \in Nat
      OBVIOUS
    <3>1. seen[a] \in Seq(Event)
      BY DEF SafeInv, Typed
    <3> QED
      BY <3>1, TimesNat
  <2> SUFFICES ASSUME NEW d \in Event, NEW a \in Appender
               PROVE  /\ grade[d] < DEBUG => Times(d, seen[a]) = 0
                      /\ \A u \in Thread : event'[u] = d /\ grade[d] >= DEBUG =>
                           Times(d, seen[a]) + Times(a, todo[u]) = Times(a, source[d].to)
                      /\ (\A u \in Thread : event'[u] # d) /\ grade[d] >= DEBUG =>
                           Times(d, seen[a]) = Times(a, source[d].to)
    BY <1>1 DEF Handed, history
  <2>6. grade[d] < DEBUG => Times(d, seen[a]) = 0
    BY DEF Handed
  <2>7. \A u \in Thread : event'[u] = d => event[u] = d
    BY <2>2, <2>3
  <2>8. CASE d = e
    <3>1. grade[d] >= DEBUG => Times(d, seen[a]) + 0 = Times(a, source[d].to)
      BY <2>4, <2>8 DEF Handed
    <3> QED
      BY <2>5, <2>6, <2>7, <3>1 DEF Handed
  <2>9. CASE d # e
    <3>1. (\A u \in Thread : event'[u] # d) => \A u \in Thread : event[u] # d
      BY <2>3, <2>9
    <3> QED
      BY <2>6, <2>7, <3>1 DEF Handed
  <2> QED
    BY <2>8, <2>9
<1> QED
  BY <1>2, <1>3

LEMMA BeginHanded ==
  ASSUME SafeInv, OrderInv, Handed, NEW t \in Thread, NEW l \in Logger, NEW grd \in Levels,
         Begin(t, l, grd)
  PROVE  Handed'
<1> DEFINE e == logged + 1
<1>1. /\ At(t, "idle") /\ logged < MaxEvents
      /\ event' = [event EXCEPT ![t] = e]
      /\ grade' = [grade EXCEPT ![e] = grd]
      /\ UNCHANGED <<todo, history>>
  BY DEF Begin
<1>2. /\ event \in [Thread -> Event \cup {0}] /\ logged \in 0..MaxEvents
      /\ grade \in [Event -> Levels \cup {DEBUG}] /\ 0 \notin Event
  BY DEF SafeInv, Typed, Event
<1>3. e \in Event /\ e > logged
  BY <1>1, <1>2, LoggerAssumption DEF Event
<1>4. /\ source[e].logger = Null /\ source[e].to = <<>>
      /\ \A a \in Appender : e \notin ToSet(seen[a])
  BY <1>3 DEF OrderInv, Events
<1>5. event[t] = 0 /\ todo[t] = <<>>
  BY <1>1, EventOf DEF At
<1>6. \A a \in Appender : Times(e, seen[a]) = 0 /\ Times(a, <<>>) = 0
  BY <1>4, ToSetOfFew, TimesNone
<1>7. /\ event'[t] = e /\ \A u \in Thread \ {t} : event'[u] = event[u]
      /\ \A d \in Event \ {e} : grade'[d] = grade[d]
  BY <1>1, <1>2
<1>8. \A u \in Thread : event[u] # e
  BY <1>3 DEF OrderInv, Events
<1> HIDE DEF e
<1> SUFFICES ASSUME NEW d \in Event, NEW a \in Appender
             PROVE  /\ grade'[d] < DEBUG => Times(d, seen[a]) = 0
                    /\ \A u \in Thread : event'[u] = d /\ grade'[d] >= DEBUG =>
                         Times(d, seen[a]) + Times(a, todo[u]) = Times(a, source[d].to)
                    /\ (\A u \in Thread : event'[u] # d) /\ grade'[d] >= DEBUG =>
                         Times(d, seen[a]) = Times(a, source[d].to)
  BY <1>1 DEF Handed, history
<1>9. CASE d = e
  <2>1. \A u \in Thread : event'[u] = e => u = t
    BY <1>7, <1>8
  <2> QED
    BY <1>4, <1>5, <1>6, <1>9, <2>1
<1>10. CASE d # e
  <2>1. \A u \in Thread : event'[u] = d <=> event[u] = d
    BY <1>2, <1>5, <1>7, <1>10
  <2> QED
    BY <1>7, <1>10, <2>1 DEF Handed
<1> QED
  BY <1>9, <1>10

LEMMA NextHanded == SafeInv /\ OrderInv /\ Handed /\ [Next]_vars => Handed'
<1> SUFFICES ASSUME SafeInv, OrderInv, Handed, [Next]_vars PROVE Handed'
  OBVIOUS
<1>1. ASSUME NEW t \in Thread, Step(t) PROVE Handed'
  <2>1. CASE Enter(t) \/ Fallback(t) \/ Delivered(t)
    <3>1. AsideHanded
      BY <2>1 DEF Enter, Fallback, Delivered, AsideHanded, history
    <3> QED
      BY <3>1, AsideHandedStays
  <2> QED
    BY <1>1, <2>1, LockHanded, DeliverHanded, ReturnHanded DEF Step
<1>2. ASSUME NEW t \in Thread, Call(t) PROVE Handed'
  <2>1. CASE \E l \in Logger, grd \in Levels : Begin(t, l, grd)
    BY <2>1, BeginHanded
  <2>2. CASE ~\E l \in Logger, grd \in Levels : Begin(t, l, grd)
    <3>1. Effect
      BY <1>2, <2>2, ChangeEffect DEF Call
    <3>2. AsideHanded
      BY <3>1 DEF Effect, AsideHanded, calls
    <3> QED
      BY <3>2, AsideHandedStays
  <2> QED
    BY <2>1, <2>2
<1>3. CASE UNCHANGED vars
  <2>1. AsideHanded
    BY <1>3 DEF vars, calls, AsideHanded
  <2> QED
    BY <2>1, AsideHandedStays
<1> QED
  BY <1>1, <1>2, <1>3 DEF Next

LEMMA LogInvariance == Spec => [](SafeInv /\ OrderInv /\ Handed)
<1>1. Init => SafeInv /\ OrderInv /\ Handed
  BY InitSafeInv, InitOrderInv DEF OrderInv
<1>2. SafeInv /\ OrderInv /\ Handed /\ [Next]_vars => SafeInv' /\ OrderInv' /\ Handed'
  BY NextSafeInv, NextOrderInv, NextHanded
<1> QED
  BY <1>1, <1>2, PTL DEF Spec

\* An event is logged by one thread at most: what is coming is what that one has to hand out.
LEMMA HandedMeansHandedOut == SafeInv /\ OrderInv /\ Handed => HandedOut
<1> SUFFICES ASSUME SafeInv, OrderInv, Handed, NEW e \in Event, NEW a \in Appender
             PROVE  IF grade[e] < DEBUG THEN Times(e, seen[a]) = 0
                    ELSE Times(e, seen[a]) + Summed(a, Logging(e)) = Times(a, source[e].to)
  BY DEF HandedOut, MapThenSumSet, MapThenFoldSet, Summed
<1>1. grade[e] < DEBUG => Times(e, seen[a]) = 0
  BY DEF Handed
<1>2. grade[e] \in Nat
  <2>1. grade[e] \in Levels \cup {DEBUG}
    BY DEF SafeInv, Typed
  <2> QED
    BY <2>1, GradesAreNumbers
<1>3. Times(e, seen[a]) \in Nat
  <2>1. seen[a] \in Seq(Event)
    BY DEF SafeInv, Typed
  <2> QED
    BY <2>1, TimesNat
<1>4. ASSUME grade[e] >= DEBUG
      PROVE  Times(e, seen[a]) + Summed(a, Logging(e)) = Times(a, source[e].to)
  <2>1. CASE Logging(e) = {}
    <3>1. Times(e, seen[a]) = Times(a, source[e].to)
      BY <1>4, <2>1 DEF Handed, Logging
    <3>2. Summed(a, Logging(e)) = 0
      BY <2>1, SummedNone
    <3> QED
      BY <1>3, <3>1, <3>2
  <2>2. CASE Logging(e) # {}
    <3>1. PICK t \in Thread : event[t] = e
      BY <2>2 DEF Logging
    <3>2. Logging(e) = {t}
      BY <3>1 DEF Logging, OrderInv, Events, Event
    <3>3. Times(a, todo[t]) \in Nat
      <4>1. todo[t] \in Seq(Appender)
        BY EventOf
      <4> QED
        BY <4>1, TimesNat
    <3>4. Summed(a, Logging(e)) = Times(a, todo[t])
      BY <3>2, <3>3, SummedFew
    <3> QED
      BY <1>4, <3>1, <3>4 DEF Handed
  <2> QED
    BY <2>1, <2>2
<1> QED
  BY <1>1, <1>2, <1>4 DEF DEBUG

\* Logger::log(): whatever appenders are added and taken off meanwhile, each appender of the
\* logger that an event came out of puts it out exactly as often as it was on the list when
\* the logger was locked, and no other appender does - for any number of threads, events
\* and loggers.
THEOREM AppendersGetTheirEvents == Spec => []HandedOut
BY LogInvariance, HandedMeansHandedOut, PTL

\* The mutex that log() keeps over the whole list makes all appenders of a logger agree on
\* the order of its events, whoever logs them and however the lists change.
THEOREM AppendersAgree == Spec => []SameOrder
<1>1. OrderInv => SameOrder
  BY DEF OrderInv
<1> QED
  BY LogInvariance, <1>1, PTL
=============================================================================
