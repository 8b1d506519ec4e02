------------------------ MODULE FiberThreads_proofs ------------------------
(***************************************************************************)
(* Proofs about FiberThreads, for any number of threads and coroutines.    *)
(***************************************************************************)
EXTENDS FiberThreads, TLAPS

FiberStates == {"absent", "READY", "EXEC", "TERM", "freed"}
Phases == {"entry", "body", "over"}

-----------------------------------------------------------------------------
(* Type correctness.                                                       *)

\* A context switch, whatever it switches, keeps contexts and stacks typed.
LEMMA SwapContextType ==
  ASSUME FiberTypeOK, NEW t \in Thread, NEW save \in FiberObj \cup {Null},
         NEW load \in FiberObj \cup {Null}, SwapContext(t, save, load),
         failed \in Failures \cup {"none"}
  PROVE  /\ ctx' \in [FiberObj -> FiberObj \cup {Stale}]
         /\ cpu' \in [Thread -> FiberObj]
         /\ failed' \in Failures \cup {"none"}
<1>1. CASE Null \in {save, load}
  BY <1>1 DEF SwapContext, FiberTypeOK, Fault, Failures, Saved
<1>2. CASE Null \notin {save, load}
  <2> DEFINE saved == [ctx EXCEPT ![save] = cpu[t]]
             dest == saved[load]
  <2>1. save \in FiberObj /\ load \in FiberObj
    BY <1>2
  <2>2. saved \in [FiberObj -> FiberObj \cup {Stale}]
    BY <2>1 DEF FiberTypeOK
  <2>3. CASE dest = Stale
    BY <1>2, <2>3 DEF SwapContext, FiberTypeOK, Fault, Failures, Saved
  <2>4. CASE dest # Stale
    <3>1. dest \in FiberObj
      BY <2>1, <2>2, <2>4
    <3>2. /\ ctx' = [x \in FiberObj |-> IF saved[x] = dest THEN Stale ELSE saved[x]]
          /\ cpu' = [cpu EXCEPT ![t] = dest]
          /\ failed' = failed
      BY <1>2, <2>4 DEF SwapContext, Saved
    <3> HIDE DEF saved, dest
    <3> QED
      BY <2>2, <3>1, <3>2 DEF FiberTypeOK
  <2> QED
    BY <2>3, <2>4
<1> QED
  BY <1>1, <1>2

LEMMA HomeType ==
  ASSUME FiberTypeOK, NEW t \in Thread, NEW f
  PROVE  Home(t, f) \in FiberObj \cup {Null}
BY DEF Home, ThreadFiber, FiberTypeOK, FiberObj

LEMMA NextTypeOK == TypeOK /\ [Next]_vars => TypeOK'
<1> SUFFICES ASSUME TypeOK, [Next]_vars PROVE TypeOK'
  OBVIOUS
<1> USE FiberAssumption DEF TypeOK
<1>1. ASSUME NEW t \in Thread, GetThis(t) PROVE TypeOK'
  BY <1>1 DEF GetThis, GetThisFirst, SetThis, FiberTypeOK, FiberObj
<1>2. ASSUME NEW t \in Thread, NEW c \in Coroutine, New(t, c) PROVE TypeOK'
  BY <1>2 DEF New, Construct, FiberTypeOK, FiberObj
<1>3. ASSUME NEW t \in Thread, NEW c \in Coroutine, Resume(t, c) PROVE TypeOK'
  <2>1. Enter(t, c) /\ UNCHANGED owner /\ used' \subseteq Moves
    BY <1>3 DEF Resume, Use
  <2>2. /\ state' \in [FiberObj -> FiberStates] /\ \A u \in Thread : state'[u] # "TERM"
        /\ this' \in [Thread -> FiberObj \cup {Null}]
    BY <2>1 DEF Enter, FiberTypeOK, FiberObj, FiberStates, SetThis
  <2>3. /\ phase' \in [Coroutine -> Phases] /\ ctx' \in [FiberObj -> FiberObj \cup {Stale}]
        /\ cpu' \in [Thread -> FiberObj] /\ failed' \in Failures \cup {"none"}
    <3>1. CASE phase[c] = "over"
      BY <2>1, <3>1 DEF Enter, FiberTypeOK, Fault, Failures, Phases, SetThis
    <3>2. CASE phase[c] # "over"
      <4>1. SwapContext(t, Home(t, c), c) /\ phase' = [phase EXCEPT ![c] = "body"]
        BY <2>1, <3>2 DEF Enter, SetThis
      <4>2. /\ ctx' \in [FiberObj -> FiberObj \cup {Stale}]
            /\ cpu' \in [Thread -> FiberObj] /\ failed' \in Failures \cup {"none"}
        BY <4>1, HomeType, SwapContextType DEF FiberObj
      <4> QED
        BY <4>1, <4>2 DEF FiberTypeOK, Phases
    <3> QED
      BY <3>1, <3>2
  <2> QED
    BY <2>1, <2>2, <2>3 DEF Enter, FiberTypeOK, FiberStates, Phases, SetThis
<1>4. ASSUME NEW t \in Thread, Yield(t) PROVE TypeOK'
  <2>1. this[t] \in Coroutine /\ MarkReady(t, this[t]) /\ SwapOut(t, this[t])
    BY <1>4 DEF Yield
  <2>2. /\ state' \in [FiberObj -> FiberStates] /\ \A u \in Thread : state'[u] # "TERM"
        /\ this' \in [Thread -> FiberObj \cup {Null}]
    BY <2>1 DEF MarkReady, ThreadFiber, FiberTypeOK, FiberObj, FiberStates, SetThis
  <2>3. /\ ctx' \in [FiberObj -> FiberObj \cup {Stale}]
        /\ cpu' \in [Thread -> FiberObj] /\ failed' \in Failures \cup {"none"}
    BY <2>1, HomeType, SwapContextType DEF SwapOut, FiberObj
  <2> QED
    BY <1>4, <2>2, <2>3 DEF Yield, FiberTypeOK, FiberStates
<1>5. ASSUME NEW t \in Thread, MainYield(t) PROVE TypeOK'
  <2>1. CASE state[t] = "EXEC"
    <3>1. MarkReady(t, t) /\ SwapOutMain(t)
      BY <1>5, <2>1 DEF MainYield
    <3>2. /\ state' \in [FiberObj -> FiberStates] /\ \A u \in Thread : state'[u] # "TERM"
          /\ this' \in [Thread -> FiberObj \cup {Null}]
      BY <3>1 DEF MarkReady, ThreadFiber, FiberTypeOK, FiberObj, FiberStates, SetThis
    <3>3. \E load \in FiberObj \cup {Null} : SwapContext(t, t, load)
      BY <3>1 DEF SwapOutMain, ThreadFiber, FiberTypeOK, FiberObj
    <3>4. /\ ctx' \in [FiberObj -> FiberObj \cup {Stale}]
          /\ cpu' \in [Thread -> FiberObj] /\ failed' \in Failures \cup {"none"}
      BY <3>3, SwapContextType DEF FiberObj
    <3> QED
      BY <1>5, <3>2, <3>4 DEF MainYield, Use, FiberTypeOK, FiberStates
  <2>2. CASE state[t] # "EXEC"
    BY <1>5, <2>2 DEF MainYield, Use, FiberTypeOK, Fault, Failures
  <2> QED
    BY <2>1, <2>2
<1>6. ASSUME NEW t \in Thread, Return(t) PROVE TypeOK'
  <2>1. cpu[t] \in Coroutine /\ FinishBody(t, cpu[t]) /\ UNCHANGED <<owner, used>>
    BY <1>6 DEF Return, InBody
  <2>2. /\ state' \in [FiberObj -> FiberStates] /\ \A u \in Thread : state'[u] # "TERM"
        /\ this' \in [Thread -> FiberObj \cup {Null}] /\ phase' \in [Coroutine -> Phases]
    BY <2>1 DEF FinishBody, ThreadFiber, FiberTypeOK, FiberObj, FiberStates, Phases, SetThis, Ended
  <2>3. /\ ctx' \in [FiberObj -> FiberObj \cup {Stale}]
        /\ cpu' \in [Thread -> FiberObj] /\ failed' \in Failures \cup {"none"}
    BY <2>1, HomeType, SwapContextType DEF FinishBody, SwapOut, FiberObj, SetThis, Ended
  <2> QED
    BY <2>1, <2>2, <2>3 DEF FinishBody, FiberTypeOK, FiberStates, Phases, SetThis, Ended
<1>7. ASSUME NEW t \in Thread, Throw(t) PROVE TypeOK'
  <2>1. cpu[t] \in Coroutine /\ MarkThrown(t, cpu[t]) /\ SwapOut(t, cpu[t])
    BY <1>7 DEF Throw, InBody
  <2>2. /\ state' \in [FiberObj -> FiberStates] /\ \A u \in Thread : state'[u] # "TERM"
        /\ this' \in [Thread -> FiberObj \cup {Null}] /\ phase' \in [Coroutine -> Phases]
    BY <2>1 DEF MarkThrown, MarkReady, ThreadFiber, FiberTypeOK, FiberObj, FiberStates, Phases, SetThis
  <2>3. /\ ctx' \in [FiberObj -> FiberObj \cup {Stale}]
        /\ cpu' \in [Thread -> FiberObj] /\ failed' \in Failures \cup {"none"}
    BY <2>1, HomeType, SwapContextType DEF SwapOut, FiberObj
  <2> QED
    BY <1>7, <2>2, <2>3 DEF Throw, Use, FiberTypeOK, FiberStates, Phases
<1>8. ASSUME NEW t \in Thread, NEW c \in Coroutine, Reset(t, c) PROVE TypeOK'
  BY <1>8 DEF Reset, Use, ResetFiber, Fault, Failures, FiberTypeOK, FiberObj
<1>9. ASSUME NEW t \in Thread, NEW c \in Coroutine, Release(t, c) PROVE TypeOK'
  BY <1>9 DEF Release, Use, Destroy, Fault, Failures, FiberTypeOK, FiberObj
<1>10. ASSUME NEW t \in Thread, Exit(t) PROVE TypeOK'
  BY <1>10 DEF Exit, DestroyMain, Fault, Failures, FiberTypeOK, FiberObj
<1>11. ASSUME NEW t \in Thread, NEW c \in Coroutine, ResumeWrongly(t, c) PROVE TypeOK'
  BY <1>11 DEF ResumeWrongly, Use, Fault, Failures, FiberTypeOK
<1>12. CASE UNCHANGED vars
  BY <1>12 DEF vars, fiberVars, FiberTypeOK
<1> QED
  BY <1>1, <1>2, <1>3, <1>4, <1>5, <1>6, <1>7, <1>8, <1>9, <1>10, <1>11, <1>12
  DEF Next, Step, Over

LEMMA InitTypeOK == Init => TypeOK
BY FiberAssumption DEF Init, FiberInit, TypeOK, FiberTypeOK, FiberObj, Failures

\* The state of fibers and threads keeps its type, and a main fiber never reaches
\* TERM, whatever the client does with fibers.
THEOREM TypeCorrect == Spec => []TypeOK
<1> QED
  BY InitTypeOK, NextTypeOK, PTL DEF Spec

-----------------------------------------------------------------------------
(* Threads that have resumed from their main fiber only, so far.           *)

\* A thread is on its native stack, or in a coroutine of its own with the way
\* back saved in its main fiber.
ThreadInv(t) ==
  /\ cpu[t] \in Coroutine \cup {t}
  /\ state[t] = "absent" => this[t] = Null
  /\ state[t] \in {"absent", "freed"} => cpu[t] = t
  /\ state[t] \in {"EXEC", "READY"} => this[t] = cpu[t]
  /\ cpu[t] # t => /\ owner[cpu[t]] = t
                   /\ ctx[t] = t
                   /\ state[cpu[t]] = "EXEC"
                   /\ phase[cpu[t]] = "body"
  /\ schedFiber[t] = Null
  /\ "mainYield" \notin used => state[t] # "READY"

\* A coroutine runs, or can be continued, or has ended.
CoroutineInv(c) ==
  /\ ~inSched[c]
  /\ state[c] = "absent" => phase[c] = "entry"
  /\ owner[c] # Null => state[c] \notin {"absent", "freed"}
  /\ state[c] = "EXEC" => \E t \in Thread : cpu[t] = c
  /\ state[c] = "READY" /\ phase[c] # "over" => ctx[c] = c
  /\ state[c] = "TERM" => phase[c] = "over"
  /\ phase[c] = "over" /\ "throw" \notin used => state[c] \in {"TERM", "freed"}

FlatInv ==
  /\ failed # "staleContext"
  /\ used = {} => failed = "none"
  /\ failed = "none" => /\ \A t \in Thread : ThreadInv(t)
                        /\ \A c \in Coroutine : CoroutineInv(c)

\* A nested resume may break all of this, and history remembers it.
Inv == Flat => FlatInv

\* A switch from a thread's native stack into a coroutine that can be continued
\* saves the way back, and disturbs no other saved context.
LEMMA SwapIn ==
  ASSUME FiberTypeOK, NEW t \in Thread, NEW c \in Coroutine,
         cpu[t] = t, ctx[c] = c, SwapContext(t, t, c)
  PROVE  /\ failed' = failed
         /\ cpu' = [cpu EXCEPT ![t] = c]
         /\ ctx'[t] = t
         /\ \A x \in FiberObj \ {t, c} : ctx[x] = x => ctx'[x] = x
<1> DEFINE saved == [ctx EXCEPT ![t] = cpu[t]]
<1>1. t # c /\ t # Null /\ c # Null /\ c # Stale /\ t \in FiberObj /\ c \in FiberObj
  BY FiberAssumption DEF FiberObj
<1>2. saved[c] = c /\ saved[t] = t
  BY <1>1 DEF FiberTypeOK
<1>3. /\ ctx' = [x \in FiberObj |-> IF saved[x] = c THEN Stale ELSE saved[x]]
      /\ cpu' = [cpu EXCEPT ![t] = c]
      /\ failed' = failed
  BY <1>1, <1>2 DEF SwapContext, Saved
<1>4. \A x \in FiberObj \ {t, c} : saved[x] = ctx[x]
  BY DEF FiberTypeOK
<1> HIDE DEF saved
<1> QED
  BY <1>1, <1>2, <1>3, <1>4

\* A switch from a coroutine back to the saved native stack saves the coroutine.
LEMMA SwapBack ==
  ASSUME FiberTypeOK, NEW t \in Thread, NEW c \in Coroutine,
         cpu[t] = c, ctx[t] = t, SwapContext(t, c, t)
  PROVE  /\ failed' = failed
         /\ cpu' = [cpu EXCEPT ![t] = t]
         /\ ctx'[c] = c
         /\ \A x \in FiberObj \ {t, c} : ctx[x] = x => ctx'[x] = x
<1> DEFINE saved == [ctx EXCEPT ![c] = cpu[t]]
<1>1. t # c /\ t # Null /\ c # Null /\ t # Stale /\ t \in FiberObj /\ c \in FiberObj
  BY FiberAssumption DEF FiberObj
<1>2. saved[c] = c /\ saved[t] = t
  BY <1>1 DEF FiberTypeOK
<1>3. /\ ctx' = [x \in FiberObj |-> IF saved[x] = t THEN Stale ELSE saved[x]]
      /\ cpu' = [cpu EXCEPT ![t] = t]
      /\ failed' = failed
  BY <1>1, <1>2 DEF SwapContext, Saved
<1>4. \A x \in FiberObj \ {t, c} : saved[x] = ctx[x]
  BY DEF FiberTypeOK
<1> HIDE DEF saved
<1> QED
  BY <1>1, <1>2, <1>3, <1>4

\* A main fiber that yields to itself goes on, or dies of t_scheduler_fiber.
LEMMA SwapMain ==
  ASSUME FiberTypeOK, NEW t \in Thread, cpu[t] = t, schedFiber[t] = Null,
         state[t] = "EXEC", SwapOutMain(t)
  PROVE  \/ failed' = "nullContext"
         \/ /\ failed' = failed
            /\ cpu' = cpu
            /\ \A x \in FiberObj \ {t} : ctx[x] = x => ctx'[x] = x
<1>1. t # Null /\ t # Stale /\ t \in FiberObj
  BY FiberAssumption DEF FiberObj
<1>2. ThreadFiber(t) = t
  BY DEF ThreadFiber
<1>3. SwapContext(t, t, Null) \/ SwapContext(t, t, t)
  BY <1>2 DEF SwapOutMain
<1>4. CASE SwapContext(t, t, Null)
  BY <1>4 DEF SwapContext, Fault, Saved
<1>5. CASE SwapContext(t, t, t)
  <2> DEFINE saved == [ctx EXCEPT ![t] = cpu[t]]
  <2>1. saved[t] = t
    BY <1>1 DEF FiberTypeOK
  <2>2. /\ ctx' = [x \in FiberObj |-> IF saved[x] = t THEN Stale ELSE saved[x]]
        /\ cpu' = [cpu EXCEPT ![t] = t]
        /\ failed' = failed
    BY <1>1, <1>5, <2>1 DEF SwapContext, Saved
  <2>3. \A x \in FiberObj \ {t} : saved[x] = ctx[x]
    BY DEF FiberTypeOK
  <2>4. cpu' = cpu
    BY <2>2 DEF FiberTypeOK
  <2> HIDE DEF saved
  <2> QED
    BY <2>2, <2>3, <2>4
<1> QED
  BY <1>3, <1>4, <1>5

\* One step that does not nest keeps every thread's way back and every
\* suspended coroutine.
LEMMA NextFlatInv ==
  ASSUME Flat', Flat, TypeOK, FlatInv, [Next]_vars
  PROVE  FlatInv'
<1> USE FiberAssumption DEF TypeOK
<1>1. CASE failed # "none"
  BY <1>1 DEF FlatInv, Next, Step, Over, vars, fiberVars, Alive, GetThis, New, Resume,
              ResumeWrongly, Yield, MainYield, Return, Throw, Reset, Release, Exit,
              Use, ThreadInv, CoroutineInv
<1>2. CASE UNCHANGED vars
  BY <1>2 DEF FlatInv, vars, fiberVars, ThreadInv, CoroutineInv
<1>3. ASSUME failed = "none", NEW t \in Thread, Step(t)
      PROVE  FlatInv'
  <2>1. (\A u \in Thread : ThreadInv(u)) /\ (\A c \in Coroutine : CoroutineInv(c))
    BY <1>3 DEF FlatInv
  <2>2. \A u \in Thread : u \in FiberObj /\ u \notin Coroutine /\ u # Null /\ u # Stale
    BY DEF FiberObj
  <2>3. \A c \in Coroutine : c \in FiberObj /\ c \notin Thread /\ c # Null /\ c # Stale
    BY DEF FiberObj
  <2>4. Alive(t) /\ ~InBody(t) => cpu[t] = t /\ ThreadFiber(t) = t
    BY <2>1 DEF InBody, ThreadInv, Alive, ThreadFiber
  <2>5. CASE GetThis(t)
    BY <1>3, <2>1, <2>2, <2>3, <2>5
    DEF GetThis, GetThisFirst, SetThis, FiberTypeOK, FlatInv, ThreadInv, CoroutineInv
  <2>6. ASSUME NEW c \in Coroutine, New(t, c) PROVE FlatInv'
    BY <1>3, <2>1, <2>2, <2>3, <2>6
    DEF New, Construct, FiberTypeOK, FlatInv, ThreadInv, CoroutineInv
  <2>7. ASSUME NEW c \in Coroutine, ResumeWrongly(t, c) PROVE FlatInv'
    BY <2>7 DEF ResumeWrongly, Use, Fault, FlatInv
  <2>8. ASSUME NEW c \in Coroutine, Resume(t, c) PROVE FlatInv'
    <3>1. /\ cpu[t] = t /\ ThreadFiber(t) = t /\ Home(t, c) = t
          /\ state[t] \in {"EXEC", "READY"}
          /\ owner[c] = t /\ state[c] = "READY" /\ used' = used
      BY <2>1, <2>3, <2>4, <2>8
      DEF Resume, Use, Flat, Home, CoroutineInv, MayResume, Alive, FiberTypeOK
    <3>2. CASE phase[c] = "over"
      <4>1. failed' = "neverReach" /\ "throw" \in used'
        BY <2>1, <2>8, <3>1, <3>2 DEF Resume, Enter, Fault, CoroutineInv, SetThis
      <4> QED
        BY <4>1 DEF FlatInv
    <3>3. CASE phase[c] # "over"
      <4>1. ctx[c] = c /\ SwapContext(t, t, c)
        BY <2>1, <2>8, <3>1, <3>3 DEF Resume, Enter, CoroutineInv, SetThis
      <4>2. /\ failed' = "none" /\ cpu' = [cpu EXCEPT ![t] = c] /\ ctx'[t] = t
            /\ \A x \in FiberObj \ {t, c} : ctx[x] = x => ctx'[x] = x
        BY <1>3, <3>1, <4>1, SwapIn
      <4>3. /\ this' = [this EXCEPT ![t] = c] /\ state' = [state EXCEPT ![c] = "EXEC"]
            /\ phase' = [phase EXCEPT ![c] = "body"]
            /\ UNCHANGED <<inSched, schedFiber, owner, used>>
        BY <2>8, <3>1, <3>3 DEF Resume, Enter, SetThis
      <4>4. ASSUME NEW u \in Thread PROVE ThreadInv(u)'
        BY <2>1, <2>2, <2>3, <3>1, <4>2, <4>3 DEF ThreadInv, FiberTypeOK
      <4>5. ASSUME NEW d \in Coroutine PROVE CoroutineInv(d)'
        BY <2>1, <2>2, <2>3, <3>1, <4>2, <4>3 DEF CoroutineInv, FiberTypeOK
      <4> QED
        BY <4>2, <4>4, <4>5 DEF FlatInv
    <3> QED
      BY <3>2, <3>3
  \* A coroutine that leaves its stack for the native one.
  <2>9. ASSUME NEW c \in Coroutine, cpu[t] = c, SwapOut(t, c), Alive(t),
               this' = [this EXCEPT ![t] = ThreadFiber(t)],
               UNCHANGED <<inSched, schedFiber, owner>>, used \subseteq used',
               \/ state' = [state EXCEPT ![c] = "READY"] /\ phase' = phase
               \/ state' = [state EXCEPT ![c] = "TERM"] /\ phase' = [phase EXCEPT ![c] = "over"]
               \/ /\ state' = [state EXCEPT ![c] = "READY"]
                  /\ phase' = [phase EXCEPT ![c] = "over"]
                  /\ "throw" \in used'
        PROVE  FlatInv'
    <3>1. /\ ThreadFiber(t) = t /\ Home(t, c) = t /\ ctx[t] = t /\ owner[c] = t
          /\ state[t] \in {"EXEC", "READY"} /\ state[c] = "EXEC" /\ phase[c] = "body"
      BY <2>1, <2>2, <2>3, <2>9 DEF ThreadInv, CoroutineInv, Home, ThreadFiber, Alive
    <3>2. SwapContext(t, c, t)
      BY <2>9, <3>1 DEF SwapOut
    <3>3. /\ failed' = "none" /\ cpu' = [cpu EXCEPT ![t] = t] /\ ctx'[c] = c
          /\ \A x \in FiberObj \ {t, c} : ctx[x] = x => ctx'[x] = x
      BY <1>3, <2>9, <3>1, <3>2, SwapBack
    <3>4. ASSUME NEW u \in Thread PROVE ThreadInv(u)'
      BY <2>1, <2>2, <2>3, <2>9, <3>1, <3>3 DEF ThreadInv, FiberTypeOK
    <3>5. ASSUME NEW d \in Coroutine PROVE CoroutineInv(d)'
      BY <2>1, <2>2, <2>3, <2>9, <3>1, <3>3 DEF CoroutineInv, FiberTypeOK
    <3> QED
      BY <3>3, <3>4, <3>5 DEF FlatInv
  <2>10. CASE Yield(t)
    <3>1. cpu[t] \in Coroutine /\ this[t] = cpu[t] /\ state[cpu[t]] = "EXEC"
      BY <2>1, <2>2, <2>10 DEF Yield, InBody, Alive, ThreadInv
    <3> QED
      BY <2>9, <2>10, <3>1 DEF Yield, MarkReady, FiberTypeOK, SetThis
  <2>11. CASE Return(t)
    BY <2>9, <2>11 DEF Return, InBody, FinishBody, SetThis, Ended
  <2>12. CASE Throw(t)
    <3>1. cpu[t] \in Coroutine /\ state[cpu[t]] = "EXEC"
      BY <2>1, <2>2, <2>12 DEF Throw, InBody, ThreadInv
    <3> QED
      BY <2>9, <2>12, <3>1 DEF Throw, Use, MarkThrown, MarkReady, FiberTypeOK, SetThis
  <2>13. CASE MainYield(t)
    <3>1. /\ "mainYield" \in used' /\ used \subseteq used'
          /\ this[t] = t /\ cpu[t] = t /\ schedFiber[t] = Null
      BY <2>1, <2>13 DEF MainYield, Use, Alive, ThreadInv
    <3>2. CASE state[t] # "EXEC"
      BY <2>13, <3>1, <3>2 DEF MainYield, Fault, FlatInv
    <3>3. CASE state[t] = "EXEC"
      <4>1. /\ this' = this /\ state' = [state EXCEPT ![t] = "READY"] /\ SwapOutMain(t)
            /\ UNCHANGED <<phase, inSched, schedFiber, owner>>
        BY <2>2, <2>13, <3>1, <3>3 DEF MainYield, MarkReady, ThreadFiber, FiberTypeOK, SetThis
      <4>2. CASE failed' = "nullContext"
        BY <3>1, <4>2 DEF FlatInv
      <4>3. CASE /\ failed' = failed /\ cpu' = cpu
                 /\ \A x \in FiberObj \ {t} : ctx[x] = x => ctx'[x] = x
        <5>1. ASSUME NEW u \in Thread PROVE ThreadInv(u)'
          BY <2>1, <2>2, <2>3, <3>1, <4>1, <4>3 DEF ThreadInv, FiberTypeOK
        <5>2. ASSUME NEW d \in Coroutine PROVE CoroutineInv(d)'
          BY <2>1, <2>2, <2>3, <3>1, <4>1, <4>3 DEF CoroutineInv, FiberTypeOK
        <5> QED
          BY <1>3, <3>1, <4>3, <5>1, <5>2 DEF FlatInv
      <4> QED
        BY <3>1, <3>3, <4>1, <4>2, <4>3, SwapMain
    <3> QED
      BY <3>2, <3>3
  <2>14. ASSUME NEW c \in Coroutine, Reset(t, c) PROVE FlatInv'
    <3>1. CASE state[c] # "TERM"
      BY <2>14, <3>1 DEF Reset, Use, ResetFiber, Fault, FlatInv
    <3>2. CASE state[c] = "TERM"
      BY <1>3, <2>1, <2>2, <2>3, <2>14, <3>2
      DEF Reset, Use, ResetFiber, FiberTypeOK, FlatInv, ThreadInv, CoroutineInv
    <3> QED
      BY <3>1, <3>2
  <2>15. ASSUME NEW c \in Coroutine, Release(t, c) PROVE FlatInv'
    <3>1. \A u \in Thread : cpu[u] # c
      BY <2>1, <2>2, <2>3, <2>15 DEF Release, ThreadInv
    <3>2. CASE ~SelfOwned(c) /\ state[c] # "TERM"
      BY <2>1, <2>15, <3>2
      DEF Release, Use, Destroy, SelfOwned, Fault, FlatInv, CoroutineInv, FiberTypeOK
    <3>3. CASE ~SelfOwned(c) /\ state[c] = "TERM"
      BY <1>3, <2>1, <2>2, <2>3, <2>15, <3>1, <3>3
      DEF Release, Use, Destroy, FiberTypeOK, FlatInv, ThreadInv, CoroutineInv
    <3>4. CASE SelfOwned(c)
      BY <1>3, <2>1, <2>2, <2>3, <2>15, <3>1, <3>4
      DEF Release, Use, FiberTypeOK, FlatInv, ThreadInv, CoroutineInv
    <3> QED
      BY <3>2, <3>3, <3>4
  <2>16. CASE Exit(t)
    <3>1. CASE state[t] = "EXEC"
      BY <1>3, <2>1, <2>2, <2>3, <2>16, <3>1
      DEF Exit, InBody, DestroyMain, FiberTypeOK, FlatInv, ThreadInv, CoroutineInv
    <3>2. CASE state[t] # "EXEC"
      BY <2>1, <2>16, <3>2 DEF Exit, Alive, DestroyMain, Fault, FlatInv, ThreadInv
    <3> QED
      BY <3>1, <3>2
  <2> QED
    BY <1>3, <2>5, <2>6, <2>7, <2>8, <2>10, <2>11, <2>12, <2>13, <2>14, <2>15, <2>16 DEF Step
<1> QED
  BY <1>1, <1>2, <1>3 DEF Next, Over

\* A nested resume stays in the history.
LEMMA NextInv == TypeOK /\ Inv /\ [Next]_vars => Inv'
<1> SUFFICES ASSUME TypeOK, Inv, [Next]_vars, Flat'
             PROVE  FlatInv'
  BY DEF Inv
<1>1. used \subseteq used'
  BY DEF Next, Step, Over, vars, fiberVars, GetThis, New, Resume, ResumeWrongly, Yield,
         MainYield, Return, Throw, Reset, Release, Exit, Use
<1>2. Flat
  BY <1>1 DEF Flat
<1> QED
  BY <1>2, NextFlatInv DEF Inv

LEMMA InitInv == Init => Inv
BY FiberAssumption
DEF Init, FiberInit, Inv, FlatInv, ThreadInv, CoroutineInv, FiberObj

LEMMA Invariance == Spec => [](TypeOK /\ Inv)
<1>1. Init => TypeOK /\ Inv
  BY InitTypeOK, InitInv
<1>2. TypeOK /\ Inv /\ [Next]_vars => (TypeOK /\ Inv)'
  BY NextTypeOK, NextInv
<1> QED
  BY <1>1, <1>2, PTL DEF Spec

\* While only main fibers resume, GetThis() is always the fiber whose stack the
\* thread executes.
THEOREM ThisIsTheRunningFiber == Spec => []ThisIsRunning
<1>1. Inv => ThisIsRunning
  BY DEF Inv, FlatInv, ThreadInv, ThisIsRunning, Alive
<1> QED
  BY <1>1, Invariance, PTL

\* While only main fibers resume, a coroutine is in state EXEC exactly while one
\* of the threads executes it.
THEOREM ExecIsTheRunningState == Spec => []ExecIsRunning
<1>1. Inv => ExecIsRunning
  BY FiberAssumption DEF Inv, FlatInv, ThreadInv, CoroutineInv, ExecIsRunning
<1> QED
  BY <1>1, Invariance, PTL

\* While only main fibers resume, every thread inside a coroutine can return to
\* its native stack, and every suspended coroutine can be continued.
THEOREM WayBackIsKept == Spec => []WayBack
<1>1. Inv => WayBack
  BY DEF Inv, FlatInv, ThreadInv, CoroutineInv, WayBack
<1> QED
  BY <1>1, Invariance, PTL

\* While only main fibers resume, no switch goes to a context left behind, not
\* even with exceptions, stray yields, discarded coroutines and wrong calls.
THEOREM NoStaleSwitch == Spec => []NeverStale
<1>1. Inv => NeverStale
  BY DEF Inv, FlatInv, NeverStale
<1> QED
  BY <1>1, Invariance, PTL

\* A client that also runs its callbacks to their end and lets none throw never
\* fails an assertion of fiber.cpp.
THEOREM WellBehavedNeverFails == Spec => []NeverFails
<1>1. Inv => NeverFails
  BY DEF Inv, FlatInv, Flat, NeverFails
<1> QED
  BY <1>1, Invariance, PTL
=============================================================================
