---------------------------- MODULE FiberThreads ----------------------------
(***************************************************************************)
(* Threads that use Fiber directly, without a scheduler, as                *)
(* test/common/test_fiber.cpp and test_fiber2.cpp do: GetThis() once, then *)
(* any sequence of construction, resume, yield, return, reset and release. *)
(* Every step is taken by the code that runs on the thread's current stack.*)
(*                                                                         *)
(* What client code may do beyond that is the constant Moves, and what it  *)
(* has done so far the variable used:                                      *)
(*   "nested"    a coroutine resumes another coroutine                     *)
(*   "throw"     a callback ends in an exception                           *)
(*   "mainYield" yield() is called on a thread's main fiber                *)
(*   "discard"   a coroutine is let go before its callback has ended       *)
(*   "careless"  resume() and reset() are called whatever the state is     *)
(***************************************************************************)
EXTENDS Fiber

CONSTANT Moves

ASSUME MovesAssumption == Moves \subseteq {"nested", "throw", "mainYield", "discard", "careless"}

VARIABLES
  owner,   \* the thread whose code holds each coroutine; none migrates here
  used     \* history: the moves made

vars == <<fiberVars, owner, used>>

TypeOK ==
  /\ FiberTypeOK
  /\ failed \in Failures \cup {"none"}
  /\ owner \in [Coroutine -> Thread \cup {Null}]
  /\ used \subseteq Moves

Init ==
  /\ FiberInit
  /\ owner = [c \in Coroutine |-> Null]
  /\ used = {}

\* The thread has called GetThis() and not exited, and the program goes on.
Alive(t) == failed = "none" /\ state[t] \in {"EXEC", "READY"}

InBody(t) == cpu[t] \in Coroutine

\* The client makes a move if the condition holds, and none if it does not.
Use(move, condition) ==
  /\ condition => move \in Moves
  /\ used' = IF condition THEN used \cup {move} ELSE used

-----------------------------------------------------------------------------
\* The thread's first Fiber::GetThis().
GetThis(t) ==
  /\ failed = "none"
  /\ GetThisFirst(t)
  /\ UNCHANGED <<schedFiber, failed, owner, used>>

\* Fiber::ptr fiber(new Fiber(cb, 0, false)).
New(t, c) ==
  /\ Alive(t)
  /\ Construct(c, FALSE)
  /\ owner' = [owner EXCEPT ![c] = t]
  /\ UNCHANGED <<phase, cpu, this, schedFiber, failed, used>>

\* fiber->resume() from the main fiber, or nested in another coroutine.
Resume(t, c) ==
  /\ Alive(t)
  /\ owner[c] = t
  /\ MayResume(c)
  /\ Use("nested", InBody(t))
  /\ Enter(t, c)
  /\ UNCHANGED owner

\* fiber->resume() of a coroutine that runs or has ended.
ResumeWrongly(t, c) ==
  /\ Alive(t)
  /\ owner[c] = t
  /\ ~MayResume(c)
  /\ Use("careless", TRUE)
  /\ Fault("resumeState")
  /\ UNCHANGED <<state, phase, ctx, cpu, this, inSched, schedFiber, owner>>

\* Fiber::GetThis()->yield() from a callback.
Yield(t) ==
  LET f == this[t]
  IN /\ Alive(t)
     /\ InBody(t)
     /\ f \in Coroutine
     /\ MarkReady(t, f)
     /\ SwapOut(t, f)
     /\ UNCHANGED <<phase, inSched, schedFiber, owner, used>>

\* Fiber::GetThis()->yield() when the current fiber is the main one.
MainYield(t) ==
  /\ Alive(t)
  /\ this[t] = t
  /\ Use("mainYield", TRUE)
  /\ IF state[t] = "EXEC"
     THEN MarkReady(t, t) /\ SwapOutMain(t)
     ELSE Fault("yieldState") /\ UNCHANGED <<state, this, ctx, cpu>>
  /\ UNCHANGED <<phase, inSched, schedFiber, owner>>

\* The callback returns.
Return(t) ==
  /\ Alive(t)
  /\ InBody(t)
  /\ FinishBody(t, cpu[t])
  /\ UNCHANGED <<owner, used>>

\* The callback throws.
Throw(t) ==
  /\ Alive(t)
  /\ InBody(t)
  /\ Use("throw", TRUE)
  /\ MarkThrown(t, cpu[t])
  /\ SwapOut(t, cpu[t])
  /\ UNCHANGED <<inSched, schedFiber, owner>>

\* fiber->reset(cb).
Reset(t, c) ==
  /\ Alive(t)
  /\ owner[c] = t
  /\ Use("careless", state[c] # "TERM")
  /\ ResetFiber(c)
  /\ UNCHANGED <<cpu, this, inSched, schedFiber, owner>>

\* The owner lets go of a coroutine.  A suspended one keeps itself alive, and leaks.
Release(t, c) ==
  /\ Alive(t)
  /\ owner[c] = t
  /\ cpu[t] # c
  /\ Use("discard", phase[c] # "over")
  /\ IF SelfOwned(c) THEN UNCHANGED <<state, failed>> ELSE Destroy(c)
  /\ owner' = [owner EXCEPT ![c] = Null]
  /\ UNCHANGED <<phase, ctx, cpu, this, inSched, schedFiber>>

\* The thread function returns, its own pointers gone; t_thread_fiber goes away
\* with the thread.
Exit(t) ==
  /\ Alive(t)
  /\ ~InBody(t)
  /\ \A c \in Coroutine : owner[c] # t
  /\ DestroyMain(t)
  /\ UNCHANGED <<phase, ctx, cpu, inSched, schedFiber, owner, used>>

\* The program is over: every thread has exited, or it was ended.
Over ==
  /\ failed # "none" \/ \A t \in Thread : state[t] = "freed"
  /\ UNCHANGED vars

Step(t) ==
  \/ GetThis(t) \/ Yield(t) \/ MainYield(t) \/ Return(t) \/ Throw(t) \/ Exit(t)
  \/ \E c \in Coroutine :
       New(t, c) \/ Resume(t, c) \/ ResumeWrongly(t, c) \/ Reset(t, c) \/ Release(t, c)

Next ==
  \/ \E t \in Thread : Step(t)
  \/ Over

Spec == Init /\ [][Next]_vars

-----------------------------------------------------------------------------
(* Properties.                                                             *)

\* Only main fibers have resumed so far.
Flat == "nested" \notin used

\* Without nested resumes t_fiber tells the truth: between two operations
\* GetThis() is the fiber whose stack the thread executes.  yield() relies on
\* it, and so do the fiber ids in the log.
ThisIsRunning ==
  Flat => \A t \in Thread : Alive(t) => this[t] = cpu[t]

\* Without nested resumes a coroutine is in state EXEC exactly while some thread
\* executes its stack.
ExecIsRunning ==
  Flat /\ failed = "none" =>
    \A c \in Coroutine : state[c] = "EXEC" <=> \E t \in Thread : cpu[t] = c

\* Without nested resumes, whatever coroutine a thread is in, the way back to its
\* native stack is saved in t_thread_fiber, and every suspended callback can be
\* continued.
WayBack ==
  Flat /\ failed = "none" =>
    /\ \A t \in Thread : cpu[t] # t => ctx[t] = t
    /\ \A c \in Coroutine : state[c] = "READY" /\ phase[c] # "over" => ctx[c] = c

\* Exceptions, stray yields of the main fiber, discarded coroutines and calls in
\* the wrong state end in an assertion at worst: while only main fibers resume,
\* no switch goes to a context that has been left behind.
NeverStale == Flat => failed # "staleContext"

\* A client that resumes only from the main fiber, whose callbacks do not
\* throw and are run to their end, is never ended by an assertion or a lost
\* context.
NeverFails == used = {} => failed = "none"
=============================================================================
