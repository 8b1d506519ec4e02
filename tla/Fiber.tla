------------------------------- MODULE Fiber -------------------------------
(***************************************************************************)
(* The coroutine primitive: class Fiber of code/common/fiber.h and         *)
(* fiber.cpp.  The module declares the state a Fiber object and the thread *)
(* locals of fiber.cpp have, and one operator per operation.  FiberThreads *)
(* lets threads use fibers directly, Scheduler runs them from a queue.     *)
(*                                                                         *)
(* Stacks and contexts.  A ucontext_t is modelled by the stack it would    *)
(* continue.  A context that has been loaded, or whose stack has run on    *)
(* since it was saved, is Stale: switching to it would re-enter a stack at *)
(* a point it has already left, so the model stops there with a failure.   *)
(* The main fiber of a thread (t_thread_fiber, Fiber::Fiber()) is named by *)
(* the thread itself, and so is the thread's native stack.                 *)
(*                                                                         *)
(* A failed assertion, a null dereference and a jump to a Stale context    *)
(* end the program: "failed" names which.                                  *)
(*                                                                         *)
(* An operator called Mut... is a plausible slip in the operation defined  *)
(* after it; no specification uses it.  It is there to be put in the       *)
(* operation's place, to see which property notices.                       *)
(***************************************************************************)
CONSTANTS Thread,      \* threads of the process
          Coroutine,   \* Fiber objects built by Fiber(cb, stacksize, run_in_scheduler)
          Null,        \* nullptr
          Stale        \* a context that cannot be continued

ASSUME FiberAssumption ==
  /\ Thread \cap Coroutine = {}
  /\ Null \notin Thread \cup Coroutine
  /\ Stale \notin Thread \cup Coroutine

FiberObj == Thread \cup Coroutine

VARIABLES
  state,       \* m_state; "absent" before construction, "freed" after ~Fiber
  phase,       \* where MainFunc stands on the fiber's stack
  ctx,         \* m_ctx: the stack a switch to this object continues
  cpu,         \* the stack each thread executes on
  this,        \* t_fiber
  inSched,     \* m_scheduler of a coroutine: it is resumed from, and yields to,
               \* t_scheduler_fiber
  schedFiber,  \* t_scheduler_fiber of scheduler.cpp, read through GetMainFiber()
  failed       \* "none", or what ended the program

fiberVars == <<state, phase, ctx, cpu, this, inSched, schedFiber, failed>>

Failures == {"resumeState", "yieldState", "resetState", "destroyState",
             "neverReach", "nullContext", "staleContext"}

FiberTypeOK ==
  /\ state \in [FiberObj -> {"absent", "READY", "EXEC", "TERM", "freed"}]
  /\ \A t \in Thread : state[t] # "TERM"
  /\ phase \in [Coroutine -> {"entry", "body", "over"}]
  /\ ctx \in [FiberObj -> FiberObj \cup {Stale}]
  /\ cpu \in [Thread -> FiberObj]
  /\ this \in [Thread -> FiberObj \cup {Null}]
  /\ inSched \in [Coroutine -> BOOLEAN]
  /\ schedFiber \in [Thread -> FiberObj \cup {Null}]

Fault(what) == failed' = what

FiberInit ==
  /\ state = [x \in FiberObj |-> "absent"]
  /\ phase = [c \in Coroutine |-> "entry"]
  /\ ctx = [x \in FiberObj |-> Stale]
  /\ cpu = [t \in Thread |-> t]
  /\ this = [t \in Thread |-> Null]
  /\ inSched = [c \in Coroutine |-> FALSE]
  /\ schedFiber = [t \in Thread |-> Null]
  /\ failed = "none"

-----------------------------------------------------------------------------
\* t_thread_fiber.get() on thread t.
ThreadFiber(t) == IF state[t] \in {"absent", "freed"} THEN Null ELSE t

\* The fiber whose m_ctx keeps the resumer while f runs on thread t.
Home(t, f) == IF inSched[f] THEN schedFiber[t] ELSE ThreadFiber(t)

\* Mutant: setcontext in place of swapcontext, so that nothing is saved.
MutSaved(t, save) == ctx

\* The contexts once that of thread t is saved.
Saved(t, save) == [ctx EXCEPT ![save] = cpu[t]]

\* swapcontext(&save->m_ctx, &load->m_ctx) on thread t.
SwapContext(t, save, load) ==
  IF Null \in {save, load}
  THEN Fault("nullContext") /\ UNCHANGED <<ctx, cpu>>
  ELSE LET saved == Saved(t, save)
           dest  == saved[load]
       IN IF dest = Stale
          THEN Fault("staleContext") /\ UNCHANGED <<ctx, cpu>>
          ELSE /\ ctx' = [x \in FiberObj |-> IF saved[x] = dest THEN Stale ELSE saved[x]]
               /\ cpu' = [cpu EXCEPT ![t] = dest]
               /\ UNCHANGED failed

-----------------------------------------------------------------------------
\* Mutant: SetThis is left out.
MutSetThis(t, f) == UNCHANGED this

\* Fiber::SetThis() on thread t.
SetThis(t, f) == this' = [this EXCEPT ![t] = f]

\* Fiber::GetThis() on a thread that has no fiber yet: Fiber() is built and
\* becomes t_fiber and t_thread_fiber.
GetThisFirst(t) ==
  /\ this[t] = Null
  /\ state[t] = "absent"
  /\ SetThis(t, t)
  /\ state' = [state EXCEPT ![t] = "EXEC"]
  /\ UNCHANGED <<phase, ctx, cpu, inSched>>

\* Fiber(cb, stacksize, run_in_scheduler): makecontext points m_ctx at a new stack.
Construct(f, runInScheduler) ==
  /\ state[f] = "absent"
  /\ state' = [state EXCEPT ![f] = "READY"]
  /\ ctx' = [ctx EXCEPT ![f] = f]
  /\ inSched' = [inSched EXCEPT ![f] = runInScheduler]

\* The assertion at the top of resume().
MayResume(f) == state[f] \notin {"TERM", "EXEC"}

\* resume() past its assertion: SetThis, EXEC, swapcontext.  A first resume
\* enters MainFunc; one after the fiber's last yield falls out of that yield
\* into the ASSERT2 that ends MainFunc.
Enter(t, f) ==
  /\ SetThis(t, f)
  /\ state' = [state EXCEPT ![f] = "EXEC"]
  /\ IF phase[f] = "over"
     THEN Fault("neverReach") /\ UNCHANGED <<phase, ctx, cpu>>
     ELSE /\ phase' = [phase EXCEPT ![f] = "body"]
          /\ SwapContext(t, Home(t, f), f)
  /\ UNCHANGED <<inSched, schedFiber>>

\* Mutant: yield() without READY.
MutMarkReadyExec(t, f) == SetThis(t, ThreadFiber(t)) /\ UNCHANGED state

\* yield() up to its swapcontext: the state is READY before the context is saved.
MarkReady(t, f) ==
  /\ SetThis(t, ThreadFiber(t))
  /\ state' = [state EXCEPT ![f] = IF @ = "TERM" THEN @ ELSE "READY"]

\* The swapcontext of yield().
SwapOut(t, f) == SwapContext(t, f, Home(t, f))

\* The same on a main fiber: Fiber() leaves m_scheduler uninitialised, so the
\* branch taken is any.
SwapOutMain(t) ==
  \E garbage \in BOOLEAN :
    SwapContext(t, t, IF garbage THEN schedFiber[t] ELSE ThreadFiber(t))

\* Mutants: it is not set, so that yield() leaves READY; and it is through t_fiber, after
\* yield() moved that to the main fiber.
MutEndedReady(t, f) == [state EXCEPT ![f] = "READY"]
MutEndedLate(t, f) == [state EXCEPT ![f] = "READY", ![t] = "TERM"]

\* The state of a fiber that ends on thread t is set.
Ended(t, f) == [state EXCEPT ![f] = "TERM"]

\* MainFunc once the callback returned: TERM, then yield() for the last time.
FinishBody(t, f) ==
  /\ state' = Ended(t, f)
  /\ phase' = [phase EXCEPT ![f] = "over"]
  /\ SetThis(t, ThreadFiber(t))
  /\ SwapOut(t, f)
  /\ UNCHANGED <<inSched, schedFiber>>

\* MainFunc once the callback threw: both handlers only log, so the yield()
\* that follows leaves the fiber READY.
MarkThrown(t, f) ==
  /\ MarkReady(t, f)
  /\ phase' = [phase EXCEPT ![f] = "over"]

\* Fiber::reset(cb): the stack is reused for another callback.
ResetFiber(f) ==
  IF state[f] = "TERM"
  THEN /\ state' = [state EXCEPT ![f] = "READY"]
       /\ phase' = [phase EXCEPT ![f] = "entry"]
       /\ ctx' = [ctx EXCEPT ![f] = f]
       /\ UNCHANGED failed
  ELSE Fault("resetState") /\ UNCHANGED <<state, phase, ctx>>

\* MainFunc's "cur", and the temporary of GetThis() in a suspended yield(),
\* keep a fiber alive while its callback has not returned.
SelfOwned(f) == phase[f] = "body"

\* ~Fiber of a coroutine whose last shared_ptr goes away.
Destroy(f) ==
  IF state[f] = "TERM"
  THEN state' = [state EXCEPT ![f] = "freed"] /\ UNCHANGED failed
  ELSE Fault("destroyState") /\ UNCHANGED state

\* ~Fiber of the main fiber, when its thread exits.
DestroyMain(t) ==
  IF state[t] = "EXEC"
  THEN /\ state' = [state EXCEPT ![t] = "freed"]
       /\ this' = [this EXCEPT ![t] = IF @ = t THEN Null ELSE @]
       /\ UNCHANGED failed
  ELSE Fault("destroyState") /\ UNCHANGED <<state, this>>
=============================================================================
