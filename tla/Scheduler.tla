----------------------------- MODULE Scheduler -----------------------------
(***************************************************************************)
(* The N-M coroutine scheduler: class Scheduler of code/common/scheduler.h *)
(* and scheduler.cpp.  One thread, the Caller, constructs the scheduler,   *)
(* schedules, calls start() and stop() and destroys it; the Workers are    *)
(* the threads start() creates.  With UseCaller the caller runs run() too, *)
(* inside stop(), on the coroutine Root (m_rootFiber).                     *)
(*                                                                         *)
(* Steps.  A section that holds m_mutex is one step.  Between two steps of *)
(* a thread anything may happen: the window between taking a task and      *)
(* resuming its fiber, and the one inside yield() between m_state = READY  *)
(* and swapcontext, are states of their own.  tickle() is empty in the     *)
(* code and is left out; m_useCaller is the constant UseCaller, and        *)
(* m_rootFiber is set exactly when it holds.                               *)
(*                                                                         *)
(* A task for a function carries the name of the Fiber that run() will     *)
(* build for it.  The idle fiber of a thread keeps no state between two    *)
(* visits but whether it has ended (idleDone).                             *)
(*                                                                         *)
(* What tasks and the client do is the constant Moves:                     *)
(*   "requeue"  a task schedules its own fiber, to any thread, and yields  *)
(*   "pinned"   the same, to the thread it runs on                         *)
(*   "park"     a task hands its fiber to a wait list and yields; any code *)
(*              may later schedule what is on the list                     *)
(*   "spawn"    a task schedules a new task                                *)
(*   "pin"      new tasks may be pinned to a thread that executes run()    *)
(*   "again"    a task schedules its own fiber and does not yield          *)
(*   "throw"    a task ends in an exception                                *)
(*   "batch"    tasks and the client schedule two jobs in one call          *)
(*   "late"     the client schedules after stop() as well                  *)
(*   "restart"  the client calls start() again before it has joined        *)
(*   "hasty"    the client destroys a scheduler no thread of which has run  *)
(* Operators called Mut... are slips to try, as in Fiber.                  *)
(***************************************************************************)
EXTENDS Fiber, Naturals, Sequences, FiniteSets, SequencesExt

CONSTANTS Caller, Root, UseCaller, Moves,
          MaxQueue    \* bound: no schedule() when m_tasks is this long

ASSUME SchedulerAssumption ==
  /\ Caller \in Thread
  /\ Root \in Coroutine
  /\ UseCaller \in BOOLEAN
  /\ UseCaller \/ Thread # {Caller}   \* assert(threads > 0) of the constructor
  /\ IsFiniteSet(Thread)
  /\ Moves \subseteq {"requeue", "pinned", "park", "spawn", "pin", "again",
                      "throw", "batch", "late", "restart", "hasty"}
  /\ MaxQueue \in Nat

Worker == Thread \ {Caller}
UserFiber == Coroutine \ {Root}
Task == [fiber : UserFiber, cb : BOOLEAN, thread : Thread \cup {Null}]
NoTask == [fiber |-> Null, cb |-> FALSE, thread |-> Null]

VARIABLES
  tasks,      \* m_tasks
  stopping,   \* m_stopping
  active,     \* m_activeThreadCount
  idle,       \* m_idleThreadCount
  pool,       \* m_threads: the threads created and not joined
  pc,         \* where each thread stands
  cur,        \* the task run() holds on each thread
  idleDone,   \* the thread's idle fiber is TERM
  parked,     \* fibers the program's wait list holds
  started,    \* start() has been called
  returned    \* stop() has returned, and the caller did nothing since

schedVars == <<tasks, stopping, active, idle, pool, pc, cur, idleDone, parked>>
history == <<started, returned>>
vars == <<fiberVars, schedVars, history>>

Places == {"off", "user", "stopSet", "join", "done",
           "boot", "loop", "idle", "resume", "enter", "body", "leaving",
           "marked", "after", "gone"}

SchedulerFailures == Failures \cup {"startThreads", "terminate"}

TypeOK ==
  /\ FiberTypeOK
  /\ failed \in SchedulerFailures \cup {"none"}
  /\ tasks \in Seq(Task)
  /\ stopping \in BOOLEAN
  /\ active \in Nat
  /\ idle \in Nat
  /\ pool \in SUBSET Worker
  /\ pc \in [Thread -> Places]
  /\ cur \in [Thread -> Task \cup {NoTask}]
  /\ idleDone \in [Thread -> BOOLEAN]
  /\ parked \in SUBSET UserFiber
  /\ started \in BOOLEAN
  /\ returned \in BOOLEAN

\* After Scheduler(threads, use_caller) on the caller.  With use_caller the
\* caller has a main fiber, and m_rootFiber is its scheduling fiber.
Init ==
  /\ state = [x \in FiberObj |->
       IF ~UseCaller THEN "absent"
       ELSE IF x = Caller THEN "EXEC" ELSE IF x = Root THEN "READY" ELSE "absent"]
  /\ phase = [c \in Coroutine |-> "entry"]
  /\ ctx = [x \in FiberObj |-> IF UseCaller /\ x = Root THEN Root ELSE Stale]
  /\ cpu = [t \in Thread |-> t]
  /\ this = [t \in Thread |-> IF UseCaller /\ t = Caller THEN Caller ELSE Null]
  /\ inSched = [c \in Coroutine |-> FALSE]
  /\ schedFiber = [t \in Thread |-> IF UseCaller /\ t = Caller THEN Root ELSE Null]
  /\ failed = "none"
  /\ tasks = <<>>
  /\ stopping = FALSE
  /\ active = 0
  /\ idle = 0
  /\ pool = {}
  /\ pc = [t \in Thread |-> IF t = Caller THEN "user" ELSE "off"]
  /\ cur = [t \in Thread |-> NoTask]
  /\ idleDone = [t \in Thread |-> FALSE]
  /\ parked = {}
  /\ started = FALSE
  /\ returned = FALSE

-----------------------------------------------------------------------------
\* Thread t stands at place p of a program that has not been ended.
At(t, p) == failed = "none" /\ pc[t] = p

Goto(t, p) == pc' = [pc EXCEPT ![t] = p]

\* scheduleNoLock(): push_back.
Push(f, isCb, thread) ==
  tasks' = Append(tasks, [fiber |-> f, cb |-> isCb, thread |-> thread])

Queued(f) == \E i \in 1..Len(tasks) : tasks[i].fiber = f

Fresh(f) == state[f] = "absent" /\ ~Queued(f) /\ \A t \in Thread : cur[t].fiber # f

\* Mutants: stopping() that forgets the tasks in hand, and that takes the wrong counter.
MutStoppingActive == stopping /\ tasks = <<>>
MutStoppingIdle == stopping /\ tasks = <<>> /\ idle = 0

\* Scheduler::stopping(), under the lock.
Stopping == stopping /\ tasks = <<>> /\ active = 0

\* Some thread has been given run(): the caller always is, in stop().
HasRunners == UseCaller \/ \A w \in Worker : pc[w] # "off"

\* The other shared_ptrs to f while t drops the one its task held.
Referenced(t, f) ==
  \/ Queued(f)
  \/ f \in parked
  \/ SelfOwned(f)
  \/ \E u \in Thread \ {t} : cur[u].fiber = f

-----------------------------------------------------------------------------
(* schedule().  t is the caller outside run(), or a thread inside a task.  *)

MaySchedule(t) ==
  \/ At(t, "user") /\ (stopping => "late" \in Moves)
  \/ At(t, "body") /\ "spawn" \in Moves

\* The threads a task may name: any thread that will execute run().
Pins ==
  {Null} \cup (IF "pin" \notin Moves THEN {}
              ELSE Worker \cup (IF UseCaller THEN {Caller} ELSE {}))

\* schedule(function) and schedule(Fiber::ptr) of a new job.  A Fiber is built
\* by its client, and the client keeps no pointer to it.
Schedule(t, f, isCb, pin) ==
  /\ MaySchedule(t)
  /\ Len(tasks) < MaxQueue
  /\ Fresh(f)
  /\ pin \in Pins
  /\ Push(f, isCb, pin)
  /\ IF isCb THEN UNCHANGED <<state, ctx, inSched>> ELSE Construct(f, TRUE)
  /\ returned' = (returned /\ pc[t] # "user")
  /\ UNCHANGED <<phase, cpu, this, schedFiber, failed, stopping, active, idle,
                 pool, pc, cur, idleDone, parked, started>>

\* What the loop of schedule(begin, end) adds under one lock; its elements are swapped
\* out of the client's list, and empty ones are passed over.
PushAll(fs, isCb) ==
  tasks' = tasks \o [i \in DOMAIN fs |-> [fiber |-> fs[i], cb |-> isCb, thread |-> Null]]

\* schedule(begin, end) of new functions.
ScheduleAll(t, fs) ==
  /\ "batch" \in Moves
  /\ MaySchedule(t)
  /\ Len(tasks) + Len(fs) <= MaxQueue
  /\ \A i \in DOMAIN fs : Fresh(fs[i])
  /\ PushAll(fs, TRUE)
  /\ returned' = (returned /\ pc[t] # "user")
  /\ UNCHANGED <<fiberVars, stopping, active, idle, pool, pc, cur, idleDone, parked,
                 started>>

\* Fibers on the wait list are scheduled again: one, or several by schedule(begin, end).
Wake(t, fs) ==
  /\ \/ At(t, "body")
     \/ At(t, "user") /\ (stopping => "late" \in Moves)
  /\ Len(fs) > 1 => "batch" \in Moves
  /\ Len(tasks) + Len(fs) <= MaxQueue
  /\ ToSet(fs) \subseteq parked
  /\ PushAll(fs, FALSE)
  /\ parked' = parked \ ToSet(fs)
  /\ returned' = (returned /\ pc[t] # "user")
  /\ UNCHANGED <<fiberVars, stopping, active, idle, pool, pc, cur, idleDone,
                 started>>

-----------------------------------------------------------------------------
(* start(), stop() and ~Scheduler on the caller.                           *)

\* start() before m_stopping is set: the early return.
StartNothing ==
  /\ At(Caller, "user")
  /\ ~stopping
  /\ ~started
  /\ started' = TRUE
  /\ UNCHANGED <<fiberVars, schedVars, returned>>

\* start() after m_stopping is set: a thread in run() for every worker.  The
\* thread names are used once.
StartThreads ==
  /\ At(Caller, "user")
  /\ stopping
  /\ IF pool # {}
     THEN "restart" \in Moves /\ Fault("startThreads") /\ UNCHANGED <<pool, pc>>
     ELSE /\ \A w \in Worker : pc[w] = "off"
          /\ pool' = Worker
          /\ pc' = [t \in Thread |-> IF t \in Worker THEN "boot" ELSE pc[t]]
          /\ UNCHANGED failed
  /\ started' = TRUE
  /\ returned' = FALSE
  /\ UNCHANGED <<state, phase, ctx, cpu, this, inSched, schedFiber, tasks, stopping,
                 active, idle, cur, idleDone, parked>>

\* Mutant: the first test of stop() the wrong way round.
MutStopEarly == ~Stopping

\* The first test of stop(): nothing left to do.
StopEarly == Stopping

\* stop(): its first test.
StopCheck ==
  /\ At(Caller, "user")
  /\ IF StopEarly
     THEN returned' = TRUE /\ UNCHANGED pc
     ELSE returned' = FALSE /\ Goto(Caller, "stopSet")
  /\ UNCHANGED <<fiberVars, tasks, stopping, active, idle, pool, cur, idleDone,
                 parked, started>>

\* stop(): m_stopping = true, and run() on the root fiber if there is one.
StopSet ==
  /\ At(Caller, "stopSet")
  /\ stopping' = TRUE
  /\ IF ~UseCaller
     THEN Goto(Caller, "join") /\ UNCHANGED fiberVars
     ELSE IF MayResume(Root)
          THEN Enter(Caller, Root) /\ Goto(Caller, "loop")
          ELSE Fault("resumeState")
               /\ UNCHANGED <<state, phase, ctx, cpu, this, inSched, schedFiber, pc>>
  /\ UNCHANGED <<tasks, active, idle, pool, cur, idleDone, parked, history>>

\* stop(): the swapped-out threads are joined.
Join ==
  /\ At(Caller, "join")
  /\ \A w \in pool : pc[w] = "gone"
  /\ pool' = {}
  /\ Goto(Caller, "user")
  /\ returned' = TRUE
  /\ UNCHANGED <<fiberVars, tasks, stopping, active, idle, cur, idleDone, parked,
                 started>>

\* ~Scheduler, after stop() has returned: m_tasks drops its fibers, then a
\* thread that was not joined ends the program.
Destruct ==
  /\ At(Caller, "user")
  /\ returned
  /\ HasRunners \/ "hasty" \in Moves
  /\ failed' = IF \E i \in 1..Len(tasks) : ~tasks[i].cb /\ ~SelfOwned(tasks[i].fiber)
                                            /\ state[tasks[i].fiber] # "TERM"
               THEN "destroyState"
               ELSE IF pool # {} THEN "terminate" ELSE "none"
  /\ tasks' = <<>>
  /\ Goto(Caller, "done")
  /\ UNCHANGED <<state, phase, ctx, cpu, this, inSched, schedFiber, stopping, active,
                 idle, pool, cur, idleDone, parked, history>>

-----------------------------------------------------------------------------
(* run() on thread t.                                                      *)

\* A worker's first steps: setThis, GetThis, t_scheduler_fiber, the idle fiber.
Boot(t) ==
  /\ At(t, "boot")
  /\ GetThisFirst(t)
  /\ schedFiber' = [schedFiber EXCEPT ![t] = t]
  /\ Goto(t, "loop")
  /\ UNCHANGED <<failed, tasks, stopping, active, idle, pool, cur, idleDone, parked,
                 history>>

\* Mutant: the scan takes no notice of the thread a task is pinned to.
MutEligible(t, task) == task.cb \/ state[task.fiber] # "EXEC"

\* The tests of the scan: not pinned elsewhere, and not a fiber in state EXEC.
Eligible(t, task) ==
  /\ task.thread \in {Null, t}
  /\ task.cb \/ state[task.fiber] # "EXEC"

EligibleAt(t) == {i \in 1..Len(tasks) : Eligible(t, tasks[i])}

\* Mutants: the task found stays in the queue, or the head is erased instead.
MutErase(i) == tasks
MutEraseHead(i) == Tail(tasks)

\* m_tasks.erase(it).
Erase(i) == RemoveAt(tasks, i)

\* The locked section that finds a task: the first one it may take.
Take(t) ==
  /\ At(t, "loop")
  /\ \E i \in EligibleAt(t) :
       /\ \A j \in EligibleAt(t) : i <= j
       /\ cur' = [cur EXCEPT ![t] = tasks[i]]
       /\ tasks' = Erase(i)
  /\ active' = active + 1
  /\ Goto(t, "resume")
  /\ UNCHANGED <<fiberVars, stopping, idle, pool, idleDone, parked, history>>

\* Mutant: ++m_idleThreadCount is missing.
MutOneMoreIdle == idle

\* ++m_idleThreadCount.
OneMoreIdle == idle + 1

\* The locked section that finds none, while the idle fiber lives.
TakeNothing(t) ==
  /\ At(t, "loop")
  /\ EligibleAt(t) = {}
  /\ ~idleDone[t]
  /\ idle' = OneMoreIdle
  /\ Goto(t, "idle")
  /\ UNCHANGED <<fiberVars, tasks, stopping, active, pool, cur, idleDone, parked,
                 history>>

\* One visit to idle(): it ends if stopping() and yields if not.  Either way
\* the idle fiber leaves t_fiber at the thread's main fiber.
Idle(t) ==
  /\ At(t, "idle")
  /\ idleDone' = [idleDone EXCEPT ![t] = Stopping]
  /\ idle' = idle - 1
  /\ this' = [this EXCEPT ![t] = ThreadFiber(t)]
  /\ Goto(t, "loop")
  /\ UNCHANGED <<state, phase, ctx, cpu, inSched, schedFiber, failed, tasks, stopping,
                 active, pool, cur, parked, history>>

\* The locked section that finds none after the idle fiber has ended: run()
\* returns.  A worker's thread exits, the root fiber goes back to stop().
RunReturns(t) ==
  /\ At(t, "loop")
  /\ EligibleAt(t) = {}
  /\ idleDone[t]
  /\ IF t = Caller
     THEN FinishBody(t, Root) /\ Goto(t, "join")
     ELSE /\ DestroyMain(t)
          /\ Goto(t, "gone")
          /\ UNCHANGED <<phase, ctx, cpu, inSched, schedFiber>>
  /\ UNCHANGED <<tasks, stopping, active, idle, pool, cur, idleDone, parked, history>>

\* The fiber of the task, built now if the task is a function, and the
\* assertion of resume().
Resume(t) ==
  LET f == cur[t].fiber
  IN /\ At(t, "resume")
     /\ IF cur[t].cb
        THEN Construct(f, TRUE) /\ Goto(t, "enter") /\ UNCHANGED failed
        ELSE /\ UNCHANGED <<state, ctx, inSched>>
             /\ IF MayResume(f)
                THEN Goto(t, "enter") /\ UNCHANGED failed
                ELSE Fault("resumeState") /\ UNCHANGED pc
     /\ UNCHANGED <<phase, cpu, this, schedFiber, tasks, stopping, active, idle, pool,
                    cur, idleDone, parked, history>>

\* resume() past its assertion.
EnterFiber(t) ==
  /\ At(t, "enter")
  /\ Enter(t, cur[t].fiber)
  /\ Goto(t, "body")
  /\ UNCHANGED <<tasks, stopping, active, idle, pool, cur, idleDone, parked, history>>

\* Mutant: only a fiber that has ended counts down m_activeThreadCount.
MutOneLessActive(t) == IF state[cur[t].fiber] = "TERM" THEN active - 1 ELSE active

\* --m_activeThreadCount.
OneLessActive(t) == active - 1

\* After resume(): --m_activeThreadCount, and the pointer to the fiber goes.
After(t) ==
  LET f == cur[t].fiber
  IN /\ At(t, "after")
     /\ active' = OneLessActive(t)
     /\ cur' = [cur EXCEPT ![t] = NoTask]
     /\ IF Referenced(t, f) THEN UNCHANGED <<state, failed>> ELSE Destroy(f)
     /\ Goto(t, "loop")
     /\ UNCHANGED <<phase, ctx, cpu, this, inSched, schedFiber, tasks, stopping, idle,
                    pool, idleDone, parked, history>>

-----------------------------------------------------------------------------
(* What a task does on thread t.                                           *)

\* schedule(Fiber::GetThis(), thread).
Requeue(t, thread) ==
  /\ At(t, "body")
  /\ \/ "requeue" \in Moves /\ thread = Null
     \/ "pinned" \in Moves /\ thread = t
     \/ "again" \in Moves /\ thread = Null
  /\ Len(tasks) < MaxQueue
  /\ Push(this[t], FALSE, thread)
  /\ IF "again" \in Moves THEN UNCHANGED pc ELSE Goto(t, "leaving")
  /\ UNCHANGED <<fiberVars, stopping, active, idle, pool, cur, idleDone, parked,
                 history>>

\* Fiber::GetThis() goes to the wait list.
Park(t) ==
  /\ At(t, "body")
  /\ "park" \in Moves
  /\ parked' = parked \cup {this[t]}
  /\ Goto(t, "leaving")
  /\ UNCHANGED <<fiberVars, tasks, stopping, active, idle, pool, cur, idleDone,
                 history>>

\* yield() up to swapcontext.
YieldMark(t) ==
  /\ At(t, "leaving")
  /\ MarkReady(t, this[t])
  /\ Goto(t, "marked")
  /\ UNCHANGED <<phase, ctx, cpu, inSched, schedFiber, failed, tasks, stopping, active,
                 idle, pool, cur, idleDone, parked, history>>

\* The swapcontext of yield().
YieldSwap(t) ==
  /\ At(t, "marked")
  /\ SwapOut(t, cpu[t])
  /\ Goto(t, "after")
  /\ UNCHANGED <<state, phase, this, inSched, schedFiber, tasks, stopping, active,
                 idle, pool, cur, idleDone, parked, history>>

\* The callback returns.
Return(t) ==
  /\ At(t, "body")
  /\ FinishBody(t, this[t])
  /\ Goto(t, "after")
  /\ UNCHANGED <<tasks, stopping, active, idle, pool, cur, idleDone, parked, history>>

\* The callback throws.
Throw(t) ==
  /\ At(t, "body")
  /\ "throw" \in Moves
  /\ MarkThrown(t, this[t])
  /\ Goto(t, "marked")
  /\ UNCHANGED <<ctx, cpu, inSched, schedFiber, failed, tasks, stopping, active, idle,
                 pool, cur, idleDone, parked, history>>

-----------------------------------------------------------------------------
RunStep(t) ==
  \/ Boot(t) \/ Take(t) \/ TakeNothing(t) \/ Idle(t) \/ RunReturns(t)
  \/ Resume(t) \/ EnterFiber(t) \/ After(t) \/ YieldMark(t) \/ YieldSwap(t)

\* Two jobs in some order: what schedule(begin, end) is called with.
Pairs == {fs \in [{1, 2} -> UserFiber] : fs[1] # fs[2]}

TaskStep(t) ==
  \/ Return(t) \/ Throw(t) \/ Park(t)
  \/ \E thread \in {t, Null} : Requeue(t, thread)
  \/ \E f \in UserFiber : Wake(t, <<f>>)
  \/ \E fs \in Pairs : Wake(t, fs) \/ ScheduleAll(t, fs)
  \/ \E f \in UserFiber, isCb \in BOOLEAN, pin \in Pins : Schedule(t, f, isCb, pin)

ClientStep == StartNothing \/ StartThreads \/ StopCheck \/ Destruct

StopStep == StopSet \/ Join

\* The program is over: it was ended, or the scheduler is destroyed.
Over ==
  /\ failed # "none" \/ pc[Caller] = "done"
  /\ UNCHANGED vars

Next ==
  \/ \E t \in Thread : RunStep(t) \/ TaskStep(t)
  \/ ClientStep
  \/ StopStep
  \/ Over

Spec == Init /\ [][Next]_vars

\* Threads run, stop() goes on once called, and a callback that is entered
\* again and again returns in the end.
Fairness ==
  /\ \A t \in Thread : WF_vars(RunStep(t))
  /\ WF_vars(StopStep)
  /\ \A f \in UserFiber : SF_vars(\E t \in Thread : this[t] = f /\ Return(t))

FairSpec == Spec /\ Fairness

-----------------------------------------------------------------------------
(* Properties.                                                             *)

Holds(t, f) == cur[t].fiber = f

Running == failed = "none"

\* m_activeThreadCount counts the threads that hold a task, through every
\* interleaving of the locked increment with the decrement outside the lock;
\* stopping() trusts it.
ActiveCountsHolders == active = Cardinality({t \in Thread : cur[t] # NoTask})

\* Inside a task GetThis() is the task's own fiber, on whichever thread: what
\* the task schedules before it yields is itself.
TaskKnowsItself ==
  Running =>
    \A t \in Thread : pc[t] \in {"body", "leaving"} =>
      this[t] = cur[t].fiber /\ cpu[t] = this[t] /\ state[this[t]] = "EXEC"

\* stop(): "returns once every scheduled task has been executed" (scheduler.h).
StopDrains ==
  returned /\ Running =>
    /\ tasks = <<>>
    /\ \A t \in Thread : cur[t] = NoTask
    /\ \A f \in UserFiber : state[f] \in {"absent", "freed"} \/ f \in parked

\* The same of the order of calls in test_scheduler.cpp: start(), which "creates the
\* scheduling threads", then stop().
StartStopDrains == started => StopDrains

\* A well-behaved client is never ended by an assertion or a lost context.
NeverFails == failed = "none"

\* The same, but for a thread that is destroyed without having been joined.
NoFiberFails == failed \in {"none", "terminate"}

\* A thread that sees the scheduler drained sees it drained for good: although
\* m_activeThreadCount is lowered outside the lock, no thread takes a task after
\* that.
DrainedForGood ==
  [][(\E t \in Thread : idleDone[t]) => active' <= active]_vars

\* A call of stop() returns.
StopReturns == pc[Caller] = "stopSet" ~> pc[Caller] = "user" \/ ~Running

\* Once stopping, every worker leaves run(), also one that start() created behind the
\* last stop() that could join it, and whether or not a later stop() takes its early
\* return.
WorkersLeave ==
  \A w \in Worker : stopping /\ pc[w] # "off" ~> pc[w] = "gone" \/ ~Running

\* Once stop() or start() has put threads into run(), what is queued is taken
\* by one of them.
QueuedRuns ==
  \A f \in UserFiber :
    Queued(f) /\ stopping /\ HasRunners
      ~> (\E t \in Thread : Holds(t, f)) \/ ~Running

\* The scheduler implements the task pool: a job waits while its task is in
\* m_tasks, and a thread works on it from the locked section that takes the
\* task to the one point where run() lets go of it.  stop() closes the pool,
\* but for a stop() that no thread has preceded into run() (see StopDrains).
Finished(f) == phase[f] = "over"

Pool == INSTANCE TaskPool WITH
  Job <- UserFiber,
  Runner <- Thread,
  Nobody <- Null,
  waiting <- {f \in UserFiber : Queued(f)},
  at <- [t \in Thread |-> cur[t].fiber],
  asleep <- parked,
  finished <- {f \in UserFiber : Finished(f)},
  closed <- returned /\ HasRunners

ImplementsTaskPool == Pool!Spec
=============================================================================
