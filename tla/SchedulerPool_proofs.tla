------------------------ MODULE SchedulerPool_proofs ------------------------
(***************************************************************************)
(* Proofs that the scheduler is a task pool: each job is in one place,     *)
(* stop() returns when nothing is left to do, and no fiber is misused.     *)
(*                                                                         *)
(* They need a client and tasks that respect what the code leaves to them. *)
(* A fiber that makes itself available to another thread before yield()    *)
(* has saved its context can be resumed too early, or found EXEC and       *)
(* passed over: with more than one thread tasks are only requeued to the   *)
(* thread they run on.                                                     *)
(***************************************************************************)
EXTENDS Scheduler_proofs

\* Nobody schedules a fiber twice, or after stop(), nor destroys a scheduler that nobody has
\* been in run() for; fibers go to the back of the queue for all, or fall asleep, in the
\* caller's thread alone.
Calm ==
  /\ Moves \cap {"again", "late", "hasty"} = {}
  /\ Moves \cap {"requeue", "park"} # {} => Thread = {Caller}

\* The same, without exceptions and without a second start() before the threads are joined.
Gentle == Calm /\ Moves \cap {"throw", "restart"} = {}

Held(f) == \E t \in Thread : cur[t].fiber = f

Waits(f) == Queued(f) \/ f \in parked

\* A fiber is in the queue once at most, and not both there and on the wait list.
QueuedOnce ==
  /\ \A i, j \in 1..Len(tasks) : tasks[i].fiber = tasks[j].fiber => i = j
  /\ \A i \in 1..Len(tasks) : tasks[i].fiber \notin parked
  /\ "park" \notin Moves => parked = {}

\* One thread at most holds a fiber, and a task of a fiber that is held is for the thread
\* that holds it.
HeldOnce ==
  /\ \A t, u \in Thread : cur[t] # NoTask /\ cur[t].fiber = cur[u].fiber => t = u
  /\ \A t, u \in Thread, i \in 1..Len(tasks) :
       tasks[i].fiber = cur[t].fiber /\ tasks[i].thread \in {Null, u} => t = u

\* Where a fiber waits while thread t holds it, by the place t is at.
Turn(t) ==
  /\ pc[t] \in {"resume", "enter", "body"} => ~Waits(cur[t].fiber) /\ phase[cur[t].fiber] # "over"
  /\ pc[t] = "leaving" => Waits(cur[t].fiber)
  /\ pc[t] \in {"marked", "after"} => Waits(cur[t].fiber) \/ phase[cur[t].fiber] = "over"

\* What has come to its end is not to be run again.
Turns ==
  /\ \A f \in UserFiber : phase[f] = "over" => ~Waits(f)
  /\ \A f \in UserFiber : state[f] = "absent" => phase[f] = "entry"
  /\ \A t \in Thread : Turn(t)

\* A fiber that lives is in the queue, in a thread's hand or on the wait list.
Alive == Running => \A f \in UserFiber : state[f] \in {"absent", "freed"} \/ Waits(f) \/ Held(f)

\* Threads are created together and joined together, and leave run() when their idle fiber
\* has ended.
Threads ==
  /\ pool \in {{}, Worker}
  /\ pool = {} => (\A w \in Worker : pc[w] = "off") \/ (\A w \in Worker : pc[w] = "gone")
  /\ pool = Worker => \A w \in Worker : pc[w] # "off"
  /\ \A w \in Worker : pc[w] = "gone" => idleDone[w]
  /\ UseCaller /\ pc[Caller] = "join" => idleDone[Caller]

\* Nothing is left to do when stop() has returned, if somebody has been in run().
ClosedQuiet == returned /\ HasRunners => tasks = <<>> /\ active = 0

PoolInv == QueuedOnce /\ HeldOnce /\ Turns /\ Alive /\ Drained /\ Threads /\ ClosedQuiet

\* A context that can be continued, of a fiber in state READY.
Ready(f) == state[f] = "READY" /\ ctx[f] = f

MainFibers ==
  /\ UseCaller => state[Caller] = "EXEC"
  /\ \A w \in Worker : pc[w] \in RunPlaces => state[w] = "EXEC"

WayBack ==
  /\ \A t \in Thread : pc[t] \in Deep => ctx[Base(t)] = Base(t)
  /\ pc[Caller] \in RunPlaces => ctx[Caller] = Caller

RootFiber ==
  /\ UseCaller /\ pc[Caller] = "stopSet" => ~idleDone[Caller]
  /\ UseCaller /\ pc[Caller] \in {"user", "stopSet"} /\ ~idleDone[Caller] => Ready(Root) /\ phase[Root] # "over"

\* The fiber in a thread's hand, by the place the thread is at.
Fit(t) ==
  /\ pc[t] = "resume" /\ ~cur[t].cb => Ready(cur[t].fiber)
  /\ pc[t] = "enter" => Ready(cur[t].fiber)
  /\ pc[t] = "marked" => state[cur[t].fiber] = "READY" /\ phase[cur[t].fiber] # "over"
  /\ pc[t] = "after" => IF phase[cur[t].fiber] = "over" THEN state[cur[t].fiber] = "TERM"
                                                       ELSE Ready(cur[t].fiber)

\* A fiber in the queue or on the wait list that no thread holds can be resumed.
QueuedReady == \A i \in 1..Len(tasks) : ~tasks[i].cb /\ ~Held(tasks[i].fiber) => Ready(tasks[i].fiber)

ParkedReady == \A f \in parked : ~Held(f) => Ready(f)

UserFibers ==
  /\ QueuedReady
  /\ ParkedReady
  /\ \A t \in Thread : Fit(t)

\* A thread that was not joined, and nothing else, ends the program.
Unjoined == failed = "terminate" => pool # {}

FiberInv ==
  /\ NoFiberFails
  /\ Unjoined
  /\ Running => MainFibers /\ WayBack /\ RootFiber /\ UserFibers

-----------------------------------------------------------------------------
(* What is in the queue after a step.                                      *)

LEMMA TaskList ==
  ASSUME Inv
  PROVE  /\ tasks \in Seq(Task) /\ Len(tasks) \in Nat
         /\ \A i \in 1..Len(tasks) : tasks[i] \in Task /\ tasks[i].fiber \in UserFiber
BY LenProperties, ElementOfSeq, Names DEF Inv, TypeOK

LEMMA WaitsSame ==
  ASSUME UNCHANGED <<tasks, parked>>
  PROVE  \A f : Waits(f)' <=> Waits(f)
BY DEF Waits, Queued

LEMMA QueuedPushed ==
  ASSUME Inv, NEW x \in Task, tasks' = Append(tasks, x)
  PROVE  /\ \A i \in 1..Len(tasks') : tasks'[i] = x \/ (i \in 1..Len(tasks) /\ tasks'[i] = tasks[i])
         /\ \A i, j \in 1..Len(tasks') : ~(i \in 1..Len(tasks)) /\ ~(j \in 1..Len(tasks)) => i = j
         /\ \A i \in 1..Len(tasks') : ~(i \in 1..Len(tasks)) => tasks'[i] = x
         /\ \A f : Queued(f)' <=> Queued(f) \/ f = x.fiber
<1>1. /\ Len(tasks') = Len(tasks) + 1 /\ Len(tasks) \in Nat
      /\ \A k \in 1..Len(tasks) : tasks'[k] = tasks[k]
      /\ tasks'[Len(tasks) + 1] = x
  BY TaskList, PushTask
<1>2. \A i \in 1..Len(tasks') : i \in 1..Len(tasks) \/ i = Len(tasks) + 1
  BY <1>1
<1>3. 1..Len(tasks) \subseteq 1..Len(tasks') /\ Len(tasks) + 1 \in 1..Len(tasks')
  BY <1>1
<1>4. \A f : Queued(f)' <=> Queued(f) \/ f = x.fiber
  BY <1>1, <1>2, <1>3 DEF Queued
<1> QED
  BY <1>1, <1>2, <1>4

LEMMA QueuedPushedAll ==
  ASSUME Inv, NEW fs \in Lists, NEW isCb \in BOOLEAN, PushAll(fs, isCb)
  PROVE  /\ \A i \in 1..Len(tasks') :
              \/ i \in 1..Len(tasks) /\ tasks'[i] = tasks[i]
              \/ /\ i - Len(tasks) \in 1..Len(fs) /\ i = Len(tasks) + (i - Len(tasks))
                 /\ tasks'[i] = TaskFor(fs[i - Len(tasks)], isCb)
         /\ \A f : Queued(f)' <=> Queued(f) \/ f \in ToSet(fs)
<1>1. /\ Len(tasks') = Len(tasks) + Len(fs) /\ Len(tasks) \in Nat /\ Len(fs) \in Nat
      /\ \A k \in 1..Len(tasks) : tasks'[k] = tasks[k]
      /\ \A k \in 1..Len(fs) : tasks'[Len(tasks) + k] = TaskFor(fs[k], isCb)
      /\ ToSet(fs) = {fs[k] : k \in 1..Len(fs)}
  BY TaskList, PushTasks, ListParts
<1>2. \A i \in 1..Len(tasks') :
        i \in 1..Len(tasks) \/ (i - Len(tasks) \in 1..Len(fs) /\ i = Len(tasks) + (i - Len(tasks)))
  BY <1>1
<1>3. \A i \in 1..Len(tasks') :
        \/ i \in 1..Len(tasks) /\ tasks'[i] = tasks[i]
        \/ /\ i - Len(tasks) \in 1..Len(fs) /\ i = Len(tasks) + (i - Len(tasks))
           /\ tasks'[i] = TaskFor(fs[i - Len(tasks)], isCb)
  BY <1>1, <1>2
<1>4. \A k \in 1..Len(tasks) : k \in 1..Len(tasks')
  BY <1>1
<1>5. \A k \in 1..Len(fs) : Len(tasks) + k \in 1..Len(tasks')
  BY <1>1
<1>6. ASSUME NEW f, Queued(f)' PROVE Queued(f) \/ f \in ToSet(fs)
  <2>1. PICK i \in 1..Len(tasks') : tasks'[i].fiber = f
    BY <1>6 DEF Queued
  <2>2. CASE i \in 1..Len(tasks) /\ tasks'[i] = tasks[i]
    BY <2>1, <2>2 DEF Queued
  <2>3. CASE i - Len(tasks) \in 1..Len(fs) /\ tasks'[i] = TaskFor(fs[i - Len(tasks)], isCb)
    <3>1. TaskFor(fs[i - Len(tasks)], isCb).fiber = f
      BY <2>1, <2>3
    <3>2. fs[i - Len(tasks)] = f
      BY <3>1 DEF TaskFor
    <3>3. \A k \in 1..Len(fs) : fs[k] \in ToSet(fs)
      BY <1>1
    <3> QED
      BY <2>3, <3>2, <3>3, Zenon
  <2> QED
    BY <1>3, <2>2, <2>3
<1>7. ASSUME NEW f, f \in ToSet(fs) PROVE Queued(f)'
  <2>1. PICK k \in 1..Len(fs) : fs[k] = f
    BY <1>1, <1>7
  <2>2. tasks'[Len(tasks) + k] = TaskFor(f, isCb) /\ Len(tasks) + k \in 1..Len(tasks')
    BY <1>1, <1>5, <2>1
  <2>3. TaskFor(f, isCb).fiber = f
    BY DEF TaskFor
  <2> QED
    BY <2>2, <2>3 DEF Queued
<1>8. ASSUME NEW f, Queued(f) PROVE Queued(f)'
  BY <1>1, <1>4, <1>8 DEF Queued
<1> QED
  BY <1>3, <1>6, <1>7, <1>8

LEMMA QueuedErased ==
  ASSUME Inv, QueuedOnce, NEW i \in 1..Len(tasks), tasks' = Erase(i)
  PROVE  /\ \A k \in 1..Len(tasks') :
              (IF k < i THEN k ELSE k + 1) \in 1..Len(tasks) \ {i} /\ tasks'[k] = tasks[IF k < i THEN k ELSE k + 1]
         /\ \A f : Queued(f)' <=> Queued(f) /\ f # tasks[i].fiber
<1>1. /\ Len(tasks') = Len(tasks) - 1 /\ Len(tasks) \in Nat
      /\ \A k \in 1..Len(tasks') : tasks'[k] = tasks[IF k < i THEN k ELSE k + 1]
  BY TaskList, EraseTask
<1>2. \A k \in 1..Len(tasks') : (IF k < i THEN k ELSE k + 1) \in 1..Len(tasks) \ {i}
  BY <1>1
<1>3. ASSUME NEW f, Queued(f)' PROVE Queued(f) /\ f # tasks[i].fiber
  <2>1. PICK k \in 1..Len(tasks') : tasks'[k].fiber = f
    BY <1>3 DEF Queued
  <2>2. PICK j \in 1..Len(tasks) : j # i /\ tasks[j].fiber = f
    BY <1>1, <1>2, <2>1
  <2> QED
    BY <2>2 DEF Queued, QueuedOnce
<1>4. ASSUME NEW f, Queued(f), f # tasks[i].fiber PROVE Queued(f)'
  <2>1. PICK j \in 1..Len(tasks) : tasks[j].fiber = f /\ j # i
    BY <1>4 DEF Queued
  <2>2. CASE j < i
    <3>1. j \in 1..Len(tasks')
      BY <1>1, <2>1, <2>2
    <3>2. tasks'[j] = tasks[j]
      BY <1>1, <2>2, <3>1
    <3> QED
      BY <2>1, <3>1, <3>2 DEF Queued
  <2>3. CASE ~(j < i)
    <3>1. j - 1 \in 1..Len(tasks') /\ ~(j - 1 < i) /\ (j - 1) + 1 = j
      BY <1>1, <2>1, <2>3
    <3>2. tasks'[j - 1] = tasks[j]
      BY <1>1, <3>1
    <3> QED
      BY <2>1, <3>1, <3>2 DEF Queued
  <2> QED
    BY <2>2, <2>3
<1> QED
  BY <1>1, <1>2, <1>3, <1>4

\* A job that is scheduled for the first time is nowhere yet.
LEMMA FreshJob ==
  ASSUME Inv, PoolInv, NEW f \in UserFiber, Fresh(f)
  PROVE  state[f] = "absent" /\ ~Waits(f) /\ ~Held(f) /\ phase[f] = "entry"
BY DEF Fresh, Inv, Exists, ParkedExist, PoolInv, Turns, Waits, Held

\* In a callback, the fiber is the thread's alone, and nowhere else.
LEMMA InBody ==
  ASSUME Inv, PoolInv, NEW t \in Thread, At(t, "body")
  PROVE  /\ this[t] = cur[t].fiber /\ this[t] \in UserFiber /\ state[this[t]] = "EXEC"
         /\ cur[t] # NoTask /\ ~Waits(this[t]) /\ phase[this[t]] # "over"
         /\ \A u \in Thread : cur[u].fiber = this[t] => u = t
<1>1. /\ this[t] = cur[t].fiber /\ this[t] \in UserFiber /\ state[this[t]] = "EXEC" /\ pc[t] \in HoldPlaces
  BY OnStack DEF At
<1>2. ~Waits(this[t]) /\ phase[this[t]] # "over" /\ cur[t] # NoTask
  BY <1>1 DEF At, PoolInv, Turns, Turn, Inv, Holding
<1> QED
  BY <1>1, <1>2 DEF PoolInv, HeldOnce

LEMMA QueuedOnceKept ==
  ASSUME Calm, Inv, PoolInv, [Next]_vars
  PROVE  QueuedOnce'
<1>0. QueuedOnce /\ \A f : f \in parked => f \in UserFiber
  BY DEF PoolInv, Inv, TypeOK
<1>a. ASSUME UNCHANGED <<tasks, parked>> PROVE QueuedOnce'
  BY <1>0, <1>a DEF QueuedOnce
<1>x. ASSUME NEW x \in Task, tasks' = Append(tasks, x), UNCHANGED parked, ~Waits(x.fiber) PROVE QueuedOnce'
  <2>1. \A i \in 1..Len(tasks) : tasks[i].fiber # x.fiber
    BY <1>x DEF Waits, Queued
  <2>2. ASSUME NEW i \in 1..Len(tasks'), NEW j \in 1..Len(tasks'), tasks'[i].fiber = tasks'[j].fiber PROVE i = j
    BY <1>0, <1>x, <2>1, <2>2, QueuedPushed DEF QueuedOnce
  <2>3. ASSUME NEW i \in 1..Len(tasks') PROVE tasks'[i].fiber \notin parked'
    BY <1>0, <1>x, QueuedPushed DEF QueuedOnce, Waits
  <2> QED
    BY <1>0, <1>x, <2>2, <2>3 DEF QueuedOnce
<1>l. ASSUME NEW fs \in Lists, NEW isCb \in BOOLEAN, PushAll(fs, isCb), parked' \subseteq parked,
             \A k \in 1..Len(fs) : ~Queued(fs[k]) /\ fs[k] \notin parked'
      PROVE  QueuedOnce'
  <2>1. \A i \in 1..Len(tasks), k \in 1..Len(fs) : tasks[i].fiber # fs[k]
    BY <1>l DEF Queued
  <2>2. \A k \in 1..Len(fs) : TaskFor(fs[k], isCb).fiber = fs[k]
    BY DEF TaskFor
  <2>3. ASSUME NEW i \in 1..Len(tasks'), NEW j \in 1..Len(tasks'), tasks'[i].fiber = tasks'[j].fiber PROVE i = j
    <3> DEFINE Old(n) == n \in 1..Len(tasks) /\ tasks'[n] = tasks[n]
               New(n) == /\ n - Len(tasks) \in 1..Len(fs) /\ n = Len(tasks) + (n - Len(tasks))
                         /\ tasks'[n] = TaskFor(fs[n - Len(tasks)], isCb)
    <3>1. (Old(i) \/ New(i)) /\ (Old(j) \/ New(j))
      BY <1>l, QueuedPushedAll
    <3>2. CASE Old(i) /\ Old(j)
      BY <1>0, <2>3, <3>2 DEF QueuedOnce
    <3>3. CASE Old(i) /\ New(j)
      BY <2>1, <2>2, <2>3, <3>3
    <3>4. CASE New(i) /\ Old(j)
      BY <2>1, <2>2, <2>3, <3>4
    <3>5. CASE New(i) /\ New(j)
      <4>1. fs[i - Len(tasks)] = fs[j - Len(tasks)]
        BY <2>2, <2>3, <3>5
      <4>2. i - Len(tasks) = j - Len(tasks)
        BY <3>5, <4>1, ListParts
      <4> QED
        BY <3>5, <4>2
    <3> QED
      BY <3>1, <3>2, <3>3, <3>4, <3>5
  <2>4. ASSUME NEW i \in 1..Len(tasks') PROVE tasks'[i].fiber \notin parked'
    <3>1. CASE i \in 1..Len(tasks) /\ tasks'[i] = tasks[i]
      BY <1>0, <1>l, <3>1 DEF QueuedOnce
    <3>2. CASE i - Len(tasks) \in 1..Len(fs) /\ tasks'[i] = TaskFor(fs[i - Len(tasks)], isCb)
      BY <1>l, <2>2, <3>2
    <3> QED
      BY <1>l, <3>1, <3>2, QueuedPushedAll
  <2> QED
    BY <1>0, <1>l, <2>3, <2>4 DEF QueuedOnce
<1>1. ASSUME NEW t \in Thread, Boot(t) PROVE QueuedOnce'
  BY <1>a, <1>1 DEF Boot
<1>2. ASSUME NEW t \in Thread, Take(t) PROVE QueuedOnce'
  <2>1. PICK i \in 1..Len(tasks) : tasks' = Erase(i)
    BY <1>2 DEF Take, EligibleAt
  <2>2. UNCHANGED parked
    BY <1>2 DEF Take
  <2> DEFINE old(k) == IF k < i THEN k ELSE k + 1
  <2>3. \A k \in 1..Len(tasks') : old(k) \in 1..Len(tasks) /\ tasks'[k] = tasks[old(k)]
    BY <1>0, <2>1, QueuedErased
  <2>4. ASSUME NEW k \in 1..Len(tasks'), NEW j \in 1..Len(tasks'), tasks'[k].fiber = tasks'[j].fiber PROVE k = j
    <3>1. old(k) = old(j)
      BY <1>0, <2>3, <2>4 DEF QueuedOnce
    <3> QED
      BY <3>1
  <2>5. ASSUME NEW k \in 1..Len(tasks') PROVE tasks'[k].fiber \notin parked'
    BY <1>0, <2>2, <2>3 DEF QueuedOnce
  <2> QED
    BY <1>0, <2>2, <2>4, <2>5 DEF QueuedOnce
<1>3. ASSUME NEW t \in Thread, TakeNothing(t) PROVE QueuedOnce'
  BY <1>a, <1>3 DEF TakeNothing
<1>4. ASSUME NEW t \in Thread, Idle(t) PROVE QueuedOnce'
  BY <1>a, <1>4 DEF Idle
<1>5. ASSUME NEW t \in Thread, RunReturns(t) PROVE QueuedOnce'
  BY <1>a, <1>5 DEF RunReturns
<1>6. ASSUME NEW t \in Thread, Resume(t) PROVE QueuedOnce'
  BY <1>a, <1>6 DEF Resume
<1>7. ASSUME NEW t \in Thread, EnterFiber(t) PROVE QueuedOnce'
  BY <1>a, <1>7 DEF EnterFiber
<1>8. ASSUME NEW t \in Thread, After(t) PROVE QueuedOnce'
  BY <1>a, <1>8 DEF After
<1>9. ASSUME NEW t \in Thread, YieldMark(t) PROVE QueuedOnce'
  BY <1>a, <1>9 DEF YieldMark
<1>10. ASSUME NEW t \in Thread, YieldSwap(t) PROVE QueuedOnce'
  BY <1>a, <1>10 DEF YieldSwap
<1>11. ASSUME NEW t \in Thread, Return(t) PROVE QueuedOnce'
  BY <1>a, <1>11 DEF Return
<1>12. ASSUME NEW t \in Thread, Throw(t) PROVE QueuedOnce'
  BY <1>a, <1>12 DEF Throw
<1>13. ASSUME NEW t \in Thread, Park(t) PROVE QueuedOnce'
  <2>1. UNCHANGED tasks /\ parked' = parked \cup {this[t]} /\ ~Waits(this[t]) /\ "park" \in Moves
    BY <1>13, InBody DEF Park
  <2> QED
    BY <1>0, <2>1 DEF QueuedOnce, Waits, Queued
<1>14. ASSUME NEW t \in Thread, NEW thread \in {t, Null}, Requeue(t, thread) PROVE QueuedOnce'
  <2> DEFINE x == [fiber |-> this[t], cb |-> FALSE, thread |-> thread]
  <2>1. tasks' = Append(tasks, x) /\ UNCHANGED parked /\ ~Waits(this[t]) /\ x \in Task
    BY <1>14, InBody DEF Requeue, Push, Task
  <2> QED
    BY <1>x, <2>1
<1>15. ASSUME NEW t \in Thread, NEW fs \in Lists, Wake(t, fs) PROVE QueuedOnce'
  <2>1. PushAll(fs, FALSE) /\ ToSet(fs) \subseteq parked /\ parked' = parked \ ToSet(fs)
    BY <1>15 DEF Wake
  <2>2. \A k \in 1..Len(fs) : fs[k] \in parked /\ fs[k] \notin parked'
    BY <2>1, ListParts
  <2>3. \A k \in 1..Len(fs) : ~Queued(fs[k])
    BY <1>0, <2>2 DEF QueuedOnce, Queued
  <2> QED
    BY <1>l, <2>1, <2>2, <2>3
<1>16. ASSUME NEW t \in Thread, NEW fs \in Pairs, ScheduleAll(t, fs) PROVE QueuedOnce'
  <2>1. PushAll(fs, TRUE) /\ UNCHANGED parked /\ fs \in Lists /\ \A k \in DOMAIN fs : Fresh(fs[k])
    BY <1>16 DEF ScheduleAll, Lists
  <2>2. \A k \in 1..Len(fs) : ~Waits(fs[k])
    BY <2>1, ListParts, FreshJob
  <2> QED
    BY <1>l, <2>1, <2>2 DEF Waits
<1>17. ASSUME NEW t \in Thread, NEW f \in UserFiber, NEW isCb \in BOOLEAN, NEW pin \in Pins,
            Schedule(t, f, isCb, pin)
     PROVE  QueuedOnce'
  <2> DEFINE x == [fiber |-> f, cb |-> isCb, thread |-> pin]
  <2>1. tasks' = Append(tasks, x) /\ UNCHANGED parked /\ ~Waits(f)
    BY <1>17, FreshJob DEF Schedule, Push
  <2>2. x \in Task
    BY SchedulerAssumption DEF Task, Pins, Worker
  <2> QED
    BY <1>x, <2>1, <2>2
<1>18. CASE StartNothing
  BY <1>a, <1>18 DEF StartNothing, schedVars
<1>19. CASE StartThreads
  BY <1>a, <1>19 DEF StartThreads
<1>20. CASE StopCheck
  BY <1>a, <1>20 DEF StopCheck
<1>21. CASE StopSet
  BY <1>a, <1>21 DEF StopSet
<1>22. CASE Join
  BY <1>a, <1>22 DEF Join
<1>23. CASE Destruct
  BY <1>0, <1>23 DEF Destruct, QueuedOnce
<1>24. CASE UNCHANGED vars
  BY <1>a, <1>24 DEF vars, schedVars
<1> QED
  BY <1>1, <1>2, <1>3, <1>4, <1>5, <1>6, <1>7, <1>8, <1>9, <1>10, <1>11, <1>12, <1>13, <1>14, <1>15, <1>16, <1>17, <1>18, <1>19, <1>20, <1>21, <1>22, <1>23, <1>24, StepCases

LEMMA HeldOnceKept ==
  ASSUME Calm, Inv, PoolInv, [Next]_vars
  PROVE  HeldOnce'
<1>0. HeldOnce /\ QueuedOnce
  BY DEF PoolInv
<1>o. ASSUME Thread = {Caller} PROVE HeldOnce'
  BY <1>o DEF HeldOnce
<1>a. ASSUME UNCHANGED <<tasks, cur>> PROVE HeldOnce'
  BY <1>0, <1>a DEF HeldOnce
<1>x. ASSUME NEW x \in Task, tasks' = Append(tasks, x), UNCHANGED cur,
             \A t, u \in Thread : x.fiber = cur[t].fiber /\ x.thread \in {Null, u} => t = u
      PROVE  HeldOnce'
  BY <1>0, <1>x, QueuedPushed DEF HeldOnce
<1>l. ASSUME NEW fs \in Lists, NEW isCb \in BOOLEAN, PushAll(fs, isCb), UNCHANGED cur,
             \A k \in 1..Len(fs) : ~Held(fs[k])
      PROVE  HeldOnce'
  <2>1. \A k \in 1..Len(fs) : TaskFor(fs[k], isCb).fiber = fs[k]
    BY DEF TaskFor
  <2>2. ASSUME NEW t \in Thread, NEW u \in Thread, NEW i \in 1..Len(tasks'),
               tasks'[i].fiber = cur[t].fiber, tasks'[i].thread \in {Null, u}
        PROVE  t = u
    <3>1. CASE i \in 1..Len(tasks) /\ tasks'[i] = tasks[i]
      BY <1>0, <2>2, <3>1 DEF HeldOnce
    <3>2. CASE i - Len(tasks) \in 1..Len(fs) /\ tasks'[i] = TaskFor(fs[i - Len(tasks)], isCb)
      BY <1>l, <2>1, <2>2, <3>2 DEF Held
    <3> QED
      BY <1>l, <3>1, <3>2, QueuedPushedAll
  <2> QED
    BY <1>0, <1>l, <2>2 DEF HeldOnce
<1>1. ASSUME NEW t \in Thread, Boot(t) PROVE HeldOnce'
  BY <1>a, <1>1 DEF Boot
<1>2. ASSUME NEW t \in Thread, Take(t) PROVE HeldOnce'
  <2>1. PICK i \in 1..Len(tasks) : tasks' = Erase(i) /\ cur' = [cur EXCEPT ![t] = tasks[i]] /\ tasks[i].thread \in {Null, t}
    BY <1>2 DEF Take, EligibleAt, Eligible
  <2>2. \A k \in 1..Len(tasks') : \E j \in 1..Len(tasks) \ {i} : tasks'[k] = tasks[j]
    BY <1>0, <2>1, QueuedErased
  <2>3. cur[t] = NoTask /\ cur \in [Thread -> Task \cup {NoTask}]
    BY <1>2 DEF Take, At, Inv, Holding, HoldPlaces, Deep, TypeOK
  <2>4. \A u \in Thread : cur[u].fiber # tasks[i].fiber
    <3> SUFFICES ASSUME NEW u \in Thread, cur[u].fiber = tasks[i].fiber PROVE FALSE
      OBVIOUS
    <3>1. u = t
      BY <1>0, <2>1 DEF HeldOnce
    <3> QED
      BY <2>3, <3>1, TaskList, Names
  <2>5. ASSUME NEW v \in Thread, NEW u \in Thread, cur'[v] # NoTask, cur'[v].fiber = cur'[u].fiber PROVE v = u
    BY <1>0, <2>1, <2>3, <2>4, <2>5 DEF HeldOnce
  <2>6. ASSUME NEW v \in Thread, NEW u \in Thread, NEW k \in 1..Len(tasks'),
               tasks'[k].fiber = cur'[v].fiber, tasks'[k].thread \in {Null, u}
        PROVE  v = u
    <3>1. PICK j \in 1..Len(tasks) \ {i} : tasks'[k] = tasks[j]
      BY <2>2
    <3>2. v # t
      BY <1>0, <2>1, <2>3, <2>6, <3>1 DEF QueuedOnce
    <3> QED
      BY <1>0, <2>1, <2>3, <2>6, <3>1, <3>2 DEF HeldOnce
  <2> QED
    BY <2>5, <2>6 DEF HeldOnce
<1>3. ASSUME NEW t \in Thread, TakeNothing(t) PROVE HeldOnce'
  BY <1>a, <1>3 DEF TakeNothing
<1>4. ASSUME NEW t \in Thread, Idle(t) PROVE HeldOnce'
  BY <1>a, <1>4 DEF Idle
<1>5. ASSUME NEW t \in Thread, RunReturns(t) PROVE HeldOnce'
  BY <1>a, <1>5 DEF RunReturns
<1>6. ASSUME NEW t \in Thread, Resume(t) PROVE HeldOnce'
  BY <1>a, <1>6 DEF Resume
<1>7. ASSUME NEW t \in Thread, EnterFiber(t) PROVE HeldOnce'
  BY <1>a, <1>7 DEF EnterFiber
<1>8. ASSUME NEW t \in Thread, After(t) PROVE HeldOnce'
  <2>1. cur' = [cur EXCEPT ![t] = NoTask] /\ UNCHANGED tasks /\ cur \in [Thread -> Task \cup {NoTask}]
    BY <1>8 DEF After, Inv, TypeOK
  <2>2. \A i \in 1..Len(tasks) : tasks[i].fiber # NoTask.fiber
    BY TaskList, Names
  <2>3. \A u \in Thread : cur[u] # NoTask => cur[u].fiber # NoTask.fiber
    BY <2>1, Names
  <2> QED
    BY <1>0, <2>1, <2>2, <2>3 DEF HeldOnce
<1>9. ASSUME NEW t \in Thread, YieldMark(t) PROVE HeldOnce'
  BY <1>a, <1>9 DEF YieldMark
<1>10. ASSUME NEW t \in Thread, YieldSwap(t) PROVE HeldOnce'
  BY <1>a, <1>10 DEF YieldSwap
<1>11. ASSUME NEW t \in Thread, Return(t) PROVE HeldOnce'
  BY <1>a, <1>11 DEF Return
<1>12. ASSUME NEW t \in Thread, Throw(t) PROVE HeldOnce'
  BY <1>a, <1>12 DEF Throw
<1>13. ASSUME NEW t \in Thread, Park(t) PROVE HeldOnce'
  BY <1>a, <1>13 DEF Park
<1>14. ASSUME NEW t \in Thread, NEW thread \in {t, Null}, Requeue(t, thread) PROVE HeldOnce'
  <2>1. CASE Thread = {Caller}
    BY <1>o, <2>1
  <2>2. CASE Thread # {Caller}
    <3> DEFINE x == [fiber |-> this[t], cb |-> FALSE, thread |-> thread]
    <3>1. tasks' = Append(tasks, x) /\ UNCHANGED cur /\ x \in Task /\ thread = t
      BY <1>14, <2>2, InBody DEF Requeue, Push, Task, Calm
    <3>2. \A v \in Thread : cur[v].fiber = this[t] => v = t
      BY <1>14, InBody DEF Requeue
    <3>3. t # Null
      BY Names
    <3> QED
      BY <1>x, <3>1, <3>2, <3>3
  <2> QED
    BY <2>1, <2>2
<1>15. ASSUME NEW t \in Thread, NEW fs \in Lists, Wake(t, fs) PROVE HeldOnce'
  <2>1. PushAll(fs, FALSE) /\ ToSet(fs) \subseteq parked
    BY <1>15 DEF Wake
  <2>2. 1 \in 1..Len(fs) /\ ToSet(fs) = {fs[k] : k \in 1..Len(fs)}
    BY ListParts
  <2>3. parked # {}
    BY <2>1, <2>2
  <2> QED
    BY <1>0, <1>o, <2>3 DEF QueuedOnce, Calm
<1>16. ASSUME NEW t \in Thread, NEW fs \in Pairs, ScheduleAll(t, fs) PROVE HeldOnce'
  <2>1. PushAll(fs, TRUE) /\ UNCHANGED cur /\ fs \in Lists /\ \A k \in DOMAIN fs : Fresh(fs[k])
    BY <1>16 DEF ScheduleAll, Lists
  <2>2. \A k \in 1..Len(fs) : ~Held(fs[k])
    BY <2>1, ListParts, FreshJob
  <2> QED
    BY <1>l, <2>1, <2>2
<1>17. ASSUME NEW t \in Thread, NEW f \in UserFiber, NEW isCb \in BOOLEAN, NEW pin \in Pins,
            Schedule(t, f, isCb, pin)
     PROVE  HeldOnce'
  <2> DEFINE x == [fiber |-> f, cb |-> isCb, thread |-> pin]
  <2>1. tasks' = Append(tasks, x) /\ UNCHANGED cur /\ ~Held(f)
    BY <1>17, FreshJob DEF Schedule, Push
  <2>2. x \in Task
    BY SchedulerAssumption DEF Task, Pins, Worker
  <2> QED
    BY <1>x, <2>1, <2>2 DEF Held
<1>18. CASE StartNothing
  BY <1>a, <1>18 DEF StartNothing, schedVars
<1>19. CASE StartThreads
  BY <1>a, <1>19 DEF StartThreads
<1>20. CASE StopCheck
  BY <1>a, <1>20 DEF StopCheck
<1>21. CASE StopSet
  BY <1>a, <1>21 DEF StopSet
<1>22. CASE Join
  BY <1>a, <1>22 DEF Join
<1>23. CASE Destruct
  BY <1>0, <1>23 DEF Destruct, HeldOnce
<1>24. CASE UNCHANGED vars
  BY <1>a, <1>24 DEF vars, schedVars
<1> QED
  BY <1>1, <1>2, <1>3, <1>4, <1>5, <1>6, <1>7, <1>8, <1>9, <1>10, <1>11, <1>12, <1>13, <1>14, <1>15, <1>16, <1>17, <1>18, <1>19, <1>20, <1>21, <1>22, <1>23, <1>24, StepCases

LEMMA TurnsKept ==
  ASSUME Calm, Inv, PoolInv, [Next]_vars
  PROVE  Turns'
<1>0. /\ Turns /\ HeldOnce /\ QueuedOnce /\ ClosedQuiet
      /\ pc \in [Thread -> Places] /\ cur \in [Thread -> Task \cup {NoTask}]
      /\ state \in [FiberObj -> {"absent", "READY", "EXEC", "TERM", "freed"}]
      /\ phase \in [Coroutine -> {"entry", "body", "over"}]
      /\ \A t \in Thread : cur[t] # NoTask <=> pc[t] \in HoldPlaces
      /\ \A f \in UserFiber : state'[f] = "absent" => state[f] = "absent"
  BY BuiltKept, Names DEF PoolInv, Inv, TypeOK, FiberTypeOK, Holding, Built
<1>s. ASSUME UNCHANGED <<tasks, parked>> PROVE \A f : Waits(f)' <=> Waits(f)
  BY <1>s, WaitsSame
<1>a. ASSUME \A u \in Thread : (pc'[u] = pc[u] /\ cur'[u] = cur[u]) \/ pc'[u] \notin HoldPlaces \/ Turn(u)',
             \A f \in UserFiber : phase'[f] = phase[f] /\ (Waits(f)' <=> Waits(f))
      PROVE  Turns'
  <2>1. ASSUME NEW u \in Thread, pc'[u] = pc[u], cur'[u] = cur[u] PROVE Turn(u)'
    <3>1. CASE cur[u] = NoTask
      BY <1>0, <2>1, <3>1 DEF Turn, HoldPlaces, Deep
    <3>2. CASE cur[u] # NoTask
      <4>1. cur[u].fiber \in UserFiber
        BY <1>0, <3>2, InHand
      <4> QED
        BY <1>0, <1>a, <2>1, <4>1 DEF Turns, Turn
    <3> QED
      BY <3>1, <3>2
  <2>2. \A u \in Thread : pc'[u] \notin HoldPlaces => Turn(u)'
    BY DEF Turn, HoldPlaces, Deep
  <2> QED
    BY <1>0, <1>a, <2>1, <2>2 DEF Turns
<1>c. ASSUME NEW t \in Thread, NEW S,
             \A u \in Thread \ {t} : pc'[u] = pc[u] /\ cur'[u] = cur[u],
             \A u \in Thread \ {t} : cur[u] # NoTask => cur[u].fiber \notin S,
             \A f \in UserFiber \ S : phase'[f] = phase[f] /\ (Waits(f)' <=> Waits(f)),
             \A f \in UserFiber \cap S : phase'[f] = "over" => ~Waits(f)',
             \A f \in UserFiber \cap S : state'[f] = "absent" => phase'[f] = "entry",
             Turn(t)'
      PROVE  Turns'
  <2>1. ASSUME NEW u \in Thread \ {t} PROVE Turn(u)'
    <3>1. CASE cur[u] = NoTask
      BY <1>0, <1>c, <2>1, <3>1 DEF Turn, HoldPlaces, Deep
    <3>2. CASE cur[u] # NoTask
      <4>1. cur[u].fiber \in UserFiber \ S
        BY <1>0, <1>c, <3>2, InHand
      <4> QED
        BY <1>0, <1>c, <2>1, <4>1 DEF Turns, Turn
    <3> QED
      BY <3>1, <3>2
  <2>2. ASSUME NEW f \in UserFiber
        PROVE  (phase'[f] = "over" => ~Waits(f)') /\ (state'[f] = "absent" => phase'[f] = "entry")
    <3>1. CASE f \in S
      BY <1>c, <3>1
    <3>2. CASE f \notin S
      BY <1>0, <1>c, <3>2 DEF Turns
    <3> QED
      BY <3>1, <3>2
  <2> QED
    BY <1>c, <2>1, <2>2 DEF Turns
<1>d. ASSUME NEW t \in Thread, NEW f \in UserFiber,
             \A u \in Thread \ {t} : pc'[u] = pc[u] /\ cur'[u] = cur[u],
             \A u \in Thread \ {t} : cur[u].fiber # f,
             \A g \in UserFiber \ {f} : phase'[g] = phase[g] /\ (Waits(g)' <=> Waits(g)),
             phase'[f] = "over" => ~Waits(f)',
             state'[f] = "absent" => phase'[f] = "entry",
             Turn(t)'
      PROVE  Turns'
  <2> DEFINE S == {f}
  <2>1. /\ \A u \in Thread \ {t} : cur[u] # NoTask => cur[u].fiber \notin S
        /\ \A g \in UserFiber \ S : phase'[g] = phase[g] /\ (Waits(g)' <=> Waits(g))
        /\ \A g \in UserFiber \cap S : phase'[g] = "over" => ~Waits(g)'
        /\ \A g \in UserFiber \cap S : state'[g] = "absent" => phase'[g] = "entry"
    BY <1>d
  <2> HIDE DEF S
  <2> QED
    BY <1>c, <1>d, <2>1
<1>h. ASSUME NEW t \in Thread, pc[t] \in HoldPlaces
      PROVE  /\ cur[t].fiber \in UserFiber /\ Turn(t) /\ cur[t] # NoTask
             /\ \A u \in Thread \ {t} : cur[u].fiber # cur[t].fiber
  BY <1>0, <1>h, InHand DEF Turns, HeldOnce
<1>1. ASSUME NEW t \in Thread, Boot(t) PROVE Turns'
  <2>1. \A u \in Thread : (pc'[u] = pc[u] /\ cur'[u] = cur[u]) \/ pc'[u] \notin HoldPlaces
    BY <1>0, <1>1 DEF Boot, GetThisFirst, At, Goto, HoldPlaces, Deep, fiberVars, schedVars, history
  <2>2. UNCHANGED <<tasks, parked>> /\ \A f \in UserFiber : phase'[f] = phase[f]
    BY <1>0, <1>1 DEF Boot, GetThisFirst, fiberVars, schedVars
  <2> QED
    BY <1>a, <1>s, <2>1, <2>2
<1>2. ASSUME NEW t \in Thread, Take(t) PROVE Turns'
  <2>1. PICK i \in 1..Len(tasks) : tasks' = Erase(i) /\ cur' = [cur EXCEPT ![t] = tasks[i]]
    BY <1>2 DEF Take, EligibleAt
  <2>2. pc' = [pc EXCEPT ![t] = "resume"] /\ UNCHANGED <<parked, phase, state>>
    BY <1>2 DEF Take, Goto, fiberVars
  <2> DEFINE f == tasks[i].fiber
  <2>3. f \in UserFiber /\ f \notin parked /\ phase[f] # "over"
    BY <1>0, TaskList DEF QueuedOnce, Turns, Waits, Queued
  <2>4. \A g : Queued(g)' <=> Queued(g) /\ g # f
    BY <1>0, <2>1, QueuedErased
  <2>5. cur'[t].fiber = f /\ pc'[t] = "resume" /\ cur'[t] # NoTask
    BY <1>0, <2>1, <2>2, TaskList, Names
  <2>6. \A u \in Thread \ {t} : pc'[u] = pc[u] /\ cur'[u] = cur[u] /\ cur[u].fiber # f
    BY <1>0, <2>1, <2>2, <2>5, HeldOnceKept DEF HeldOnce
  <2> HIDE DEF f
  <2>7. Turn(t)'
    BY <2>2, <2>3, <2>4, <2>5 DEF Turn, Waits
  <2>8. \A g \in UserFiber \ {f} : phase'[g] = phase[g] /\ (Waits(g)' <=> Waits(g))
    BY <2>2, <2>4 DEF Waits
  <2>9. phase'[f] # "over" /\ (state'[f] = "absent" => phase'[f] = "entry")
    BY <1>0, <2>2, <2>3 DEF Turns
  <2> QED
    BY <1>d, <2>3, <2>6, <2>7, <2>8, <2>9
<1>3. ASSUME NEW t \in Thread, TakeNothing(t) PROVE Turns'
  <2>1. \A u \in Thread : (pc'[u] = pc[u] /\ cur'[u] = cur[u]) \/ pc'[u] \notin HoldPlaces
    BY <1>0, <1>3 DEF TakeNothing, At, Goto, HoldPlaces, Deep, fiberVars, schedVars, history
  <2>2. UNCHANGED <<tasks, parked>> /\ \A f \in UserFiber : phase'[f] = phase[f]
    BY <1>0, <1>3 DEF TakeNothing, fiberVars, schedVars
  <2> QED
    BY <1>a, <1>s, <2>1, <2>2
<1>4. ASSUME NEW t \in Thread, Idle(t) PROVE Turns'
  <2>1. \A u \in Thread : (pc'[u] = pc[u] /\ cur'[u] = cur[u]) \/ pc'[u] \notin HoldPlaces
    BY <1>0, <1>4 DEF Idle, At, Goto, HoldPlaces, Deep, fiberVars, schedVars, history
  <2>2. UNCHANGED <<tasks, parked>> /\ \A f \in UserFiber : phase'[f] = phase[f]
    BY <1>0, <1>4 DEF Idle, fiberVars, schedVars
  <2> QED
    BY <1>a, <1>s, <2>1, <2>2
<1>5. ASSUME NEW t \in Thread, RunReturns(t) PROVE Turns'
  <2>1. \A u \in Thread : (pc'[u] = pc[u] /\ cur'[u] = cur[u]) \/ pc'[u] \notin HoldPlaces
    BY <1>0, <1>5, Names DEF RunReturns, FinishBody, At, Goto, HoldPlaces, Deep, fiberVars, schedVars, history
  <2>2. UNCHANGED <<tasks, parked>> /\ \A f \in UserFiber : phase'[f] = phase[f]
    BY <1>0, <1>5, Names DEF RunReturns, FinishBody, fiberVars, schedVars
  <2> QED
    BY <1>a, <1>s, <2>1, <2>2
<1>6. ASSUME NEW t \in Thread, Resume(t) PROVE Turns'
  <2>1. pc[t] = "resume" /\ pc[t] \in HoldPlaces
    BY <1>6 DEF Resume, At, HoldPlaces
  <2>2. UNCHANGED <<tasks, parked, phase, cur>> /\ (pc' = [pc EXCEPT ![t] = "enter"] \/ UNCHANGED pc)
    BY <1>6 DEF Resume, Goto
  <2>3. Turn(t)'
    BY <1>0, <1>h, <1>s, <2>1, <2>2 DEF Turn
  <2> QED
    BY <1>0, <1>a, <1>s, <2>2, <2>3
<1>7. ASSUME NEW t \in Thread, EnterFiber(t) PROVE Turns'
  <2> DEFINE f == cur[t].fiber
  <2>1. pc[t] = "enter" /\ pc[t] \in HoldPlaces
    BY <1>7 DEF EnterFiber, At, HoldPlaces, Deep
  <2>2. /\ UNCHANGED <<tasks, parked, cur>> /\ pc' = [pc EXCEPT ![t] = "body"]
        /\ phase' = [phase EXCEPT ![f] = "body"] \/ UNCHANGED phase
        /\ state' = [state EXCEPT ![f] = "EXEC"]
    BY <1>7, EnterEffect
  <2>3. f \in UserFiber /\ ~Waits(f) /\ phase[f] # "over" /\ \A u \in Thread \ {t} : cur[u].fiber # f
    BY <1>h, <2>1 DEF Turn
  <2>4. \A g : Waits(g)' <=> Waits(g)
    BY <1>s, <2>2
  <2> HIDE DEF f
  <2>5. phase'[f] # "over" /\ state'[f] # "absent" /\ \A g \in UserFiber \ {f} : phase'[g] = phase[g]
    BY <1>0, <2>2, <2>3, Names
  <2>6. Turn(t)'
    BY <1>0, <2>2, <2>3, <2>4, <2>5 DEF Turn, f
  <2>7. \A u \in Thread \ {t} : pc'[u] = pc[u] /\ cur'[u] = cur[u]
    BY <1>0, <2>2
  <2> QED
    BY <1>d, <2>3, <2>4, <2>5, <2>6, <2>7
<1>8. ASSUME NEW t \in Thread, After(t) PROVE Turns'
  <2>1. \A u \in Thread : (pc'[u] = pc[u] /\ cur'[u] = cur[u]) \/ pc'[u] \notin HoldPlaces
    BY <1>0, <1>8 DEF After, At, Goto, HoldPlaces, Deep, fiberVars, schedVars, history
  <2>2. UNCHANGED <<tasks, parked>> /\ \A f \in UserFiber : phase'[f] = phase[f]
    BY <1>0, <1>8 DEF After, fiberVars, schedVars
  <2> QED
    BY <1>a, <1>s, <2>1, <2>2
<1>9. ASSUME NEW t \in Thread, YieldMark(t) PROVE Turns'
  <2>1. pc[t] = "leaving" /\ pc[t] \in HoldPlaces
    BY <1>9 DEF YieldMark, At, HoldPlaces, Deep
  <2>2. UNCHANGED <<tasks, parked, phase, cur>> /\ pc' = [pc EXCEPT ![t] = "marked"]
    BY <1>9 DEF YieldMark, Goto
  <2>3. Turn(t)'
    BY <1>0, <1>h, <1>s, <2>1, <2>2 DEF Turn
  <2> QED
    BY <1>0, <1>a, <1>s, <2>2, <2>3
<1>10. ASSUME NEW t \in Thread, YieldSwap(t) PROVE Turns'
  <2>1. pc[t] = "marked" /\ pc[t] \in HoldPlaces
    BY <1>10 DEF YieldSwap, At, HoldPlaces, Deep
  <2>2. UNCHANGED <<tasks, parked, phase, cur>> /\ pc' = [pc EXCEPT ![t] = "after"]
    BY <1>10 DEF YieldSwap, Goto
  <2>3. Turn(t)'
    BY <1>0, <1>h, <1>s, <2>1, <2>2 DEF Turn
  <2> QED
    BY <1>0, <1>a, <1>s, <2>2, <2>3
<1>11. ASSUME NEW t \in Thread, Return(t) PROVE Turns'
  <2> DEFINE f == cur[t].fiber
  <2>1. pc[t] = "body" /\ pc[t] \in HoldPlaces
    BY <1>11 DEF Return, At, HoldPlaces, Deep
  <2>2. /\ UNCHANGED <<tasks, parked, cur>> /\ pc' = [pc EXCEPT ![t] = "after"]
        /\ phase' = [phase EXCEPT ![f] = "over"] /\ state'[f] # "absent"
    BY <1>0, <1>h, <2>1, <1>11, ReturnEffect, Names
  <2>3. f \in UserFiber /\ ~Waits(f) /\ \A u \in Thread \ {t} : cur[u].fiber # f
    BY <1>h, <2>1 DEF Turn
  <2>4. \A g : Waits(g)' <=> Waits(g)
    BY <1>s, <2>2
  <2> HIDE DEF f
  <2>5. phase'[f] = "over" /\ \A g \in UserFiber \ {f} : phase'[g] = phase[g]
    BY <1>0, <2>2, <2>3, Names
  <2>6. Turn(t)'
    BY <1>0, <2>2, <2>5 DEF Turn, f
  <2>7. \A u \in Thread \ {t} : pc'[u] = pc[u] /\ cur'[u] = cur[u]
    BY <1>0, <2>2
  <2> QED
    BY <1>d, <2>2, <2>3, <2>4, <2>5, <2>6, <2>7
<1>12. ASSUME NEW t \in Thread, Throw(t) PROVE Turns'
  <2> DEFINE f == cur[t].fiber
  <2>1. pc[t] = "body" /\ pc[t] \in HoldPlaces
    BY <1>12 DEF Throw, At, HoldPlaces, Deep
  <2>2. /\ UNCHANGED <<tasks, parked, cur>> /\ pc' = [pc EXCEPT ![t] = "marked"]
        /\ phase' = [phase EXCEPT ![f] = "over"] /\ state'[f] # "absent"
    BY <1>0, <1>h, <2>1, <1>12, OnStack, Names DEF Throw, MarkThrown, MarkReady, At, Goto
  <2>3. f \in UserFiber /\ ~Waits(f) /\ \A u \in Thread \ {t} : cur[u].fiber # f
    BY <1>h, <2>1 DEF Turn
  <2>4. \A g : Waits(g)' <=> Waits(g)
    BY <1>s, <2>2
  <2> HIDE DEF f
  <2>5. phase'[f] = "over" /\ \A g \in UserFiber \ {f} : phase'[g] = phase[g]
    BY <1>0, <2>2, <2>3, Names
  <2>6. Turn(t)'
    BY <1>0, <2>2, <2>5 DEF Turn, f
  <2>7. \A u \in Thread \ {t} : pc'[u] = pc[u] /\ cur'[u] = cur[u]
    BY <1>0, <2>2
  <2> QED
    BY <1>d, <2>2, <2>3, <2>4, <2>5, <2>6, <2>7
<1>13. ASSUME NEW t \in Thread, Park(t) PROVE Turns'
  <2> DEFINE f == cur[t].fiber
  <2>1. pc[t] = "body" /\ pc[t] \in HoldPlaces /\ this[t] = f /\ f \in UserFiber /\ phase[f] # "over" /\ state[f] = "EXEC"
        /\ \A u \in Thread \ {t} : cur[u].fiber # f
    BY <1>13, InBody DEF Park, At, HoldPlaces, Deep
  <2>2. UNCHANGED <<phase, state, cur>> /\ pc' = [pc EXCEPT ![t] = "leaving"]
    BY <1>13 DEF Park, Goto, fiberVars
  <2>3. \A g : Waits(g)' <=> Waits(g) \/ g = f
    BY <2>1, <1>13 DEF Park, Waits, Queued
  <2> HIDE DEF f
  <2>5. Turn(t)'
    BY <1>0, <2>2, <2>3 DEF Turn, f
  <2>6. \A u \in Thread \ {t} : pc'[u] = pc[u] /\ cur'[u] = cur[u]
    BY <1>0, <2>2
  <2> QED
    BY <1>d, <2>1, <2>2, <2>3, <2>5, <2>6
<1>14. ASSUME NEW t \in Thread, NEW thread \in {t, Null}, Requeue(t, thread) PROVE Turns'
  <2> DEFINE f == cur[t].fiber
  <2>1. pc[t] = "body" /\ pc[t] \in HoldPlaces /\ this[t] = f /\ f \in UserFiber /\ phase[f] # "over" /\ state[f] = "EXEC"
        /\ \A u \in Thread \ {t} : cur[u].fiber # f
    BY <1>14, InBody DEF Requeue, At, HoldPlaces, Deep
  <2>2. UNCHANGED <<phase, state, cur>> /\ pc' = [pc EXCEPT ![t] = "leaving"]
    BY <1>14 DEF Requeue, Goto, fiberVars, Calm
  <2>3. \A g : Waits(g)' <=> Waits(g) \/ g = f
    <3> DEFINE x == [fiber |-> f, cb |-> FALSE, thread |-> thread]
    <3>1. tasks' = Append(tasks, x) /\ UNCHANGED parked /\ x \in Task
      BY <2>1, <1>14 DEF Requeue, Push, Task
    <3> QED
      BY <3>1, QueuedPushed DEF Waits
  <2> HIDE DEF f
  <2>5. Turn(t)'
    BY <1>0, <2>2, <2>3 DEF Turn, f
  <2>6. \A u \in Thread \ {t} : pc'[u] = pc[u] /\ cur'[u] = cur[u]
    BY <1>0, <2>2
  <2> QED
    BY <1>d, <2>1, <2>2, <2>3, <2>5, <2>6
<1>15. ASSUME NEW t \in Thread, NEW fs \in Lists, Wake(t, fs) PROVE Turns'
  <2>1. PushAll(fs, FALSE) /\ ToSet(fs) \subseteq parked /\ parked' = parked \ ToSet(fs) /\ UNCHANGED <<phase, pc, cur>>
    BY <1>15 DEF Wake, fiberVars
  <2>2. \A f : Queued(f)' <=> Queued(f) \/ f \in ToSet(fs)
    BY <2>1, QueuedPushedAll
  <2>3. \A f : Waits(f)' <=> Waits(f)
    BY <2>1, <2>2 DEF Waits
  <2> QED
    BY <1>a, <2>1, <2>3
<1>16. ASSUME NEW t \in Thread, NEW fs \in Pairs, ScheduleAll(t, fs) PROVE Turns'
  <2>1. /\ PushAll(fs, TRUE) /\ UNCHANGED <<parked, phase, state, pc, cur>>
        /\ fs \in Lists /\ \A k \in DOMAIN fs : Fresh(fs[k])
    BY <1>16 DEF ScheduleAll, Lists, fiberVars
  <2>2. \A f : Queued(f)' <=> Queued(f) \/ f \in ToSet(fs)
    BY <2>1, QueuedPushedAll
  <2>3. \A f : Waits(f)' <=> Waits(f) \/ f \in ToSet(fs)
    BY <2>1, <2>2 DEF Waits
  <2>4. \A f \in ToSet(fs) : ~Held(f) /\ phase[f] = "entry"
    BY <2>1, ListParts, FreshJob
  <2>5. \A u \in Thread : cur[u].fiber \notin ToSet(fs)
    BY <2>4 DEF Held
  <2>6. Turn(t)'
    <3>1. CASE cur[t] = NoTask
      BY <1>0, <2>1, <3>1 DEF Turn, HoldPlaces, Deep
    <3>2. CASE cur[t] # NoTask
      BY <1>0, <1>h, <2>1, <2>3, <2>5, <3>2 DEF Turn
    <3> QED
      BY <3>1, <3>2
  <2> QED
    BY <1>c, <2>1, <2>3, <2>4, <2>5, <2>6
<1>17. ASSUME NEW t \in Thread, NEW f \in UserFiber, NEW isCb \in BOOLEAN, NEW pin \in Pins,
            Schedule(t, f, isCb, pin)
     PROVE  Turns'
  <2> DEFINE x == [fiber |-> f, cb |-> isCb, thread |-> pin]
  <2>1. tasks' = Append(tasks, x) /\ UNCHANGED <<parked, phase, pc, cur>> /\ ~Held(f) /\ phase[f] = "entry"
    BY <1>17, FreshJob DEF Schedule, Push
  <2>2. x \in Task
    BY SchedulerAssumption DEF Task, Pins, Worker
  <2>3. \A g : Waits(g)' <=> Waits(g) \/ g = f
    BY <2>1, <2>2, QueuedPushed DEF Waits
  <2>5. \A u \in Thread : cur[u].fiber \notin {f}
    BY <2>1 DEF Held
  <2>6. Turn(t)'
    <3>1. CASE cur[t] = NoTask
      BY <1>0, <2>1, <3>1 DEF Turn, HoldPlaces, Deep
    <3>2. CASE cur[t] # NoTask
      BY <1>0, <1>h, <2>1, <2>3, <2>5, <3>2 DEF Turn
    <3> QED
      BY <3>1, <3>2
  <2> QED
    BY <1>d, <2>1, <2>3, <2>5, <2>6
<1>18. CASE StartNothing
  <2>1. \A u \in Thread : (pc'[u] = pc[u] /\ cur'[u] = cur[u]) \/ pc'[u] \notin HoldPlaces
    BY <1>0, <1>18 DEF StartNothing, At, Goto, HoldPlaces, Deep, fiberVars, schedVars, history
  <2>2. UNCHANGED <<tasks, parked>> /\ \A f \in UserFiber : phase'[f] = phase[f]
    BY <1>0, <1>18 DEF StartNothing, fiberVars, schedVars
  <2> QED
    BY <1>a, <1>s, <2>1, <2>2
<1>19. CASE StartThreads
  <2>1. \A u \in Thread : (pc'[u] = pc[u] /\ cur'[u] = cur[u]) \/ pc'[u] \notin HoldPlaces
    BY <1>0, <1>19 DEF StartThreads, At, Goto, HoldPlaces, Deep, fiberVars, schedVars, history
  <2>2. UNCHANGED <<tasks, parked>> /\ \A f \in UserFiber : phase'[f] = phase[f]
    BY <1>0, <1>19 DEF StartThreads, fiberVars, schedVars
  <2> QED
    BY <1>a, <1>s, <2>1, <2>2
<1>20. CASE StopCheck
  <2>1. \A u \in Thread : (pc'[u] = pc[u] /\ cur'[u] = cur[u]) \/ pc'[u] \notin HoldPlaces
    BY <1>0, <1>20 DEF StopCheck, At, Goto, HoldPlaces, Deep, fiberVars, schedVars, history
  <2>2. UNCHANGED <<tasks, parked>> /\ \A f \in UserFiber : phase'[f] = phase[f]
    BY <1>0, <1>20 DEF StopCheck, fiberVars, schedVars
  <2> QED
    BY <1>a, <1>s, <2>1, <2>2
<1>21. CASE StopSet
  <2>1. \A u \in Thread : (pc'[u] = pc[u] /\ cur'[u] = cur[u]) \/ pc'[u] \notin HoldPlaces
    BY <1>0, <1>21, StopSetEffect, Names DEF At, Goto, HoldPlaces, Deep, fiberVars, schedVars, history
  <2>2. UNCHANGED <<tasks, parked>> /\ \A f \in UserFiber : phase'[f] = phase[f]
    BY <1>0, <1>21, StopSetEffect, Names DEF fiberVars, schedVars
  <2> QED
    BY <1>a, <1>s, <2>1, <2>2
<1>22. CASE Join
  <2>1. \A u \in Thread : (pc'[u] = pc[u] /\ cur'[u] = cur[u]) \/ pc'[u] \notin HoldPlaces
    BY <1>0, <1>22 DEF Join, At, Goto, HoldPlaces, Deep, fiberVars, schedVars, history
  <2>2. UNCHANGED <<tasks, parked>> /\ \A f \in UserFiber : phase'[f] = phase[f]
    BY <1>0, <1>22 DEF Join, fiberVars, schedVars
  <2> QED
    BY <1>a, <1>s, <2>1, <2>2
<1>23. CASE Destruct
  <2>1. tasks = <<>> /\ tasks' = <<>> /\ UNCHANGED <<parked, phase, cur>> /\ pc' = [pc EXCEPT ![Caller] = "done"]
    BY <1>0, <1>23 DEF Destruct, Goto, ClosedQuiet, Calm
  <2>2. \A u \in Thread : (pc'[u] = pc[u] /\ cur'[u] = cur[u]) \/ pc'[u] \notin HoldPlaces
    BY <1>0, <2>1 DEF HoldPlaces, Deep
  <2> QED
    BY <1>a, <1>s, <2>1, <2>2
<1>24. CASE UNCHANGED vars
  <2>1. \A u \in Thread : (pc'[u] = pc[u] /\ cur'[u] = cur[u]) \/ pc'[u] \notin HoldPlaces
    BY <1>0, <1>24 DEF vars, schedVars, At, Goto, HoldPlaces, Deep, fiberVars, schedVars, history
  <2>2. UNCHANGED <<tasks, parked>> /\ \A f \in UserFiber : phase'[f] = phase[f]
    BY <1>0, <1>24 DEF vars, schedVars, fiberVars, schedVars
  <2> QED
    BY <1>a, <1>s, <2>1, <2>2
<1> QED
  BY <1>1, <1>2, <1>3, <1>4, <1>5, <1>6, <1>7, <1>8, <1>9, <1>10, <1>11, <1>12, <1>13, <1>14, <1>15, <1>16, <1>17, <1>18, <1>19, <1>20, <1>21, <1>22, <1>23, <1>24, StepCases

LEMMA AliveKept ==
  ASSUME Calm, Inv, PoolInv, [Next]_vars
  PROVE  Alive'
<1> SUFFICES ASSUME failed' = "none" PROVE Alive'
  BY DEF Alive, Running
<1>0. /\ failed = "none" => \A f \in UserFiber : state[f] \in {"absent", "freed"} \/ Waits(f) \/ Held(f)
      /\ cur \in [Thread -> Task \cup {NoTask}]
      /\ state \in [FiberObj -> {"absent", "READY", "EXEC", "TERM", "freed"}]
      /\ UserFiber \subseteq FiberObj
  BY Names DEF PoolInv, Alive, Running, Inv, TypeOK, FiberTypeOK
<1>a. ASSUME failed = "none",
             \A f \in UserFiber : Waits(f) \/ Held(f) => Waits(f)' \/ Held(f)' \/ state'[f] = "freed",
             \A f \in UserFiber : state'[f] # state[f] => state'[f] = "freed" \/ Waits(f)' \/ Held(f)'
      PROVE  Alive'
  BY <1>0, <1>a DEF Alive
<1>h. ASSUME UNCHANGED cur PROVE \A f : Held(f)' <=> Held(f)
  BY <1>h DEF Held
<1>s. ASSUME UNCHANGED <<tasks, parked>> PROVE \A f : Waits(f)' <=> Waits(f)
  BY <1>s, WaitsSame
<1>b. ASSUME failed = "none", UNCHANGED <<tasks, parked, cur>>,
             \A f \in UserFiber : state'[f] = state[f] \/ Held(f)
      PROVE  Alive'
  BY <1>a, <1>b, <1>h, <1>s
<1>1. ASSUME NEW t \in Thread, Boot(t) PROVE Alive'
  <2>1. \A f \in UserFiber : state'[f] = state[f]
    BY <1>0, <1>1, Names DEF Boot, At, GetThisFirst, fiberVars, schedVars
  <2>2. failed = "none" /\ UNCHANGED <<tasks, parked, cur>>
    BY <1>1 DEF Boot, At, GetThisFirst, fiberVars, schedVars
  <2> QED
    BY <1>b, <2>1, <2>2
<1>2. ASSUME NEW t \in Thread, Take(t) PROVE Alive'
  <2>1. PICK i \in 1..Len(tasks) : tasks' = Erase(i) /\ cur' = [cur EXCEPT ![t] = tasks[i]]
    BY <1>2 DEF Take, EligibleAt
  <2>2. failed = "none" /\ UNCHANGED <<state, parked>> /\ cur[t] = NoTask
    BY <1>2 DEF Take, At, fiberVars, Inv, Holding, HoldPlaces, Deep
  <2>3. \A f : Queued(f)' <=> Queued(f) /\ f # tasks[i].fiber
    BY <2>1, QueuedErased DEF PoolInv
  <2>4. \A f : f = tasks[i].fiber => Held(f)'
    <3>1. cur'[t].fiber = tasks[i].fiber
      BY <1>0, <2>1
    <3> QED
      BY <3>1 DEF Held
  <2>5. \A f \in UserFiber : Held(f) => Held(f)'
    <3> SUFFICES ASSUME NEW f \in UserFiber, NEW u \in Thread, cur[u].fiber = f PROVE Held(f)'
      BY DEF Held
    <3>1. u # t
      BY <2>2, Names DEF NoTask
    <3>2. cur'[u].fiber = f
      BY <1>0, <2>1, <3>1
    <3> QED
      BY <3>2 DEF Held
  <2>6. \A f \in UserFiber : Waits(f) => Waits(f)' \/ Held(f)'
    BY <2>2, <2>3, <2>4 DEF Waits
  <2> QED
    BY <1>a, <2>2, <2>5, <2>6
<1>3. ASSUME NEW t \in Thread, TakeNothing(t) PROVE Alive'
  <2>1. \A f \in UserFiber : state'[f] = state[f]
    BY <1>0, <1>3, Names DEF TakeNothing, At, GetThisFirst, fiberVars, schedVars
  <2>2. failed = "none" /\ UNCHANGED <<tasks, parked, cur>>
    BY <1>3 DEF TakeNothing, At, GetThisFirst, fiberVars, schedVars
  <2> QED
    BY <1>b, <2>1, <2>2
<1>4. ASSUME NEW t \in Thread, Idle(t) PROVE Alive'
  <2>1. \A f \in UserFiber : state'[f] = state[f]
    BY <1>0, <1>4, Names DEF Idle, At, GetThisFirst, fiberVars, schedVars
  <2>2. failed = "none" /\ UNCHANGED <<tasks, parked, cur>>
    BY <1>4 DEF Idle, At, GetThisFirst, fiberVars, schedVars
  <2> QED
    BY <1>b, <2>1, <2>2
<1>5. ASSUME NEW t \in Thread, RunReturns(t) PROVE Alive'
  <2>1. CASE t = Caller
    <3>1. state' = [state EXCEPT ![Root] = "TERM"] /\ UNCHANGED <<tasks, parked, cur>> /\ failed = "none"
      BY <1>5, <2>1, RootReturnsEffect
    <3> QED
      BY <1>0, <1>b, <3>1, Names
  <2>2. CASE t # Caller
    <3>1. (state' = [state EXCEPT ![t] = "freed"] \/ UNCHANGED state) /\ UNCHANGED <<tasks, parked, cur>> /\ failed = "none"
      BY <1>5, <2>2 DEF RunReturns, DestroyMain, At
    <3> QED
      BY <1>0, <1>b, <3>1, Names
  <2> QED
    BY <2>1, <2>2
<1>6. ASSUME NEW t \in Thread, Resume(t) PROVE Alive'
  <2>1. pc[t] \in HoldPlaces
    BY <1>6 DEF Resume, At, HoldPlaces, Deep
  <2>2. Held(cur[t].fiber)
    BY DEF Held
  <2>3. failed = "none" /\ UNCHANGED <<tasks, parked, cur>> /\ \A f \in UserFiber \ {cur[t].fiber} : state'[f] = state[f]
    BY <1>0, <2>1, <1>6, InHand DEF Resume, At, Construct
  <2> QED
    BY <1>b, <2>2, <2>3
<1>7. ASSUME NEW t \in Thread, EnterFiber(t) PROVE Alive'
  <2>1. pc[t] \in HoldPlaces
    BY <1>7 DEF EnterFiber, At, HoldPlaces, Deep
  <2>2. Held(cur[t].fiber)
    BY DEF Held
  <2>3. failed = "none" /\ UNCHANGED <<tasks, parked, cur>> /\ \A f \in UserFiber \ {cur[t].fiber} : state'[f] = state[f]
    BY <1>0, <2>1, <1>7, EnterEffect
  <2> QED
    BY <1>b, <2>2, <2>3
<1>8. ASSUME NEW t \in Thread, After(t) PROVE Alive'
  <2>0. PICK f : f = cur[t].fiber
    OBVIOUS
  <2>1. failed = "none" /\ pc[t] = "after" /\ pc[t] \in HoldPlaces /\ UNCHANGED <<tasks, parked>> /\ cur' = [cur EXCEPT ![t] = NoTask]
    BY <1>8 DEF After, At, HoldPlaces
  <2>2. f \in UserFiber /\ (Waits(f) \/ phase[f] = "over") /\ \A u \in Thread \ {t} : cur[u].fiber # f
    BY <2>0, <2>1, InHand DEF PoolInv, Turns, Turn, HeldOnce, Inv, Holding
  <2>3. \A g \in UserFiber \ {f} : Held(g) => Held(g)'
    <3> SUFFICES ASSUME NEW g \in UserFiber \ {f}, NEW u \in Thread, cur[u].fiber = g PROVE Held(g)'
      BY DEF Held
    <3>1. cur'[u].fiber = g
      BY <1>0, <2>0, <2>1
    <3> QED
      BY <3>1 DEF Held
  <2>4. CASE Referenced(t, f)
    <3>1. UNCHANGED state
      BY <2>0, <1>8, <2>4 DEF After
    <3>2. Waits(f)
      BY <2>2, <2>4 DEF Referenced, SelfOwned, Waits
    <3>3. Waits(f)'
      BY <1>s, <2>1, <3>2
    <3> QED
      BY <1>a, <1>s, <2>1, <2>3, <3>1, <3>3
  <2>5. CASE ~Referenced(t, f)
    <3>1. state' = [state EXCEPT ![f] = "freed"]
      BY <2>0, <1>8, <2>5 DEF After, Destroy, Fault
    <3>2. state'[f] = "freed" /\ \A g \in UserFiber \ {f} : state'[g] = state[g]
      BY <1>0, <2>2, <3>1
    <3> QED
      BY <1>a, <1>s, <2>1, <2>3, <3>2
  <2> QED
    BY <2>4, <2>5
<1>9. ASSUME NEW t \in Thread, YieldMark(t) PROVE Alive'
  <2>1. pc[t] \in HoldPlaces
    BY <1>9 DEF YieldMark, At, HoldPlaces, Deep
  <2>2. Held(cur[t].fiber)
    BY DEF Held
  <2>3. failed = "none" /\ UNCHANGED <<tasks, parked, cur>> /\ \A f \in UserFiber \ {cur[t].fiber} : state'[f] = state[f]
    BY <1>0, <2>1, <1>9, OnStack DEF YieldMark, At, MarkReady
  <2> QED
    BY <1>b, <2>2, <2>3
<1>10. ASSUME NEW t \in Thread, YieldSwap(t) PROVE Alive'
  <2>1. pc[t] \in HoldPlaces
    BY <1>10 DEF YieldSwap, At, HoldPlaces, Deep
  <2>2. Held(cur[t].fiber)
    BY DEF Held
  <2>3. failed = "none" /\ UNCHANGED <<tasks, parked, cur>> /\ \A f \in UserFiber \ {cur[t].fiber} : state'[f] = state[f]
    BY <1>0, <2>1, <1>10, YieldSwapEffect
  <2> QED
    BY <1>b, <2>2, <2>3
<1>11. ASSUME NEW t \in Thread, Return(t) PROVE Alive'
  <2>1. pc[t] \in HoldPlaces
    BY <1>11 DEF Return, At, HoldPlaces, Deep
  <2>2. Held(cur[t].fiber)
    BY DEF Held
  <2>3. failed = "none" /\ UNCHANGED <<tasks, parked, cur>> /\ \A f \in UserFiber \ {cur[t].fiber} : state'[f] = state[f]
    BY <1>0, <2>1, <1>11, ReturnEffect
  <2> QED
    BY <1>b, <2>2, <2>3
<1>12. ASSUME NEW t \in Thread, Throw(t) PROVE Alive'
  <2>1. pc[t] \in HoldPlaces
    BY <1>12 DEF Throw, At, HoldPlaces, Deep
  <2>2. Held(cur[t].fiber)
    BY DEF Held
  <2>3. failed = "none" /\ UNCHANGED <<tasks, parked, cur>> /\ \A f \in UserFiber \ {cur[t].fiber} : state'[f] = state[f]
    BY <1>0, <2>1, <1>12, OnStack DEF Throw, At, MarkThrown, MarkReady
  <2> QED
    BY <1>b, <2>2, <2>3
<1>13. ASSUME NEW t \in Thread, Park(t) PROVE Alive'
  <2>1. failed = "none" /\ UNCHANGED <<tasks, cur, state>> /\ parked \subseteq parked'
    BY <1>13 DEF Park, At, fiberVars
  <2>2. \A f \in UserFiber : Waits(f) => Waits(f)'
    BY <2>1 DEF Waits, Queued
  <2> QED
    BY <1>a, <1>h, <2>1, <2>2
<1>14. ASSUME NEW t \in Thread, NEW thread \in {t, Null}, Requeue(t, thread) PROVE Alive'
  <2> DEFINE x == [fiber |-> this[t], cb |-> FALSE, thread |-> thread]
  <2>1. failed = "none" /\ tasks' = Append(tasks, x) /\ UNCHANGED <<parked, cur, state>> /\ x \in Task
    BY <1>14, InBody DEF Requeue, Push, Task, At, fiberVars
  <2>2. \A f \in UserFiber : Waits(f) => Waits(f)'
    BY <2>1, QueuedPushed DEF Waits
  <2> QED
    BY <1>a, <1>h, <2>1, <2>2
<1>15. ASSUME NEW t \in Thread, NEW fs \in Lists, Wake(t, fs) PROVE Alive'
  <2>1. failed = "none" /\ PushAll(fs, FALSE) /\ parked' = parked \ ToSet(fs) /\ UNCHANGED <<cur, state>>
    BY <1>15 DEF Wake, At, fiberVars
  <2>2. \A f : Queued(f)' <=> Queued(f) \/ f \in ToSet(fs)
    BY <2>1, QueuedPushedAll
  <2>3. \A f \in UserFiber : Waits(f) => Waits(f)'
    BY <2>1, <2>2 DEF Waits
  <2> QED
    BY <1>a, <1>h, <2>1, <2>3
<1>16. ASSUME NEW t \in Thread, NEW fs \in Pairs, ScheduleAll(t, fs) PROVE Alive'
  <2>1. failed = "none" /\ PushAll(fs, TRUE) /\ UNCHANGED <<parked, cur, state>> /\ fs \in Lists
    BY <1>16 DEF ScheduleAll, MaySchedule, At, fiberVars, Lists
  <2>2. \A f : Queued(f)' <=> Queued(f) \/ f \in ToSet(fs)
    BY <2>1, QueuedPushedAll
  <2>3. \A f \in UserFiber : Waits(f) => Waits(f)'
    BY <2>1, <2>2 DEF Waits
  <2> QED
    BY <1>a, <1>h, <2>1, <2>3
<1>17. ASSUME NEW t \in Thread, NEW f \in UserFiber, NEW isCb \in BOOLEAN, NEW pin \in Pins,
            Schedule(t, f, isCb, pin)
     PROVE  Alive'
  <2> DEFINE x == [fiber |-> f, cb |-> isCb, thread |-> pin]
  <2>1. failed = "none" /\ tasks' = Append(tasks, x) /\ UNCHANGED <<parked, cur>>
    BY <1>17 DEF Schedule, MaySchedule, At, Push
  <2>2. x \in Task
    BY SchedulerAssumption DEF Task, Pins, Worker
  <2>3. \A g \in UserFiber : Waits(g) \/ g = f => Waits(g)'
    BY <2>1, <2>2, QueuedPushed DEF Waits
  <2>4. \A g \in UserFiber : state'[g] # state[g] => g = f
    BY <1>0, <1>17 DEF Schedule, Construct
  <2> QED
    BY <1>a, <1>h, <2>1, <2>3, <2>4
<1>18. CASE StartNothing
  <2>1. \A f \in UserFiber : state'[f] = state[f]
    BY <1>0, <1>18, Names DEF StartNothing, At, GetThisFirst, fiberVars, schedVars
  <2>2. failed = "none" /\ UNCHANGED <<tasks, parked, cur>>
    BY <1>18 DEF StartNothing, At, GetThisFirst, fiberVars, schedVars
  <2> QED
    BY <1>b, <2>1, <2>2
<1>19. CASE StartThreads
  <2>1. \A f \in UserFiber : state'[f] = state[f]
    BY <1>0, <1>19, Names DEF StartThreads, At, GetThisFirst, fiberVars, schedVars
  <2>2. failed = "none" /\ UNCHANGED <<tasks, parked, cur>>
    BY <1>19 DEF StartThreads, At, GetThisFirst, fiberVars, schedVars
  <2> QED
    BY <1>b, <2>1, <2>2
<1>20. CASE StopCheck
  <2>1. \A f \in UserFiber : state'[f] = state[f]
    BY <1>0, <1>20, Names DEF StopCheck, At, GetThisFirst, fiberVars, schedVars
  <2>2. failed = "none" /\ UNCHANGED <<tasks, parked, cur>>
    BY <1>20 DEF StopCheck, At, GetThisFirst, fiberVars, schedVars
  <2> QED
    BY <1>b, <2>1, <2>2
<1>21. CASE StopSet
  <2>1. \A f \in UserFiber : state'[f] = state[f]
    BY <1>0, <1>21, Names, StopSetEffect DEF fiberVars
  <2>2. failed = "none" /\ UNCHANGED <<tasks, parked, cur>>
    BY <1>21, StopSetEffect
  <2> QED
    BY <1>b, <2>1, <2>2
<1>22. CASE Join
  <2>1. \A f \in UserFiber : state'[f] = state[f]
    BY <1>0, <1>22, Names DEF Join, At, GetThisFirst, fiberVars, schedVars
  <2>2. failed = "none" /\ UNCHANGED <<tasks, parked, cur>>
    BY <1>22 DEF Join, At, GetThisFirst, fiberVars, schedVars
  <2> QED
    BY <1>b, <2>1, <2>2
<1>23. CASE Destruct
  <2>1. failed = "none" /\ tasks = <<>> /\ tasks' = <<>> /\ UNCHANGED <<parked, cur, state>>
    BY <1>23 DEF Destruct, At, PoolInv, ClosedQuiet, Calm
  <2> QED
    BY <1>b, <2>1
<1>24. CASE UNCHANGED vars
  <2>1. \A f \in UserFiber : state'[f] = state[f]
    BY <1>0, <1>24, Names DEF vars, schedVars, At, GetThisFirst, fiberVars, schedVars
  <2>2. failed = "none" /\ UNCHANGED <<tasks, parked, cur>>
    BY <1>24 DEF vars, schedVars, At, GetThisFirst, fiberVars, schedVars
  <2> QED
    BY <1>b, <2>1, <2>2
<1> QED
  BY <1>1, <1>2, <1>3, <1>4, <1>5, <1>6, <1>7, <1>8, <1>9, <1>10, <1>11, <1>12, <1>13, <1>14, <1>15, <1>16, <1>17, <1>18, <1>19, <1>20, <1>21, <1>22, <1>23, <1>24, StepCases

LEMMA ThreadsKept ==
  ASSUME Calm, Inv, PoolInv, [Next]_vars
  PROVE  Threads'
<1>0. /\ pool \in {{}, Worker}
      /\ pool = {} => (\A w \in Worker : pc[w] = "off") \/ (\A w \in Worker : pc[w] = "gone")
      /\ pool = Worker => \A w \in Worker : pc[w] # "off"
      /\ \A w \in Worker : pc[w] = "gone" => idleDone[w]
      /\ UseCaller /\ pc[Caller] = "join" => idleDone[Caller]
      /\ pc \in [Thread -> Places] /\ idleDone \in [Thread -> BOOLEAN]
      /\ Caller \in Thread /\ Caller \notin Worker /\ \A w \in Worker : w \in Thread /\ w # Caller
  BY Names DEF PoolInv, Threads, Inv, TypeOK, Worker
<1>1a. ASSUME UNCHANGED <<pool, idleDone, pc>> PROVE Threads'
  BY <1>0, <1>1a DEF Threads
<1>1b. ASSUME NEW t \in Thread, NEW p \in Places \ {"off", "gone", "join"}, pc[t] \notin {"off", "gone"},
              UNCHANGED <<pool, idleDone>>, pc' = [pc EXCEPT ![t] = p]
       PROVE  Threads'
  <2>1. \A w \in Worker : pc'[w] = pc[w] \/ (w = t /\ pc'[w] = p)
    BY <1>0, <1>1b
  <2>2. pc'[Caller] = pc[Caller] \/ pc'[Caller] = p
    BY <1>0, <1>1b
  <2>3. pool = {} => UNCHANGED pc \/ t \notin Worker
    BY <1>0, <1>1b
  <2>4. t \notin Worker => \A w \in Worker : pc'[w] = pc[w]
    BY <1>0, <1>1b
  <2> QED
    BY <1>0, <1>1b, <2>1, <2>2, <2>3, <2>4 DEF Threads
<1>1. ASSUME NEW t \in Thread, Boot(t) PROVE Threads'
  <2>1. pc[t] \notin {"off", "gone"} /\ UNCHANGED <<pool, idleDone>> /\ (pc' = [pc EXCEPT ![t] = "loop"] \/ UNCHANGED pc)
    BY <1>1 DEF Boot, At, Goto
  <2>2. "loop" \in Places \ {"off", "gone", "join"}
    BY DEF Places
  <2> QED
    BY <1>1a, <1>1b, <2>1, <2>2
<1>2. ASSUME NEW t \in Thread, Take(t) PROVE Threads'
  <2>1. pc[t] \notin {"off", "gone"} /\ UNCHANGED <<pool, idleDone>> /\ (pc' = [pc EXCEPT ![t] = "resume"] \/ UNCHANGED pc)
    BY <1>2 DEF Take, At, Goto
  <2>2. "resume" \in Places \ {"off", "gone", "join"}
    BY DEF Places
  <2> QED
    BY <1>1a, <1>1b, <2>1, <2>2
<1>3. ASSUME NEW t \in Thread, TakeNothing(t) PROVE Threads'
  <2>1. pc[t] \notin {"off", "gone"} /\ UNCHANGED <<pool, idleDone>> /\ (pc' = [pc EXCEPT ![t] = "idle"] \/ UNCHANGED pc)
    BY <1>3 DEF TakeNothing, At, Goto
  <2>2. "idle" \in Places \ {"off", "gone", "join"}
    BY DEF Places
  <2> QED
    BY <1>1a, <1>1b, <2>1, <2>2
<1>4. ASSUME NEW t \in Thread, Idle(t) PROVE Threads'
  <2>1. pc[t] = "idle" /\ UNCHANGED pool /\ pc' = [pc EXCEPT ![t] = "loop"] /\ idleDone' = [idleDone EXCEPT ![t] = Stopping]
    BY <1>4 DEF Idle, At, Goto
  <2>2. \A w \in Worker : (pc'[w] = pc[w] /\ idleDone'[w] = idleDone[w]) \/ (w = t /\ pc'[w] = "loop")
    BY <1>0, <2>1
  <2>3. (pc'[Caller] = pc[Caller] /\ idleDone'[Caller] = idleDone[Caller]) \/ pc'[Caller] = "loop"
    BY <1>0, <2>1
  <2>4. pool = {} => t \notin Worker
    BY <1>0, <2>1
  <2>5. t \notin Worker => \A w \in Worker : pc'[w] = pc[w]
    BY <1>0, <2>1
  <2> QED
    BY <1>0, <2>1, <2>2, <2>3, <2>4, <2>5 DEF Threads
<1>5. ASSUME NEW t \in Thread, RunReturns(t) PROVE Threads'
  <2>1. pc[t] = "loop" /\ idleDone[t] /\ UNCHANGED <<pool, idleDone>>
    BY <1>5 DEF RunReturns, At
  <2>2. CASE t = Caller
    <3>1. pc' = [pc EXCEPT ![Caller] = "join"]
      BY <1>5, <2>2, RootReturnsEffect
    <3>2. \A w \in Worker : pc'[w] = pc[w]
      BY <1>0, <3>1
    <3> QED
      BY <1>0, <2>1, <2>2, <3>2 DEF Threads
  <2>3. CASE t # Caller
    <3>1. pc' = [pc EXCEPT ![t] = "gone"] /\ t \in Worker
      BY <1>5, <2>3 DEF RunReturns, Goto, Worker
    <3>2. \A w \in Worker : pc'[w] = pc[w] \/ (w = t /\ pc'[w] = "gone")
      BY <1>0, <3>1
    <3>3. pc'[Caller] = pc[Caller] /\ pool # {}
      BY <1>0, <2>1, <2>3, <3>1
    <3> QED
      BY <1>0, <2>1, <3>2, <3>3 DEF Threads
  <2> QED
    BY <2>2, <2>3
<1>6. ASSUME NEW t \in Thread, Resume(t) PROVE Threads'
  <2>1. pc[t] \notin {"off", "gone"} /\ UNCHANGED <<pool, idleDone>> /\ (pc' = [pc EXCEPT ![t] = "enter"] \/ UNCHANGED pc)
    BY <1>6 DEF Resume, At, Goto
  <2>2. "enter" \in Places \ {"off", "gone", "join"}
    BY DEF Places
  <2> QED
    BY <1>1a, <1>1b, <2>1, <2>2
<1>7. ASSUME NEW t \in Thread, EnterFiber(t) PROVE Threads'
  <2>1. pc[t] \notin {"off", "gone"} /\ UNCHANGED <<pool, idleDone>> /\ (pc' = [pc EXCEPT ![t] = "body"] \/ UNCHANGED pc)
    BY <1>7, EnterEffect
  <2>2. "body" \in Places \ {"off", "gone", "join"}
    BY DEF Places
  <2> QED
    BY <1>1a, <1>1b, <2>1, <2>2
<1>8. ASSUME NEW t \in Thread, After(t) PROVE Threads'
  <2>1. pc[t] \notin {"off", "gone"} /\ UNCHANGED <<pool, idleDone>> /\ (pc' = [pc EXCEPT ![t] = "loop"] \/ UNCHANGED pc)
    BY <1>8 DEF After, At, Goto
  <2>2. "loop" \in Places \ {"off", "gone", "join"}
    BY DEF Places
  <2> QED
    BY <1>1a, <1>1b, <2>1, <2>2
<1>9. ASSUME NEW t \in Thread, YieldMark(t) PROVE Threads'
  <2>1. pc[t] \notin {"off", "gone"} /\ UNCHANGED <<pool, idleDone>> /\ (pc' = [pc EXCEPT ![t] = "marked"] \/ UNCHANGED pc)
    BY <1>9 DEF YieldMark, At, Goto
  <2>2. "marked" \in Places \ {"off", "gone", "join"}
    BY DEF Places
  <2> QED
    BY <1>1a, <1>1b, <2>1, <2>2
<1>10. ASSUME NEW t \in Thread, YieldSwap(t) PROVE Threads'
  <2>1. pc[t] \notin {"off", "gone"} /\ UNCHANGED <<pool, idleDone>> /\ (pc' = [pc EXCEPT ![t] = "after"] \/ UNCHANGED pc)
    BY <1>10, YieldSwapEffect
  <2>2. "after" \in Places \ {"off", "gone", "join"}
    BY DEF Places
  <2> QED
    BY <1>1a, <1>1b, <2>1, <2>2
<1>11. ASSUME NEW t \in Thread, Return(t) PROVE Threads'
  <2>1. pc[t] \notin {"off", "gone"} /\ UNCHANGED <<pool, idleDone>> /\ (pc' = [pc EXCEPT ![t] = "after"] \/ UNCHANGED pc)
    BY <1>11, ReturnEffect
  <2>2. "after" \in Places \ {"off", "gone", "join"}
    BY DEF Places
  <2> QED
    BY <1>1a, <1>1b, <2>1, <2>2
<1>12. ASSUME NEW t \in Thread, Throw(t) PROVE Threads'
  <2>1. pc[t] \notin {"off", "gone"} /\ UNCHANGED <<pool, idleDone>> /\ (pc' = [pc EXCEPT ![t] = "marked"] \/ UNCHANGED pc)
    BY <1>12 DEF Throw, At, Goto
  <2>2. "marked" \in Places \ {"off", "gone", "join"}
    BY DEF Places
  <2> QED
    BY <1>1a, <1>1b, <2>1, <2>2
<1>13. ASSUME NEW t \in Thread, Park(t) PROVE Threads'
  <2>1. pc[t] \notin {"off", "gone"} /\ UNCHANGED <<pool, idleDone>> /\ (pc' = [pc EXCEPT ![t] = "leaving"] \/ UNCHANGED pc)
    BY <1>13 DEF Park, At, Goto
  <2>2. "leaving" \in Places \ {"off", "gone", "join"}
    BY DEF Places
  <2> QED
    BY <1>1a, <1>1b, <2>1, <2>2
<1>14. ASSUME NEW t \in Thread, NEW thread \in {t, Null}, Requeue(t, thread) PROVE Threads'
  <2>1. pc[t] \notin {"off", "gone"} /\ UNCHANGED <<pool, idleDone>> /\ (pc' = [pc EXCEPT ![t] = "leaving"] \/ UNCHANGED pc)
    BY <1>14 DEF Requeue, At, Goto
  <2>2. "leaving" \in Places \ {"off", "gone", "join"}
    BY DEF Places
  <2> QED
    BY <1>1a, <1>1b, <2>1, <2>2
<1>15. ASSUME NEW t \in Thread, NEW fs \in Lists, Wake(t, fs) PROVE Threads'
  BY <1>1a, <1>15 DEF Wake
<1>16. ASSUME NEW t \in Thread, NEW fs \in Pairs, ScheduleAll(t, fs) PROVE Threads'
  BY <1>1a, <1>16 DEF ScheduleAll
<1>17. ASSUME NEW t \in Thread, NEW f \in UserFiber, NEW isCb \in BOOLEAN, NEW pin \in Pins,
            Schedule(t, f, isCb, pin)
     PROVE  Threads'
  BY <1>1a, <1>17 DEF Schedule
<1>18. CASE StartNothing
  BY <1>1a, <1>18 DEF StartNothing, schedVars
<1>19. CASE StartThreads
  <2>1. pc[Caller] = "user" /\ UNCHANGED idleDone
    BY <1>19 DEF StartThreads, At
  <2>2. CASE pool # {}
    BY <1>1a, <1>19, <2>1, <2>2 DEF StartThreads
  <2>3. CASE pool = {}
    <3>1. pool' = Worker /\ pc' = [t \in Thread |-> IF t \in Worker THEN "boot" ELSE pc[t]]
      BY <1>19, <2>3 DEF StartThreads
    <3>2. pc'[Caller] = "user" /\ \A w \in Worker : pc'[w] = "boot"
      BY <1>0, <2>1, <3>1
    <3>3. Worker = {} => \A w \in Worker : pc'[w] = "off"
      OBVIOUS
    <3> QED
      BY <1>0, <2>1, <3>1, <3>2, <3>3 DEF Threads
  <2> QED
    BY <2>2, <2>3
<1>20. CASE StopCheck
  <2>1. pc[Caller] = "user" /\ UNCHANGED <<pool, idleDone>> /\ (pc' = [pc EXCEPT ![Caller] = "stopSet"] \/ UNCHANGED pc)
    BY <1>20 DEF StopCheck, At, Goto
  <2>2. "stopSet" \in Places \ {"off", "gone", "join"}
    BY DEF Places
  <2> QED
    BY <1>0, <1>1a, <1>1b, <2>1, <2>2
<1>21. CASE StopSet
  <2>1. pc[Caller] = "stopSet" /\ UNCHANGED <<pool, idleDone>>
    BY <1>21, StopSetEffect
  <2>2. CASE pc' = [pc EXCEPT ![Caller] = "loop"] \/ UNCHANGED pc
    <3>1. "loop" \in Places \ {"off", "gone", "join"}
      BY DEF Places
    <3> QED
      BY <1>0, <1>1a, <1>1b, <2>1, <2>2, <3>1
  <2>3. CASE ~UseCaller /\ pc' = [pc EXCEPT ![Caller] = "join"]
    <3>1. \A w \in Worker : pc'[w] = pc[w]
      BY <1>0, <2>3
    <3> QED
      BY <1>0, <2>1, <2>3, <3>1 DEF Threads
  <2> QED
    BY <1>21, <2>2, <2>3, StopSetEffect
<1>22. CASE Join
  <2>1. pool' = {} /\ (\A w \in pool : pc[w] = "gone") /\ pc' = [pc EXCEPT ![Caller] = "user"] /\ UNCHANGED idleDone
    BY <1>22 DEF Join, Goto
  <2>2. pc'[Caller] = "user" /\ \A w \in Worker : pc'[w] = pc[w]
    BY <1>0, <2>1
  <2>3. (\A w \in Worker : pc'[w] = "off") \/ (\A w \in Worker : pc'[w] = "gone")
    BY <1>0, <2>1, <2>2
  <2>4. Worker = {} => \A w \in Worker : pc'[w] # "off"
    OBVIOUS
  <2>5. pool' \in {{}, Worker} /\ \A w \in Worker : pc'[w] = "gone" => idleDone'[w]
    BY <1>0, <2>1, <2>2
  <2> QED
    BY <2>1, <2>2, <2>3, <2>4, <2>5 DEF Threads
<1>23. CASE Destruct
  <2>1. pc[Caller] = "user" /\ UNCHANGED <<pool, idleDone>> /\ (pc' = [pc EXCEPT ![Caller] = "done"] \/ UNCHANGED pc)
    BY <1>23 DEF Destruct, At, Goto
  <2>2. "done" \in Places \ {"off", "gone", "join"}
    BY DEF Places
  <2> QED
    BY <1>0, <1>1a, <1>1b, <2>1, <2>2
<1>24. CASE UNCHANGED vars
  BY <1>1a, <1>24 DEF vars, schedVars
<1> QED
  BY <1>1, <1>2, <1>3, <1>4, <1>5, <1>6, <1>7, <1>8, <1>9, <1>10, <1>11, <1>12, <1>13, <1>14, <1>15, <1>16, <1>17, <1>18, <1>19, <1>20, <1>21, <1>22, <1>23, <1>24, StepCases

LEMMA ClosedQuietKept ==
  ASSUME Calm, Inv, PoolInv, [Next]_vars
  PROVE  ClosedQuiet'
<1>0. /\ returned /\ HasRunners => tasks = <<>> /\ active = 0
      /\ pc \in [Thread -> Places]
      /\ Caller \in Thread /\ Caller \notin Worker /\ \A w \in Worker : w \in Thread /\ w # Caller
  BY Names DEF PoolInv, ClosedQuiet, Inv, TypeOK, Worker
<1>h. ASSUME NEW t \in Thread, pc[t] # "off", NEW p, pc' = [pc EXCEPT ![t] = p] \/ UNCHANGED pc, HasRunners' PROVE HasRunners
  <2>1. \A w \in Worker : pc'[w] # "off" => pc[w] # "off"
    BY <1>0, <1>h
  <2> QED
    BY <1>h, <2>1 DEF HasRunners
<1>1a. ASSUME UNCHANGED <<returned, tasks, active>>, NEW t \in Thread, pc[t] # "off",
              NEW p, pc' = [pc EXCEPT ![t] = p] \/ UNCHANGED pc
       PROVE  ClosedQuiet'
  BY <1>0, <1>1a, <1>h DEF ClosedQuiet
<1>1b. ASSUME NEW t \in Thread, pc[t] \in HoldPlaces, returned' => returned, NEW p, pc' = [pc EXCEPT ![t] = p] \/ UNCHANGED pc
       PROVE  ClosedQuiet'
  <2>1. pc[t] # "off"
    BY <1>1b DEF HoldPlaces, Deep
  <2>2. ~(active = 0)
    BY <1>1b, NobodyHolds
  <2> QED
    BY <1>0, <1>1b, <1>h, <2>1, <2>2 DEF ClosedQuiet
<1>1. ASSUME NEW t \in Thread, Boot(t) PROVE ClosedQuiet'
  <2>1. pc[t] # "off" /\ UNCHANGED <<returned, tasks, active>> /\ (pc' = [pc EXCEPT ![t] = "loop"] \/ UNCHANGED pc)
    BY <1>1 DEF Boot, At, Goto, history
  <2> QED
    BY <1>1a, <2>1
<1>2. ASSUME NEW t \in Thread, Take(t) PROVE ClosedQuiet'
  <2>1. tasks # <<>> /\ pc[t] # "off" /\ UNCHANGED returned /\ pc' = [pc EXCEPT ![t] = "resume"]
    BY <1>2, EmptySeq DEF Take, EligibleAt, At, Goto, history
  <2> QED
    BY <1>0, <1>h, <2>1 DEF ClosedQuiet
<1>3. ASSUME NEW t \in Thread, TakeNothing(t) PROVE ClosedQuiet'
  <2>1. pc[t] # "off" /\ UNCHANGED <<returned, tasks, active>> /\ (pc' = [pc EXCEPT ![t] = "idle"] \/ UNCHANGED pc)
    BY <1>3 DEF TakeNothing, At, Goto, history
  <2> QED
    BY <1>1a, <2>1
<1>4. ASSUME NEW t \in Thread, Idle(t) PROVE ClosedQuiet'
  <2>1. pc[t] # "off" /\ UNCHANGED <<returned, tasks, active>> /\ (pc' = [pc EXCEPT ![t] = "loop"] \/ UNCHANGED pc)
    BY <1>4 DEF Idle, At, Goto, history
  <2> QED
    BY <1>1a, <2>1
<1>5. ASSUME NEW t \in Thread, RunReturns(t) PROVE ClosedQuiet'
  <2>1. CASE t = Caller
    <3>1. pc[t] # "off" /\ UNCHANGED <<returned, tasks, active>> /\ pc' = [pc EXCEPT ![t] = "join"]
      BY <1>5, <2>1, RootReturnsEffect DEF history
    <3> QED
      BY <1>1a, <3>1
  <2>2. CASE t # Caller
    <3>1. pc[t] # "off" /\ UNCHANGED <<returned, tasks, active>> /\ pc' = [pc EXCEPT ![t] = "gone"]
      BY <1>5, <2>2 DEF RunReturns, At, Goto, history
    <3> QED
      BY <1>1a, <3>1
  <2> QED
    BY <2>1, <2>2
<1>6. ASSUME NEW t \in Thread, Resume(t) PROVE ClosedQuiet'
  <2>1. pc[t] # "off" /\ UNCHANGED <<returned, tasks, active>> /\ (pc' = [pc EXCEPT ![t] = "enter"] \/ UNCHANGED pc)
    BY <1>6 DEF Resume, At, Goto, history
  <2> QED
    BY <1>1a, <2>1
<1>7. ASSUME NEW t \in Thread, EnterFiber(t) PROVE ClosedQuiet'
  <2>1. pc[t] # "off" /\ UNCHANGED <<returned, tasks, active>> /\ (pc' = [pc EXCEPT ![t] = "body"] \/ UNCHANGED pc)
    BY <1>7, EnterEffect DEF history
  <2> QED
    BY <1>1a, <2>1
<1>8. ASSUME NEW t \in Thread, After(t) PROVE ClosedQuiet'
  <2>1. pc[t] \in HoldPlaces /\ (returned' => returned) /\ (pc' = [pc EXCEPT ![t] = "loop"] \/ UNCHANGED pc)
    BY <1>8 DEF After, At, Goto, history, HoldPlaces, Deep
  <2> QED
    BY <1>1b, <2>1
<1>9. ASSUME NEW t \in Thread, YieldMark(t) PROVE ClosedQuiet'
  <2>1. pc[t] # "off" /\ UNCHANGED <<returned, tasks, active>> /\ (pc' = [pc EXCEPT ![t] = "marked"] \/ UNCHANGED pc)
    BY <1>9 DEF YieldMark, At, Goto, history
  <2> QED
    BY <1>1a, <2>1
<1>10. ASSUME NEW t \in Thread, YieldSwap(t) PROVE ClosedQuiet'
  <2>1. pc[t] # "off" /\ UNCHANGED <<returned, tasks, active>> /\ (pc' = [pc EXCEPT ![t] = "after"] \/ UNCHANGED pc)
    BY <1>10, YieldSwapEffect DEF history
  <2> QED
    BY <1>1a, <2>1
<1>11. ASSUME NEW t \in Thread, Return(t) PROVE ClosedQuiet'
  <2>1. pc[t] # "off" /\ UNCHANGED <<returned, tasks, active>> /\ (pc' = [pc EXCEPT ![t] = "after"] \/ UNCHANGED pc)
    BY <1>11, ReturnEffect DEF history
  <2> QED
    BY <1>1a, <2>1
<1>12. ASSUME NEW t \in Thread, Throw(t) PROVE ClosedQuiet'
  <2>1. pc[t] # "off" /\ UNCHANGED <<returned, tasks, active>> /\ (pc' = [pc EXCEPT ![t] = "marked"] \/ UNCHANGED pc)
    BY <1>12 DEF Throw, At, Goto, history
  <2> QED
    BY <1>1a, <2>1
<1>13. ASSUME NEW t \in Thread, Park(t) PROVE ClosedQuiet'
  <2>1. pc[t] # "off" /\ UNCHANGED <<returned, tasks, active>> /\ (pc' = [pc EXCEPT ![t] = "leaving"] \/ UNCHANGED pc)
    BY <1>13 DEF Park, At, Goto, history
  <2> QED
    BY <1>1a, <2>1
<1>14. ASSUME NEW t \in Thread, NEW thread \in {t, Null}, Requeue(t, thread) PROVE ClosedQuiet'
  <2>1. pc[t] \in HoldPlaces /\ (returned' => returned) /\ (pc' = [pc EXCEPT ![t] = "leaving"] \/ UNCHANGED pc)
    BY <1>14 DEF Requeue, At, Goto, history, HoldPlaces, Deep
  <2> QED
    BY <1>1b, <2>1
<1>15. ASSUME NEW t \in Thread, NEW fs \in Lists, Wake(t, fs) PROVE ClosedQuiet'
  <2>1. CASE pc[t] = "user"
    BY <1>15, <2>1 DEF Wake, ClosedQuiet
  <2>2. CASE pc[t] = "body"
    <3>1. pc[t] \in HoldPlaces /\ (returned' => returned) /\ UNCHANGED pc
      BY <1>15, <2>2 DEF Wake, HoldPlaces, Deep
    <3> QED
      BY <1>1b, <3>1
  <2> QED
    BY <1>15, <2>1, <2>2 DEF Wake, MaySchedule, At
<1>16. ASSUME NEW t \in Thread, NEW fs \in Pairs, ScheduleAll(t, fs) PROVE ClosedQuiet'
  <2>1. CASE pc[t] = "user"
    BY <1>16, <2>1 DEF ScheduleAll, ClosedQuiet
  <2>2. CASE pc[t] = "body"
    <3>1. pc[t] \in HoldPlaces /\ (returned' => returned) /\ UNCHANGED pc
      BY <1>16, <2>2 DEF ScheduleAll, HoldPlaces, Deep
    <3> QED
      BY <1>1b, <3>1
  <2> QED
    BY <1>16, <2>1, <2>2 DEF ScheduleAll, MaySchedule, At
<1>17. ASSUME NEW t \in Thread, NEW f \in UserFiber, NEW isCb \in BOOLEAN, NEW pin \in Pins,
            Schedule(t, f, isCb, pin)
     PROVE  ClosedQuiet'
  <2>1. CASE pc[t] = "user"
    BY <1>17, <2>1 DEF Schedule, ClosedQuiet
  <2>2. CASE pc[t] = "body"
    <3>1. pc[t] \in HoldPlaces /\ (returned' => returned) /\ UNCHANGED pc
      BY <1>17, <2>2 DEF Schedule, HoldPlaces, Deep
    <3> QED
      BY <1>1b, <3>1
  <2> QED
    BY <1>17, <2>1, <2>2 DEF Schedule, MaySchedule, At
<1>18. CASE StartNothing
  <2>1. pc[Caller] # "off" /\ UNCHANGED <<returned, tasks, active>> /\ (pc' = [pc EXCEPT ![Caller] = "user"] \/ UNCHANGED pc)
    BY <1>18 DEF StartNothing, At, schedVars
  <2> QED
    BY <1>0, <1>1a, <2>1
<1>19. CASE StartThreads
  BY <1>19 DEF StartThreads, ClosedQuiet
<1>20. CASE StopCheck
  <2>1. CASE StopEarly
    BY <1>20, <2>1 DEF StopCheck, StopEarly, Stopping, ClosedQuiet
  <2>2. CASE ~StopEarly
    BY <1>20, <2>2 DEF StopCheck, ClosedQuiet
  <2> QED
    BY <2>1, <2>2
<1>21. CASE StopSet
  <2>1. pc[Caller] # "off" /\ UNCHANGED <<returned, tasks, active>> /\ \E p \in {"join", "loop"} : pc' = [pc EXCEPT ![Caller] = p] \/ UNCHANGED pc
    BY <1>21, StopSetEffect DEF history
  <2> QED
    BY <1>0, <1>1a, <2>1
<1>22. CASE Join
  <2>1. pc[Caller] = "join" /\ UNCHANGED <<tasks, active>> /\ pc' = [pc EXCEPT ![Caller] = "user"] /\ \A w \in pool : pc[w] = "gone"
    BY <1>22 DEF Join, At, Goto
  <2> SUFFICES ASSUME HasRunners PROVE tasks = <<>> /\ active = 0
    BY <1>0, <1>h, <2>1 DEF ClosedQuiet
  <2>2. Drained /\ Threads
    BY DEF PoolInv
  <2>3. \E t \in Thread : idleDone[t]
    <3>1. CASE UseCaller
      BY <1>0, <2>1, <2>2, <3>1 DEF Threads
    <3>2. CASE ~UseCaller
      <4>1. PICK w : w \in Worker
        BY <1>0, <3>2, SchedulerAssumption DEF Worker
      <4>2. pc[w] = "gone"
        BY <2>1, <2>2, <3>2, <4>1 DEF Threads, HasRunners
      <4> QED
        BY <1>0, <2>2, <4>1, <4>2 DEF Threads
    <3> QED
      BY <3>1, <3>2
  <2> QED
    BY <2>2, <2>3 DEF Drained, Stopping
<1>23. CASE Destruct
  <2>1. pc[Caller] # "off" /\ tasks' = <<>> /\ UNCHANGED <<returned, active>> /\ pc' = [pc EXCEPT ![Caller] = "done"]
    BY <1>23 DEF Destruct, At, Goto, history
  <2> QED
    BY <1>0, <1>h, <2>1 DEF ClosedQuiet
<1>24. CASE UNCHANGED vars
  <2>1. UNCHANGED <<returned, tasks, active, pc>>
    BY <1>24 DEF vars, schedVars, history
  <2> QED
    BY <1>0, <2>1 DEF ClosedQuiet, HasRunners
<1> QED
  BY <1>1, <1>2, <1>3, <1>4, <1>5, <1>6, <1>7, <1>8, <1>9, <1>10, <1>11, <1>12, <1>13, <1>14, <1>15, <1>16, <1>17, <1>18, <1>19, <1>20, <1>21, <1>22, <1>23, <1>24, StepCases

LEMMA InitPool ==
  ASSUME Init
  PROVE  PoolInv
<1>1. tasks = <<>> /\ parked = {} /\ Len(tasks) = 0 /\ 1..0 = {}
  BY DEF Init
<1>2. \A t \in Thread : cur[t] = NoTask /\ pc[t] = (IF t = Caller THEN "user" ELSE "off") /\ idleDone[t] = FALSE
  BY DEF Init
<1>3. \A f \in UserFiber : state[f] = "absent" /\ phase[f] = "entry"
  BY Names DEF Init
<1>4. QueuedOnce /\ HeldOnce
  BY <1>1, <1>2 DEF QueuedOnce, HeldOnce
<1>5. Turns
  BY <1>2, <1>3 DEF Turns, Turn
<1>6. Alive
  BY <1>3 DEF Alive
<1>7. Drained /\ ClosedQuiet
  BY <1>2 DEF Init, Drained, ClosedQuiet
<1>8. Threads
  <2>1. pool = {} /\ \A w \in Worker : pc[w] = "off"
    BY <1>2 DEF Init, Worker
  <2>2. pool = Worker => \A w \in Worker : pc[w] # "off"
    BY <2>1
  <2>3. pc[Caller] = "user"
    BY <1>2, Names
  <2> QED
    BY <2>1, <2>2, <2>3 DEF Threads
<1> QED
  BY <1>4, <1>5, <1>6, <1>7, <1>8 DEF PoolInv

LEMMA PoolKept ==
  ASSUME Calm, Inv, PoolInv, [Next]_vars
  PROVE  PoolInv'
<1>1. Drained'
  BY DrainedKept DEF Calm, PoolInv
<1> QED
  BY <1>1, QueuedOnceKept, HeldOnceKept, TurnsKept, AliveKept, ThreadsKept, ClosedQuietKept DEF PoolInv

\* Each job is in one place, in every reachable state.
THEOREM PoolInvariance ==
  ASSUME Calm
  PROVE  Spec => [](Inv /\ PoolInv)
<1>1. Init => Inv /\ PoolInv
  BY InitInv, InitPool
<1>2. Inv /\ PoolInv /\ [Next]_vars => Inv' /\ PoolInv'
  BY InvKept, PoolKept
<1> QED
  BY <1>1, <1>2, PTL DEF Spec

LEMMA NothingLeft ==
  ASSUME Inv, PoolInv, HasRunners
  PROVE  StopDrains
<1> SUFFICES ASSUME returned, Running
             PROVE  /\ tasks = <<>>
                    /\ \A t \in Thread : cur[t] = NoTask
                    /\ \A f \in UserFiber : state[f] \in {"absent", "freed"} \/ f \in parked
  BY DEF StopDrains
<1>1. tasks = <<>> /\ active = 0
  BY DEF PoolInv, ClosedQuiet
<1>2. \A t \in Thread : cur[t] = NoTask
  BY <1>1, NobodyHolds
<1>3. \A f \in UserFiber : ~Queued(f) /\ ~Held(f)
  BY <1>1, <1>2, Names DEF Queued, Held
<1>4. \A f \in UserFiber : state[f] \in {"absent", "freed"} \/ Waits(f) \/ Held(f)
  BY DEF PoolInv, Alive
<1> QED
  BY <1>1, <1>2, <1>3, <1>4 DEF Waits

\* When stop() has returned, nothing is queued, no thread holds a task and every fiber has
\* run to its end or is on the program's wait list, provided somebody was in run(): the
\* caller with use_caller, or threads that start() created.  Exceptions and repeated calls
\* of start() and stop() included.
THEOREM StopLeavesNothing ==
  ASSUME Calm
  PROVE  Spec => [](HasRunners => StopDrains)
<1>1. Inv /\ PoolInv => (HasRunners => StopDrains)
  BY NothingLeft
<1> QED
  BY <1>1, PoolInvariance, PTL

\* With use_caller, stop() drains whether or not start() has been called.
THEOREM CallerDrains ==
  ASSUME Calm, UseCaller
  PROVE  Spec => []StopDrains
<1>1. HasRunners
  BY DEF HasRunners
<1>2. Inv /\ PoolInv => StopDrains
  BY <1>1, NothingLeft
<1> QED
  BY <1>2, PoolInvariance, PTL

-----------------------------------------------------------------------------
(* The scheduler as a task pool, step by step.                             *)

\* What users of the pool see, as Scheduler!Pool maps it.
Waiting == {f \in UserFiber : Queued(f)}
WorksAt == [t \in Thread |-> cur[t].fiber]
Done == {f \in UserFiber : Finished(f)}
Closed == returned /\ HasRunners

\* Nothing has happened that a user of the pool sees.
Unseen == Waiting' = Waiting /\ WorksAt' = WorksAt /\ parked' = parked /\ Done' = Done /\ Closed' = Closed

\* What a step may look like from there: the actions of TaskPool.
PoolStep ==
  \/ Unseen
  \/ /\ Closed' = FALSE /\ WorksAt' = WorksAt /\ Done' = Done
     /\ \/ \E js \in SUBSET UserFiber :                                      \* Submit
             /\ js \cap (Waiting \cup parked \cup Done) = {}
             /\ \A j \in js : ~Held(j)
             /\ Waiting' = Waiting \cup js /\ parked' = parked
        \/ \E js \in SUBSET UserFiber :                                      \* Wake
             /\ js \subseteq parked
             /\ parked' = parked \ js /\ Waiting' = Waiting \cup js
  \/ /\ parked' = parked /\ Done' = Done /\ Closed' = Closed
     /\ \/ \E t \in Thread, j \in UserFiber :                                \* Take
             /\ WorksAt[t] = Null /\ j \in Waiting /\ ~Held(j)
             /\ WorksAt' = [WorksAt EXCEPT ![t] = j] /\ Waiting' = Waiting \ {j}
        \/ \E t \in Thread :                                                 \* Leave
             /\ WorksAt[t] \in Waiting \cup parked \cup Done
             /\ WorksAt' = [WorksAt EXCEPT ![t] = Null] /\ Waiting' = Waiting
  \/ /\ WorksAt' = WorksAt /\ Closed' = Closed
     /\ \E t \in Thread :
          /\ WorksAt[t] \in UserFiber \ (Waiting \cup parked \cup Done)
          /\ \/ Waiting' = Waiting \cup {WorksAt[t]} /\ parked' = parked /\ Done' = Done   \* Requeue
             \/ parked' = parked \cup {WorksAt[t]} /\ Waiting' = Waiting /\ Done' = Done   \* FallAsleep
             \/ Done' = Done \cup {WorksAt[t]} /\ Waiting' = Waiting /\ parked' = parked   \* Finish
  \/ /\ Waiting' = Waiting /\ WorksAt' = WorksAt /\ parked' = parked /\ Done' = Done
     /\ \/ Closed' = FALSE                                                  \* Reopen
        \/ Closed' = TRUE /\ Waiting = {} /\ \A t \in Thread : WorksAt[t] = Null   \* Close

LEMMA StepSeen ==
  ASSUME Calm, Inv, PoolInv, [Next]_vars
  PROVE  PoolStep
<1>0. /\ cur \in [Thread -> Task \cup {NoTask}] /\ phase \in [Coroutine -> {"entry", "body", "over"}]
      /\ pc \in [Thread -> Places] /\ returned \in BOOLEAN /\ parked \subseteq UserFiber
      /\ Caller \in Thread /\ Caller \notin Worker /\ \A w \in Worker : w \in Thread /\ w # Caller
  BY Names DEF Inv, TypeOK, FiberTypeOK, Worker
<1>w. ASSUME UNCHANGED tasks PROVE Waiting' = Waiting
  BY <1>w DEF Waiting, Queued
<1>c. ASSUME UNCHANGED cur PROVE WorksAt' = WorksAt
  BY <1>c DEF WorksAt
<1>f. ASSUME \A f \in UserFiber : phase'[f] = "over" <=> phase[f] = "over" PROVE Done' = Done
  BY <1>f DEF Done, Finished
<1>h. ASSUME NEW t \in Thread, pc[t] # "off", NEW p, p # "off", pc' = [pc EXCEPT ![t] = p] \/ UNCHANGED pc
      PROVE  HasRunners' <=> HasRunners
  <2>1. \A w \in Worker : pc'[w] # "off" <=> pc[w] # "off"
    BY <1>0, <1>h
  <2> QED
    BY <2>1 DEF HasRunners
<1>o. ASSUME returned' <=> returned, HasRunners' <=> HasRunners PROVE Closed' = Closed
  BY <1>o DEF Closed
<1>n. ASSUME NEW t \in Thread, pc[t] \in HoldPlaces PROVE ~Closed
  BY <1>n, NobodyHolds DEF Closed, PoolInv, ClosedQuiet
<1>u. ASSUME UNCHANGED <<tasks, cur, parked, returned>>, \A f \in UserFiber : phase'[f] = "over" <=> phase[f] = "over",
             NEW t \in Thread, pc[t] # "off", NEW p, p # "off", pc' = [pc EXCEPT ![t] = p] \/ UNCHANGED pc
      PROVE  PoolStep
  BY <1>w, <1>c, <1>f, <1>h, <1>o, <1>u DEF Unseen, PoolStep
<1>k. ASSUME NEW t \in Thread, pc[t] \in HoldPlaces, UNCHANGED pc, returned' => returned
      PROVE  Closed' = FALSE
  <2>1. ~returned \/ ~HasRunners
    BY <1>k, <1>n DEF Closed
  <2>2. HasRunners' <=> HasRunners
    BY <1>k DEF HasRunners
  <2> QED
    BY <1>k, <2>1, <2>2 DEF Closed
<1>1. ASSUME NEW t \in Thread, Boot(t) PROVE PoolStep
  <2>1. /\ pc[t] # "off" /\ UNCHANGED <<tasks, cur, parked, returned>>
        /\ pc' = [pc EXCEPT ![t] = "loop"] \/ UNCHANGED pc
        /\ UNCHANGED phase
    BY <1>1 DEF Boot, GetThisFirst, At, Goto, history
  <2> QED
    BY <1>0, <1>u, <2>1
<1>2. ASSUME NEW t \in Thread, Take(t) PROVE PoolStep
  <2>1. PICK i \in 1..Len(tasks) : tasks' = Erase(i) /\ cur' = [cur EXCEPT ![t] = tasks[i]] /\ tasks[i].thread \in {Null, t}
    BY <1>2 DEF Take, EligibleAt, Eligible
  <2>2. PICK j : j = tasks[i].fiber
    OBVIOUS
  <2>3. /\ pc[t] = "loop" /\ cur[t] = NoTask /\ UNCHANGED <<phase, parked, returned>>
        /\ pc' = [pc EXCEPT ![t] = "resume"]
    BY <1>2 DEF Take, At, Goto, fiberVars, history, Inv, Holding, HoldPlaces, Deep
  <2>4. j \in UserFiber /\ Queued(j)
    BY <2>2, TaskList DEF Queued
  <2>5. ~Held(j)
    BY <2>1, <2>2, <2>3, <2>4, Names DEF PoolInv, HeldOnce, Held
  <2>6. \A f : Queued(f)' <=> Queued(f) /\ f # j
    BY <2>1, <2>2, QueuedErased DEF PoolInv
  <2>7. Waiting' = Waiting \ {j} /\ j \in Waiting
    BY <2>4, <2>6 DEF Waiting
  <2>8. \A u \in Thread : cur'[u].fiber = IF u = t THEN j ELSE cur[u].fiber
    BY <1>0, <2>1, <2>2
  <2>9. WorksAt' = [WorksAt EXCEPT ![t] = j] /\ WorksAt[t] = Null
    <3>1. WorksAt' = [u \in Thread |-> IF u = t THEN j ELSE cur[u].fiber]
      BY <2>8 DEF WorksAt
    <3>2. WorksAt[t] = Null
      BY <2>3, Names DEF WorksAt
    <3> QED
      BY <3>1, <3>2 DEF WorksAt
  <2>10. Done' = Done /\ Closed' = Closed
    BY <1>f, <1>h, <1>o, <2>3
  <2> QED
    BY <2>3, <2>4, <2>5, <2>7, <2>9, <2>10 DEF PoolStep
<1>3. ASSUME NEW t \in Thread, TakeNothing(t) PROVE PoolStep
  <2>1. /\ pc[t] # "off" /\ UNCHANGED <<tasks, cur, parked, returned>>
        /\ pc' = [pc EXCEPT ![t] = "idle"] \/ UNCHANGED pc
        /\ UNCHANGED phase
    BY <1>3 DEF TakeNothing, At, Goto, history, fiberVars, schedVars
  <2> QED
    BY <1>0, <1>u, <2>1
<1>4. ASSUME NEW t \in Thread, Idle(t) PROVE PoolStep
  <2>1. /\ pc[t] # "off" /\ UNCHANGED <<tasks, cur, parked, returned>>
        /\ pc' = [pc EXCEPT ![t] = "loop"] \/ UNCHANGED pc
        /\ UNCHANGED phase
    BY <1>4 DEF Idle, At, Goto, history, fiberVars, schedVars
  <2> QED
    BY <1>0, <1>u, <2>1
<1>5. ASSUME NEW t \in Thread, RunReturns(t) PROVE PoolStep
  <2>1. CASE t = Caller
    <3>1. /\ pc[t] # "off" /\ UNCHANGED <<tasks, cur, parked, returned>> /\ pc' = [pc EXCEPT ![t] = "join"]
          /\ phase' = [phase EXCEPT ![Root] = "over"]
      BY <1>5, <2>1, RootReturnsEffect DEF history
    <3>2. \A f \in UserFiber : phase'[f] = phase[f]
      BY <1>0, <3>1, Names
    <3> QED
      BY <1>u, <3>1, <3>2
  <2>2. CASE t # Caller
    <3>1. /\ pc[t] # "off" /\ UNCHANGED <<tasks, cur, parked, returned, phase>> /\ pc' = [pc EXCEPT ![t] = "gone"]
      BY <1>5, <2>2 DEF RunReturns, At, Goto, history
    <3> QED
      BY <1>u, <3>1
  <2> QED
    BY <2>1, <2>2
<1>6. ASSUME NEW t \in Thread, Resume(t) PROVE PoolStep
  <2>1. /\ pc[t] # "off" /\ UNCHANGED <<tasks, cur, parked, returned>>
        /\ pc' = [pc EXCEPT ![t] = "enter"] \/ UNCHANGED pc
        /\ UNCHANGED phase
    BY <1>6 DEF Resume, At, Goto, history, fiberVars, schedVars
  <2> QED
    BY <1>0, <1>u, <2>1
<1>7. ASSUME NEW t \in Thread, EnterFiber(t) PROVE PoolStep
  <2>1. /\ pc[t] = "enter" /\ UNCHANGED <<tasks, cur, parked, returned>> /\ pc' = [pc EXCEPT ![t] = "body"]
        /\ phase' = [phase EXCEPT ![cur[t].fiber] = "body"] \/ UNCHANGED phase
    BY <1>7, EnterEffect DEF history
  <2>2. phase[cur[t].fiber] # "over"
    BY <2>1 DEF PoolInv, Turns, Turn
  <2>3. \A f \in UserFiber : phase'[f] = "over" <=> phase[f] = "over"
    BY <1>0, <2>1, <2>2, Names
  <2> QED
    BY <1>u, <2>1, <2>3
<1>8. ASSUME NEW t \in Thread, After(t) PROVE PoolStep
  <2>1. /\ pc[t] = "after" /\ UNCHANGED <<tasks, phase, parked, returned>> /\ cur' = [cur EXCEPT ![t] = NoTask]
        /\ pc' = [pc EXCEPT ![t] = "loop"] /\ pc[t] \in HoldPlaces
    BY <1>8 DEF After, At, Goto, history, HoldPlaces
  <2>2. cur[t].fiber \in UserFiber /\ (Waits(cur[t].fiber) \/ phase[cur[t].fiber] = "over")
    BY <2>1, InHand DEF PoolInv, Turns, Turn
  <2>3. WorksAt[t] \in Waiting \cup parked \cup Done
    BY <2>2 DEF WorksAt, Waiting, Waits, Done, Finished
  <2>4. \A u \in Thread : cur'[u].fiber = IF u = t THEN Null ELSE cur[u].fiber
    BY <1>0, <2>1, Names
  <2>5. WorksAt' = [WorksAt EXCEPT ![t] = Null]
    BY <2>4 DEF WorksAt
  <2>6. Done' = Done /\ Closed' = Closed
    BY <1>f, <1>h, <1>o, <2>1
  <2> QED
    BY <1>w, <2>1, <2>3, <2>5, <2>6 DEF PoolStep
<1>9. ASSUME NEW t \in Thread, YieldMark(t) PROVE PoolStep
  <2>1. /\ pc[t] # "off" /\ UNCHANGED <<tasks, cur, parked, returned>>
        /\ pc' = [pc EXCEPT ![t] = "marked"] \/ UNCHANGED pc
        /\ UNCHANGED phase
    BY <1>9 DEF YieldMark, At, Goto, history, fiberVars, schedVars
  <2> QED
    BY <1>0, <1>u, <2>1
<1>10. ASSUME NEW t \in Thread, YieldSwap(t) PROVE PoolStep
  <2>1. /\ pc[t] # "off" /\ UNCHANGED <<tasks, cur, parked, returned>>
        /\ pc' = [pc EXCEPT ![t] = "after"] \/ UNCHANGED pc
        /\ UNCHANGED phase
    BY <1>10, YieldSwapEffect DEF history
  <2> QED
    BY <1>0, <1>u, <2>1
<1>11. ASSUME NEW t \in Thread, Return(t) PROVE PoolStep
  <2>1. /\ pc[t] = "body" /\ UNCHANGED <<tasks, cur, parked, returned>> /\ pc' = [pc EXCEPT ![t] = "after"]
        /\ phase' = [phase EXCEPT ![cur[t].fiber] = "over"] /\ failed = "none"
    BY <1>11, ReturnEffect DEF history
  <2>2. cur[t].fiber = this[t] /\ this[t] \in UserFiber /\ ~Waits(this[t]) /\ phase[this[t]] # "over"
    BY <2>1, InBody DEF At
  <2>3. WorksAt[t] = this[t] /\ WorksAt[t] \in UserFiber \ (Waiting \cup parked \cup Done)
    BY <2>2 DEF WorksAt, Waiting, Waits, Done, Finished
  <2>4. Done' = Done \cup {this[t]}
    BY <1>0, <2>1, <2>2, Names DEF Done, Finished
  <2>5. pc[t] # "off" /\ Closed' = Closed
    BY <1>h, <1>o, <2>1
  <2> QED
    BY <1>w, <1>c, <2>1, <2>3, <2>4, <2>5 DEF PoolStep
<1>12. ASSUME NEW t \in Thread, Throw(t) PROVE PoolStep
  <2>1. /\ pc[t] = "body" /\ UNCHANGED <<tasks, cur, parked, returned>> /\ pc' = [pc EXCEPT ![t] = "marked"]
        /\ phase' = [phase EXCEPT ![cur[t].fiber] = "over"] /\ failed = "none"
    BY <1>12, OnStack DEF Throw, At, Goto, MarkThrown, history
  <2>2. cur[t].fiber = this[t] /\ this[t] \in UserFiber /\ ~Waits(this[t]) /\ phase[this[t]] # "over"
    BY <2>1, InBody DEF At
  <2>3. WorksAt[t] = this[t] /\ WorksAt[t] \in UserFiber \ (Waiting \cup parked \cup Done)
    BY <2>2 DEF WorksAt, Waiting, Waits, Done, Finished
  <2>4. Done' = Done \cup {this[t]}
    BY <1>0, <2>1, <2>2, Names DEF Done, Finished
  <2>5. pc[t] # "off" /\ Closed' = Closed
    BY <1>h, <1>o, <2>1
  <2> QED
    BY <1>w, <1>c, <2>1, <2>3, <2>4, <2>5 DEF PoolStep
<1>13. ASSUME NEW t \in Thread, Park(t) PROVE PoolStep
  <2>1. /\ UNCHANGED <<tasks, cur, phase, returned>> /\ parked' = parked \cup {this[t]} /\ At(t, "body")
        /\ pc' = [pc EXCEPT ![t] = "leaving"] /\ pc[t] # "off"
    BY <1>13 DEF Park, At, Goto, fiberVars, history
  <2>2. cur[t].fiber = this[t] /\ this[t] \in UserFiber /\ ~Waits(this[t]) /\ phase[this[t]] # "over"
    BY <2>1, InBody
  <2>3. WorksAt[t] = this[t] /\ WorksAt[t] \in UserFiber \ (Waiting \cup parked \cup Done)
    BY <2>2 DEF WorksAt, Waiting, Waits, Done, Finished
  <2>4. Done' = Done /\ Closed' = Closed
    BY <1>f, <1>h, <1>o, <2>1
  <2> QED
    BY <1>w, <1>c, <2>1, <2>3, <2>4 DEF PoolStep
<1>14. ASSUME NEW t \in Thread, NEW thread \in {t, Null}, Requeue(t, thread) PROVE PoolStep
  <2> DEFINE x == [fiber |-> this[t], cb |-> FALSE, thread |-> thread]
  <2>1. /\ UNCHANGED <<cur, phase, returned, parked>> /\ tasks' = Append(tasks, x) /\ At(t, "body")
        /\ pc' = [pc EXCEPT ![t] = "leaving"] \/ UNCHANGED pc
        /\ pc[t] # "off"
    BY <1>14 DEF Requeue, Push, At, Goto, fiberVars, history
  <2>2. cur[t].fiber = this[t] /\ this[t] \in UserFiber /\ ~Waits(this[t]) /\ phase[this[t]] # "over"
    BY <2>1, InBody
  <2>3. x \in Task /\ x.fiber = this[t]
    BY <2>2 DEF Task
  <2> HIDE DEF x
  <2>4. \A f : Queued(f)' <=> Queued(f) \/ f = this[t]
    BY <2>1, <2>3, QueuedPushed
  <2>5. Waiting' = Waiting \cup {this[t]}
    BY <2>2, <2>4 DEF Waiting
  <2>6. WorksAt[t] = this[t] /\ WorksAt[t] \in UserFiber \ (Waiting \cup parked \cup Done)
    BY <2>2 DEF WorksAt, Waiting, Waits, Done, Finished
  <2>7. HasRunners' <=> HasRunners
    <3>1. "leaving" # "off"
      OBVIOUS
    <3> QED
      BY <1>h, <2>1, <3>1
  <2>8. Done' = Done /\ Closed' = Closed
    BY <1>f, <1>o, <2>1, <2>7
  <2> QED
    BY <1>c, <2>1, <2>5, <2>6, <2>8 DEF PoolStep
<1>15. ASSUME NEW t \in Thread, NEW fs \in Lists, Wake(t, fs) PROVE PoolStep
  <2>1. UNCHANGED <<cur, phase>> /\ PushAll(fs, FALSE) /\ parked' = parked \ ToSet(fs) /\ ToSet(fs) \subseteq parked
    BY <1>15 DEF Wake, fiberVars
  <2>2. \A f : Queued(f)' <=> Queued(f) \/ f \in ToSet(fs)
    BY <2>1, QueuedPushedAll
  <2>3. ToSet(fs) \in SUBSET UserFiber
    BY <1>0, <2>1
  <2>4. Waiting' = Waiting \cup ToSet(fs)
    BY <2>2, <2>3 DEF Waiting
  <2>5. Closed' = FALSE
    <3>1. CASE pc[t] = "user"
      BY <1>15, <3>1 DEF Wake, Closed
    <3>2. CASE pc[t] = "body"
      <4>1. pc[t] \in HoldPlaces
        BY <3>2 DEF HoldPlaces, Deep
      <4>2. UNCHANGED pc /\ (returned' => returned)
        BY <1>15 DEF Wake
      <4> QED
        BY <1>k, <4>1, <4>2
    <3> QED
      BY <1>15, <3>1, <3>2 DEF Wake, MaySchedule, At
  <2>6. Done' = Done
    BY <1>f, <2>1
  <2> QED
    BY <1>c, <2>1, <2>3, <2>4, <2>5, <2>6 DEF PoolStep
<1>16. ASSUME NEW t \in Thread, NEW fs \in Pairs, ScheduleAll(t, fs) PROVE PoolStep
  <2>1. UNCHANGED <<cur, phase, parked>> /\ PushAll(fs, TRUE) /\ fs \in Lists /\ \A i \in DOMAIN fs : Fresh(fs[i])
    BY <1>16 DEF ScheduleAll, fiberVars, Lists
  <2>2. \A f : Queued(f)' <=> Queued(f) \/ f \in ToSet(fs)
    BY <2>1, QueuedPushedAll
  <2>3. \A f \in ToSet(fs) : f \in UserFiber /\ Fresh(f)
    BY <2>1, ListParts DEF ToSet
  <2>4. \A f \in ToSet(fs) : ~Waits(f) /\ ~Held(f) /\ phase[f] # "over"
    BY <2>3, FreshJob
  <2>5. ToSet(fs) \in SUBSET UserFiber /\ ToSet(fs) \cap (Waiting \cup parked \cup Done) = {}
    BY <2>3, <2>4 DEF Waiting, Waits, Done, Finished
  <2>6. Waiting' = Waiting \cup ToSet(fs)
    BY <2>2, <2>3 DEF Waiting
  <2>7. Closed' = FALSE
    <3>1. CASE pc[t] = "user"
      BY <1>16, <3>1 DEF ScheduleAll, Closed
    <3>2. CASE pc[t] = "body"
      <4>1. pc[t] \in HoldPlaces
        BY <3>2 DEF HoldPlaces, Deep
      <4>2. UNCHANGED pc /\ (returned' => returned)
        BY <1>16 DEF ScheduleAll
      <4> QED
        BY <1>k, <4>1, <4>2
    <3> QED
      BY <1>16, <3>1, <3>2 DEF ScheduleAll, MaySchedule, At
  <2>8. Done' = Done
    BY <1>f, <2>1
  <2> QED
    BY <1>c, <2>1, <2>4, <2>5, <2>6, <2>7, <2>8 DEF PoolStep
<1>17. ASSUME NEW t \in Thread, NEW f \in UserFiber, NEW isCb \in BOOLEAN, NEW pin \in Pins,
            Schedule(t, f, isCb, pin)
     PROVE  PoolStep
  <2> DEFINE x == [fiber |-> f, cb |-> isCb, thread |-> pin]
  <2>1. UNCHANGED <<cur, phase, parked>> /\ tasks' = Append(tasks, x) /\ Fresh(f)
    BY <1>17 DEF Schedule, Push
  <2>2. x \in Task /\ x.fiber = f
    BY SchedulerAssumption DEF Task, Pins, Worker
  <2> HIDE DEF x
  <2>3. \A g : Queued(g)' <=> Queued(g) \/ g = f
    BY <2>1, <2>2, QueuedPushed
  <2>4. ~Waits(f) /\ ~Held(f) /\ phase[f] # "over"
    BY <2>1, FreshJob
  <2>5. {f} \in SUBSET UserFiber /\ {f} \cap (Waiting \cup parked \cup Done) = {}
    BY <2>4 DEF Waiting, Waits, Done, Finished
  <2>6. Waiting' = Waiting \cup {f}
    BY <2>3 DEF Waiting
  <2>7. Closed' = FALSE
    <3>1. CASE pc[t] = "user"
      BY <1>17, <3>1 DEF Schedule, Closed
    <3>2. CASE pc[t] = "body"
      <4>1. pc[t] \in HoldPlaces
        BY <3>2 DEF HoldPlaces, Deep
      <4>2. UNCHANGED pc /\ (returned' => returned)
        BY <1>17 DEF Schedule
      <4> QED
        BY <1>k, <4>1, <4>2
    <3> QED
      BY <1>17, <3>1, <3>2 DEF Schedule, MaySchedule, At
  <2>8. Done' = Done
    BY <1>f, <2>1
  <2> QED
    BY <1>c, <2>1, <2>4, <2>5, <2>6, <2>7, <2>8 DEF PoolStep
<1>18. CASE StartNothing
  <2>1. /\ pc[Caller] # "off" /\ UNCHANGED <<tasks, cur, parked, returned>>
        /\ pc' = [pc EXCEPT ![Caller] = "user"] \/ UNCHANGED pc
        /\ UNCHANGED phase
    BY <1>18 DEF StartNothing, fiberVars, schedVars, At
  <2> QED
    BY <1>0, <1>u, <2>1
<1>19. CASE StartThreads
  <2>1. UNCHANGED <<tasks, cur, parked, phase>> /\ returned' = FALSE
    BY <1>19 DEF StartThreads
  <2>2. Closed' = FALSE
    BY <2>1 DEF Closed
  <2> QED
    BY <1>w, <1>c, <1>f, <2>1, <2>2 DEF PoolStep
<1>20. CASE StopCheck
  <2>1. UNCHANGED <<tasks, cur, parked, phase>>
    BY <1>20 DEF StopCheck, fiberVars
  <2>2. CASE Closed' = FALSE
    BY <1>w, <1>c, <1>f, <2>1, <2>2 DEF PoolStep
  <2>3. CASE Closed' = TRUE
    <3>1. tasks = <<>> /\ active = 0
      BY <1>20, <2>3 DEF StopCheck, StopEarly, Stopping, Closed
    <3>2. Waiting = {} /\ \A t \in Thread : WorksAt[t] = Null
      BY <3>1, NobodyHolds, Names DEF Waiting, Queued, WorksAt
    <3> QED
      BY <1>w, <1>c, <1>f, <2>1, <2>3, <3>2 DEF PoolStep
  <2> QED
    BY <2>2, <2>3 DEF Closed
<1>21. CASE StopSet
  <2>1. /\ pc[Caller] # "off" /\ UNCHANGED <<tasks, cur, parked, returned>>
        /\ \E p \in {"join", "loop"} : pc' = [pc EXCEPT ![Caller] = p] \/ UNCHANGED pc
        /\ (\E p : phase' = [phase EXCEPT ![Root] = p]) \/ UNCHANGED phase
    BY <1>21, StopSetEffect DEF history, fiberVars
  <2>2. \A f \in UserFiber : phase'[f] = phase[f]
    BY <1>0, <2>1, Names
  <2> QED
    BY <1>0, <1>u, <2>1, <2>2
<1>22. CASE Join
  <2>1. UNCHANGED <<tasks, cur, parked, phase, active>>
    BY <1>22 DEF Join, fiberVars
  <2>2. CASE Closed' = FALSE
    BY <1>w, <1>c, <1>f, <2>1, <2>2 DEF PoolStep
  <2>3. CASE Closed' = TRUE
    <3>1. tasks = <<>> /\ active = 0
      BY <2>1, <2>3, ClosedQuietKept DEF Closed, ClosedQuiet
    <3>2. Waiting = {} /\ \A t \in Thread : WorksAt[t] = Null
      BY <3>1, NobodyHolds, Names DEF Waiting, Queued, WorksAt
    <3> QED
      BY <1>w, <1>c, <1>f, <2>1, <2>3, <3>2 DEF PoolStep
  <2> QED
    BY <2>2, <2>3 DEF Closed
<1>23. CASE Destruct
  <2>1. /\ pc[Caller] # "off" /\ UNCHANGED <<cur, parked, returned, phase>> /\ tasks' = <<>> /\ returned /\ HasRunners
        /\ pc' = [pc EXCEPT ![Caller] = "done"]
    BY <1>23 DEF Destruct, At, Goto, history, Calm
  <2>2. tasks = <<>>
    BY <2>1 DEF PoolInv, ClosedQuiet
  <2> QED
    BY <1>0, <1>u, <2>1, <2>2
<1>24. CASE UNCHANGED vars
  <2>1. UNCHANGED <<tasks, cur, parked, returned, phase, pc>>
    BY <1>24 DEF vars, schedVars, fiberVars, history
  <2>2. pc[Caller] # "off"
    BY DEF Inv, Whereabouts, RunPlaces, HoldPlaces, Deep
  <2> QED
    BY <1>0, <1>u, <2>1, <2>2
<1> QED
  BY <1>1, <1>2, <1>3, <1>4, <1>5, <1>6, <1>7, <1>8, <1>9, <1>10, <1>11, <1>12, <1>13, <1>14, <1>15, <1>16, <1>17, <1>18, <1>19, <1>20, <1>21, <1>22, <1>23, <1>24, StepCases

LEMMA StepMaps ==
  ASSUME PoolStep
  PROVE  [Pool!Next]_(Pool!vars)
<1> USE DEF Waiting, WorksAt, Done, Closed
<1>h. \A f \in UserFiber : Held(f) <=> Pool!WorkedOn(f)
  BY DEF Held, Pool!WorkedOn
<1>1. CASE Unseen
  BY <1>1 DEF Unseen, Pool!vars
<1>2. ASSUME NEW js \in SUBSET UserFiber, Closed' = FALSE, WorksAt' = WorksAt, Done' = Done,
             js \cap (Waiting \cup parked \cup Done) = {}, \A j \in js : ~Held(j),
             Waiting' = Waiting \cup js, parked' = parked
      PROVE  Pool!Submit(js)
  BY <1>h, <1>2 DEF Pool!Submit
<1>3. ASSUME NEW js \in SUBSET UserFiber, Closed' = FALSE, WorksAt' = WorksAt, Done' = Done,
             js \subseteq parked, parked' = parked \ js, Waiting' = Waiting \cup js
      PROVE  Pool!Wake(js)
  BY <1>3 DEF Pool!Wake
<1>4. ASSUME NEW t \in Thread, NEW j \in UserFiber, parked' = parked, Done' = Done, Closed' = Closed,
             WorksAt[t] = Null, j \in Waiting, ~Held(j),
             WorksAt' = [WorksAt EXCEPT ![t] = j], Waiting' = Waiting \ {j}
      PROVE  Pool!Take(t, j)
  BY <1>h, <1>4 DEF Pool!Take
<1>5. ASSUME NEW t \in Thread, parked' = parked, Done' = Done, Closed' = Closed,
             WorksAt[t] \in Waiting \cup parked \cup Done,
             WorksAt' = [WorksAt EXCEPT ![t] = Null], Waiting' = Waiting
      PROVE  Pool!Leave(t)
  BY <1>5 DEF Pool!Leave
<1>6. ASSUME NEW t \in Thread, WorksAt' = WorksAt, Closed' = Closed,
             WorksAt[t] \in UserFiber \ (Waiting \cup parked \cup Done),
             Waiting' = Waiting \cup {WorksAt[t]}, parked' = parked, Done' = Done
      PROVE  Pool!Requeue(t)
  BY <1>6 DEF Pool!Requeue
<1>7. ASSUME NEW t \in Thread, WorksAt' = WorksAt, Closed' = Closed,
             WorksAt[t] \in UserFiber \ (Waiting \cup parked \cup Done),
             parked' = parked \cup {WorksAt[t]}, Waiting' = Waiting, Done' = Done
      PROVE  Pool!FallAsleep(t)
  BY <1>7 DEF Pool!FallAsleep
<1>8. ASSUME NEW t \in Thread, WorksAt' = WorksAt, Closed' = Closed,
             WorksAt[t] \in UserFiber \ (Waiting \cup parked \cup Done),
             Done' = Done \cup {WorksAt[t]}, Waiting' = Waiting, parked' = parked
      PROVE  Pool!Finish(t)
  BY <1>8 DEF Pool!Finish
<1>9. ASSUME Waiting' = Waiting, WorksAt' = WorksAt, parked' = parked, Done' = Done, Closed' = FALSE
      PROVE  Pool!Reopen
  BY <1>9 DEF Pool!Reopen
<1>10. ASSUME Waiting' = Waiting, WorksAt' = WorksAt, parked' = parked, Done' = Done, Closed' = TRUE,
              Waiting = {}, \A t \in Thread : WorksAt[t] = Null
       PROVE  Pool!Close
  BY <1>10 DEF Pool!Close
<1> QED
  BY <1>1, <1>2, <1>3, <1>4, <1>5, <1>6, <1>7, <1>8, <1>9, <1>10 DEF PoolStep, Pool!Next

\* The scheduler implements the task pool of TaskPool.tla, for any number of threads, fibers
\* and tasks: each of its steps is a step of the pool or none that the pool's users see.
THEOREM SchedulerIsTaskPool ==
  ASSUME Calm
  PROVE  Spec => ImplementsTaskPool
<1>1. Init => Pool!Init
  BY Names DEF Init, Pool!Init, Queued, Finished
<1>2. Inv /\ PoolInv /\ [Next]_vars => [Pool!Next]_(Pool!vars)
  BY StepSeen, StepMaps
<1> QED
  BY <1>1, <1>2, PoolInvariance, PTL DEF Spec, ImplementsTaskPool, Pool!Spec

-----------------------------------------------------------------------------
(* What users of the pool may rely on.                                     *)

LEMMA NextOncePerJob == Pool!OncePerJob /\ [Pool!Next]_(Pool!vars) => Pool!OncePerJob'
<1> DEFINE Q == {f \in UserFiber : Queued(f)}
           F == {f \in UserFiber : Finished(f)}
           at == [t \in Thread |-> cur[t].fiber]
           Once == /\ \A t, u \in Thread : at[t] = at[u] /\ at[t] # Null => t = u
                   /\ Q \cap F = {} /\ parked \cap F = {}
<1> SUFFICES ASSUME Once, [Pool!Next]_(Pool!vars) PROVE Once'
  BY DEF Pool!OncePerJob
<1>0. at = [t \in Thread |-> at[t]]
  OBVIOUS
<1>1. ASSUME NEW js \in SUBSET UserFiber, Pool!Submit(js) PROVE Once'
  <2>1. js \cap F = {} /\ Q' = Q \cup js /\ at' = at /\ parked' = parked /\ F' = F
    BY <1>1 DEF Pool!Submit
  <2> HIDE DEF Q, F, at
  <2> QED
    BY <2>1
<1>2. ASSUME NEW js \in SUBSET UserFiber, Pool!Wake(js) PROVE Once'
  <2>1. js \subseteq parked /\ parked' = parked \ js /\ Q' = Q \cup js /\ F' = F /\ at' = at
    BY <1>2 DEF Pool!Wake
  <2> HIDE DEF Q, F, at
  <2> QED
    BY <2>1
<1>3. ASSUME NEW t \in Thread, NEW f \in UserFiber, Pool!Take(t, f) PROVE Once'
  <2>1. /\ \A u \in Thread : at[u] # f
        /\ at' = [at EXCEPT ![t] = f]
        /\ Q' = Q \ {f} /\ parked' = parked /\ F' = F
    BY <1>3 DEF Pool!Take, Pool!WorkedOn
  <2> HIDE DEF Q, F, at
  <2> QED
    BY <1>0, <2>1
<1>4. ASSUME NEW t \in Thread, Pool!Requeue(t) PROVE Once'
  BY <1>4 DEF Pool!Requeue
<1>5. ASSUME NEW t \in Thread, Pool!FallAsleep(t) PROVE Once'
  BY <1>5 DEF Pool!FallAsleep
<1>6. ASSUME NEW t \in Thread, Pool!Finish(t) PROVE Once'
  BY <1>6 DEF Pool!Finish
<1>7. ASSUME NEW t \in Thread, Pool!Leave(t) PROVE Once'
  <2>1. at' = [at EXCEPT ![t] = Null] /\ Q' = Q /\ parked' = parked /\ F' = F
    BY <1>7 DEF Pool!Leave
  <2> HIDE DEF Q, F, at
  <2> QED
    BY <1>0, <2>1
<1>8. CASE Pool!Close \/ Pool!Reopen \/ UNCHANGED Pool!vars
  BY <1>8 DEF Pool!Close, Pool!Reopen, Pool!vars
<1> HIDE DEF Once
<1> QED
  BY <1>1, <1>2, <1>3, <1>4, <1>5, <1>6, <1>7, <1>8 DEF Pool!Next

\* No job of the scheduler is in the hands of two threads, and none that has finished is
\* queued or on the wait list again: whatever is a task pool has this property.
THEOREM JobsRunOnce ==
  ASSUME Calm
  PROVE  Spec => []Pool!OncePerJob
<1>1. Pool!Init => Pool!OncePerJob
  BY DEF Pool!Init, Pool!OncePerJob
<1>2. Pool!Spec => []Pool!OncePerJob
  BY <1>1, NextOncePerJob, PTL DEF Pool!Spec
<1> QED
  BY <1>2, SchedulerIsTaskPool, PTL DEF ImplementsTaskPool

LEMMA NextClosedIsQuiet == Pool!ClosedIsQuiet /\ [Pool!Next]_(Pool!vars) => Pool!ClosedIsQuiet'
<1> SUFFICES ASSUME Pool!ClosedIsQuiet, [Pool!Next]_(Pool!vars) PROVE Pool!ClosedIsQuiet'
  OBVIOUS
<1> USE Names DEF Pool!ClosedIsQuiet
<1>1. ASSUME NEW js \in SUBSET UserFiber, Pool!Submit(js) \/ Pool!Wake(js) PROVE Pool!ClosedIsQuiet'
  BY <1>1 DEF Pool!Submit, Pool!Wake
<1>2. ASSUME NEW t \in Thread, NEW f \in UserFiber, Pool!Take(t, f) PROVE Pool!ClosedIsQuiet'
  BY <1>2 DEF Pool!Take
<1>3. ASSUME NEW t \in Thread, Pool!Requeue(t) \/ Pool!FallAsleep(t) \/ Pool!Finish(t)
      PROVE  Pool!ClosedIsQuiet'
  BY <1>3 DEF Pool!Requeue, Pool!FallAsleep, Pool!Finish
<1>4. ASSUME NEW t \in Thread, Pool!Leave(t) PROVE Pool!ClosedIsQuiet'
  BY <1>4 DEF Pool!Leave
<1>5. CASE Pool!Close \/ Pool!Reopen \/ UNCHANGED Pool!vars
  BY <1>5 DEF Pool!Close, Pool!Reopen, Pool!vars
<1> QED
  BY <1>1, <1>2, <1>3, <1>4, <1>5 DEF Pool!Next

\* stop() returns from no pool with work in it, and work that comes later opens it: as long
\* as stop() has returned, and somebody was in run(), nothing waits and no thread has a job.
THEOREM ClosedStaysQuiet ==
  ASSUME Calm
  PROVE  Spec => []Pool!ClosedIsQuiet
<1>1. Pool!Init => Pool!ClosedIsQuiet
  BY DEF Pool!Init, Pool!ClosedIsQuiet
<1>2. Pool!Spec => []Pool!ClosedIsQuiet
  BY <1>1, NextClosedIsQuiet, PTL DEF Pool!Spec
<1> QED
  BY <1>2, SchedulerIsTaskPool, PTL DEF ImplementsTaskPool

-----------------------------------------------------------------------------
(* No fiber is misused.                                                    *)

LEMMA NoFaultKept ==
  ASSUME Gentle, Inv, PoolInv, FiberInv, [Next]_vars
  PROVE  NoFiberFails' /\ Unjoined'
<1>0. NoFiberFails /\ (failed = "none" => MainFibers /\ WayBack /\ RootFiber /\ UserFibers) /\ Calm
  BY DEF FiberInv, Running, Gentle
<1>a. ASSUME failed' = "none" \/ (failed' = "terminate" /\ pool' # {}) PROVE NoFiberFails' /\ Unjoined'
  BY <1>0, <1>a DEF NoFiberFails, Unjoined
<1>1. ASSUME NEW t \in Thread, Boot(t) PROVE NoFiberFails' /\ Unjoined'
  BY <1>a, <1>1 DEF Boot, GetThisFirst, MaySchedule, At, fiberVars, schedVars
<1>2. ASSUME NEW t \in Thread, Take(t) PROVE NoFiberFails' /\ Unjoined'
  BY <1>a, <1>2 DEF Take, GetThisFirst, MaySchedule, At, fiberVars, schedVars
<1>3. ASSUME NEW t \in Thread, TakeNothing(t) PROVE NoFiberFails' /\ Unjoined'
  BY <1>a, <1>3 DEF TakeNothing, GetThisFirst, MaySchedule, At, fiberVars, schedVars
<1>4. ASSUME NEW t \in Thread, Idle(t) PROVE NoFiberFails' /\ Unjoined'
  BY <1>a, <1>4 DEF Idle, GetThisFirst, MaySchedule, At, fiberVars, schedVars
<1>5. ASSUME NEW t \in Thread, RunReturns(t) PROVE NoFiberFails' /\ Unjoined'
  <2>1. pc[t] = "loop" /\ pc[t] \in RunPlaces /\ MainFibers /\ WayBack
    BY <1>0, <1>5 DEF RunReturns, At, RunPlaces
  <2>2. CASE t = Caller
    <3>1. UseCaller /\ state[Caller] = "EXEC" /\ ctx[Caller] = Caller
      BY <2>1, <2>2 DEF MainFibers, WayBack, Inv, Whereabouts
    <3> QED
      BY <1>a, <1>5, <2>2, <3>1, RootReturnsEffect
  <2>3. CASE t # Caller
    <3>1. state[t] = "EXEC"
      BY <2>1, <2>3 DEF MainFibers, Worker
    <3> QED
      BY <1>a, <1>5, <2>3, <3>1 DEF RunReturns, DestroyMain, At
  <2> QED
    BY <2>2, <2>3
<1>6. ASSUME NEW t \in Thread, Resume(t) PROVE NoFiberFails' /\ Unjoined'
  <2>1. CASE cur[t].cb
    BY <1>a, <1>6, <2>1 DEF Resume, At
  <2>2. CASE ~cur[t].cb
    <3>1. Ready(cur[t].fiber)
      BY <1>0, <1>6, <2>2 DEF Resume, At, UserFibers, Fit
    <3> QED
      BY <1>a, <1>6, <2>2, <3>1 DEF Resume, At, Ready, MayResume
  <2> QED
    BY <2>1, <2>2
<1>7. ASSUME NEW t \in Thread, EnterFiber(t) PROVE NoFiberFails' /\ Unjoined'
  <2>1. pc[t] = "enter" /\ failed = "none"
    BY <1>7 DEF EnterFiber, At
  <2>2. ctx[cur[t].fiber] = cur[t].fiber /\ phase[cur[t].fiber] # "over"
    BY <1>0, <2>1 DEF UserFibers, Fit, Ready, PoolInv, Turns, Turn
  <2> QED
    BY <1>a, <1>7, <2>2, EnterEffect
<1>8. ASSUME NEW t \in Thread, After(t) PROVE NoFiberFails' /\ Unjoined'
  <2>1. pc[t] = "after" /\ failed = "none"
    BY <1>8 DEF After, At
  <2>2. CASE Referenced(t, cur[t].fiber)
    BY <1>a, <1>8, <2>1, <2>2 DEF After
  <2>3. CASE ~Referenced(t, cur[t].fiber)
    <3>1. phase[cur[t].fiber] = "over"
      BY <2>1, <2>3 DEF Referenced, PoolInv, Turns, Turn, Waits
    <3>2. state[cur[t].fiber] = "TERM"
      BY <1>0, <2>1, <3>1 DEF UserFibers, Fit
    <3> QED
      BY <1>a, <1>8, <2>1, <2>3, <3>2 DEF After, Destroy
  <2> QED
    BY <2>2, <2>3
<1>9. ASSUME NEW t \in Thread, YieldMark(t) PROVE NoFiberFails' /\ Unjoined'
  BY <1>a, <1>9 DEF YieldMark, GetThisFirst, MaySchedule, At, fiberVars, schedVars
<1>10. ASSUME NEW t \in Thread, YieldSwap(t) PROVE NoFiberFails' /\ Unjoined'
  <2>1. ctx[Base(t)] = Base(t)
    BY <1>0, <1>10 DEF YieldSwap, At, Deep, WayBack
  <2> QED
    BY <1>a, <1>10, <2>1, YieldSwapEffect
<1>11. ASSUME NEW t \in Thread, Return(t) PROVE NoFiberFails' /\ Unjoined'
  <2>1. ctx[Base(t)] = Base(t)
    BY <1>0, <1>11 DEF Return, At, Deep, WayBack
  <2> QED
    BY <1>a, <1>11, <2>1, ReturnEffect
<1>12. ASSUME NEW t \in Thread, Throw(t) PROVE NoFiberFails' /\ Unjoined'
  BY <1>12 DEF Throw, Gentle
<1>13. ASSUME NEW t \in Thread, Park(t) PROVE NoFiberFails' /\ Unjoined'
  BY <1>a, <1>13 DEF Park, GetThisFirst, MaySchedule, At, fiberVars, schedVars
<1>14. ASSUME NEW t \in Thread, NEW thread \in {t, Null}, Requeue(t, thread) PROVE NoFiberFails' /\ Unjoined'
  BY <1>a, <1>14 DEF Requeue, GetThisFirst, MaySchedule, At, fiberVars, schedVars
<1>15. ASSUME NEW t \in Thread, NEW fs \in Lists, Wake(t, fs) PROVE NoFiberFails' /\ Unjoined'
  BY <1>a, <1>15 DEF Wake, GetThisFirst, MaySchedule, At, fiberVars, schedVars
<1>16. ASSUME NEW t \in Thread, NEW fs \in Pairs, ScheduleAll(t, fs) PROVE NoFiberFails' /\ Unjoined'
  BY <1>a, <1>16 DEF ScheduleAll, GetThisFirst, MaySchedule, At, fiberVars, schedVars
<1>17. ASSUME NEW t \in Thread, NEW f \in UserFiber, NEW isCb \in BOOLEAN, NEW pin \in Pins,
            Schedule(t, f, isCb, pin)
     PROVE  NoFiberFails' /\ Unjoined'
  BY <1>a, <1>17 DEF Schedule, GetThisFirst, MaySchedule, At, fiberVars, schedVars
<1>18. CASE StartNothing
  BY <1>a, <1>18 DEF StartNothing, GetThisFirst, MaySchedule, At, fiberVars, schedVars
<1>19. CASE StartThreads
  BY <1>a, <1>19 DEF StartThreads, At, Gentle
<1>20. CASE StopCheck
  BY <1>a, <1>20 DEF StopCheck, GetThisFirst, MaySchedule, At, fiberVars, schedVars
<1>21. CASE StopSet
  <2>1. CASE ~UseCaller
    BY <1>a, <1>21, <2>1, StopSetEffect DEF fiberVars
  <2>2. CASE UseCaller
    <3>1. state[Caller] = "EXEC" /\ Ready(Root) /\ phase[Root] # "over"
      BY <1>0, <1>21, <2>2 DEF StopSet, At, MainFibers, RootFiber
    <3> QED
      BY <1>a, <1>21, <2>2, <3>1, StopSetEffect DEF Ready
  <2> QED
    BY <2>1, <2>2
<1>22. CASE Join
  BY <1>a, <1>22 DEF Join, GetThisFirst, MaySchedule, At, fiberVars, schedVars
<1>23. CASE Destruct
  <2>1. returned /\ HasRunners
    BY <1>0, <1>23 DEF Destruct, Calm
  <2>2. 1..Len(tasks) = {}
    BY <2>1 DEF PoolInv, ClosedQuiet
  <2> QED
    BY <1>a, <1>23, <2>2 DEF Destruct
<1>24. CASE UNCHANGED vars
  BY <1>24 DEF vars, fiberVars, schedVars, FiberInv, NoFiberFails, Unjoined
<1> QED
  BY <1>1, <1>2, <1>3, <1>4, <1>5, <1>6, <1>7, <1>8, <1>9, <1>10, <1>11, <1>12, <1>13, <1>14, <1>15, <1>16, <1>17, <1>18, <1>19, <1>20, <1>21, <1>22, <1>23, <1>24, StepCases

LEMMA MainFibersKept ==
  ASSUME Gentle, Inv, PoolInv, FiberInv, [Next]_vars
  PROVE  (Running => MainFibers)'
<1> SUFFICES ASSUME failed' = "none" PROVE MainFibers'
  BY DEF Running
<1>0. /\ failed = "none" => MainFibers
      /\ state \in [FiberObj -> {"absent", "READY", "EXEC", "TERM", "freed"}] /\ pc \in [Thread -> Places]
      /\ Caller \in Thread /\ \A w \in Worker : w \in Thread /\ w # Caller
      /\ pc[Caller] \notin {"boot", "off"} /\ \A t \in Thread : t \in FiberObj /\ t # Root /\ t \notin UserFiber
  BY Names DEF FiberInv, Running, Inv, TypeOK, FiberTypeOK, Worker, Whereabouts, RunPlaces, HoldPlaces, Deep
<1>a. ASSUME failed = "none", \A u \in Thread : state'[u] = state[u],
             \A w \in Worker : pc'[w] \in RunPlaces => pc[w] \in RunPlaces
      PROVE  MainFibers'
  BY <1>0, <1>a DEF MainFibers
<1>b. ASSUME failed = "none", \A u \in Thread : state'[u] = state[u], NEW t \in Thread,
             pc[t] \in RunPlaces, NEW p, pc' = [pc EXCEPT ![t] = p] \/ UNCHANGED pc
      PROVE  MainFibers'
  <2>1. \A w \in Worker : pc'[w] \in RunPlaces => pc[w] \in RunPlaces
    BY <1>0, <1>b
  <2> QED
    BY <1>a, <1>b, <2>1
<1>c. ASSUME failed = "none", \A u \in Thread : state'[u] = state[u],
             NEW p, pc' = [pc EXCEPT ![Caller] = p] \/ UNCHANGED pc
      PROVE  MainFibers'
  <2>1. \A w \in Worker : pc'[w] = pc[w]
    BY <1>0, <1>c
  <2> QED
    BY <1>a, <1>c, <2>1
<1>1. ASSUME NEW t \in Thread, Boot(t) PROVE MainFibers'
  <2>1. pc[t] = "boot" /\ failed = "none" /\ state' = [state EXCEPT ![t] = "EXEC"] /\ pc' = [pc EXCEPT ![t] = "loop"]
    BY <1>1 DEF Boot, GetThisFirst, At, Goto
  <2>2. t # Caller /\ state'[Caller] = state[Caller]
    BY <1>0, <2>1
  <2>3. \A w \in Worker : state'[w] = "EXEC" \/ (state'[w] = state[w] /\ pc'[w] = pc[w])
    BY <1>0, <2>1
  <2> QED
    BY <1>0, <2>1, <2>2, <2>3 DEF MainFibers
<1>2. ASSUME NEW t \in Thread, Take(t) PROVE MainFibers'
  <2>1. failed = "none" /\ pc[t] \in RunPlaces /\ (pc' = [pc EXCEPT ![t] = "resume"] \/ UNCHANGED pc)
    BY <1>2 DEF Take, At, Goto, fiberVars, Construct, MarkReady, MarkThrown, RunPlaces, HoldPlaces, Deep
  <2>2. \A u \in Thread : state'[u] = state[u]
    BY <1>0, <1>2, InHand DEF Take, At, Goto, fiberVars, Construct, MarkReady, MarkThrown, RunPlaces, HoldPlaces, Deep
  <2> QED
    BY <1>b, <2>1, <2>2
<1>3. ASSUME NEW t \in Thread, TakeNothing(t) PROVE MainFibers'
  <2>1. failed = "none" /\ pc[t] \in RunPlaces /\ (pc' = [pc EXCEPT ![t] = "idle"] \/ UNCHANGED pc)
    BY <1>3 DEF TakeNothing, At, Goto, fiberVars, Construct, MarkReady, MarkThrown, RunPlaces, HoldPlaces, Deep
  <2>2. \A u \in Thread : state'[u] = state[u]
    BY <1>0, <1>3, InHand DEF TakeNothing, At, Goto, fiberVars, Construct, MarkReady, MarkThrown, RunPlaces, HoldPlaces, Deep
  <2> QED
    BY <1>b, <2>1, <2>2
<1>4. ASSUME NEW t \in Thread, Idle(t) PROVE MainFibers'
  <2>1. failed = "none" /\ pc[t] \in RunPlaces /\ (pc' = [pc EXCEPT ![t] = "loop"] \/ UNCHANGED pc)
    BY <1>4 DEF Idle, At, Goto, fiberVars, Construct, MarkReady, MarkThrown, RunPlaces, HoldPlaces, Deep
  <2>2. \A u \in Thread : state'[u] = state[u]
    BY <1>0, <1>4, InHand DEF Idle, At, Goto, fiberVars, Construct, MarkReady, MarkThrown, RunPlaces, HoldPlaces, Deep
  <2> QED
    BY <1>b, <2>1, <2>2
<1>5. ASSUME NEW t \in Thread, RunReturns(t) PROVE MainFibers'
  <2>1. CASE t = Caller
    <3>1. failed = "none" /\ pc' = [pc EXCEPT ![Caller] = "join"] /\ \A u \in Thread : state'[u] = state[u]
      BY <1>0, <1>5, <2>1, RootReturnsEffect
    <3> QED
      BY <1>c, <3>1
  <2>2. CASE t # Caller
    <3>1. /\ failed = "none" /\ pc' = [pc EXCEPT ![t] = "gone"]
          /\ state' = [state EXCEPT ![t] = "freed"] \/ UNCHANGED state
      BY <1>5, <2>2 DEF RunReturns, DestroyMain, At, Goto
    <3>2. state'[Caller] = state[Caller]
      BY <1>0, <2>2, <3>1
    <3>3. \A w \in Worker : pc'[w] = "gone" \/ (state'[w] = state[w] /\ pc'[w] = pc[w])
      BY <1>0, <3>1
    <3>4. "gone" \notin RunPlaces
      BY DEF RunPlaces, HoldPlaces, Deep
    <3> QED
      BY <1>0, <3>1, <3>2, <3>3, <3>4 DEF MainFibers
  <2> QED
    BY <2>1, <2>2
<1>6. ASSUME NEW t \in Thread, Resume(t) PROVE MainFibers'
  <2>1. failed = "none" /\ pc[t] \in RunPlaces /\ (pc' = [pc EXCEPT ![t] = "enter"] \/ UNCHANGED pc)
    BY <1>6 DEF Resume, At, Goto, fiberVars, Construct, MarkReady, MarkThrown, RunPlaces, HoldPlaces, Deep
  <2>2. \A u \in Thread : state'[u] = state[u]
    BY <1>0, <1>6, InHand DEF Resume, At, Goto, fiberVars, Construct, MarkReady, MarkThrown, RunPlaces, HoldPlaces, Deep
  <2> QED
    BY <1>b, <2>1, <2>2
<1>7. ASSUME NEW t \in Thread, EnterFiber(t) PROVE MainFibers'
  <2>1. failed = "none" /\ pc[t] \in RunPlaces /\ (pc' = [pc EXCEPT ![t] = "body"] \/ UNCHANGED pc)
    BY <1>7, EnterEffect DEF RunPlaces, HoldPlaces, Deep
  <2>2. \A u \in Thread : state'[u] = state[u]
    BY <1>0, <1>7, EnterEffect, InHand DEF RunPlaces, HoldPlaces, Deep
  <2> QED
    BY <1>b, <2>1, <2>2
<1>8. ASSUME NEW t \in Thread, After(t) PROVE MainFibers'
  <2>1. failed = "none" /\ pc[t] \in RunPlaces /\ pc[t] \in HoldPlaces /\ pc' = [pc EXCEPT ![t] = "loop"]
    BY <1>8 DEF After, At, Goto, RunPlaces, HoldPlaces
  <2>2. UNCHANGED state \/ state' = [state EXCEPT ![cur[t].fiber] = "freed"]
    BY <1>8 DEF After, Destroy
  <2>3. \A u \in Thread : state'[u] = state[u]
    BY <1>0, <2>1, <2>2, InHand
  <2> QED
    BY <1>b, <2>1, <2>3
<1>9. ASSUME NEW t \in Thread, YieldMark(t) PROVE MainFibers'
  <2>1. failed = "none" /\ pc[t] \in RunPlaces /\ (pc' = [pc EXCEPT ![t] = "marked"] \/ UNCHANGED pc)
    BY <1>9, OnStack DEF YieldMark, At, Goto, fiberVars, Construct, MarkReady, MarkThrown, RunPlaces, HoldPlaces, Deep
  <2>2. \A u \in Thread : state'[u] = state[u]
    BY <1>0, <1>9, OnStack, InHand DEF YieldMark, At, Goto, fiberVars, Construct, MarkReady, MarkThrown, RunPlaces, HoldPlaces, Deep
  <2> QED
    BY <1>b, <2>1, <2>2
<1>10. ASSUME NEW t \in Thread, YieldSwap(t) PROVE MainFibers'
  <2>1. failed = "none" /\ pc[t] \in RunPlaces /\ (pc' = [pc EXCEPT ![t] = "after"] \/ UNCHANGED pc)
    BY <1>10, YieldSwapEffect DEF RunPlaces, HoldPlaces, Deep
  <2>2. \A u \in Thread : state'[u] = state[u]
    BY <1>0, <1>10, YieldSwapEffect, InHand DEF RunPlaces, HoldPlaces, Deep
  <2> QED
    BY <1>b, <2>1, <2>2
<1>11. ASSUME NEW t \in Thread, Return(t) PROVE MainFibers'
  <2>1. failed = "none" /\ pc[t] \in RunPlaces /\ (pc' = [pc EXCEPT ![t] = "after"] \/ UNCHANGED pc)
    BY <1>11, ReturnEffect DEF RunPlaces, HoldPlaces, Deep
  <2>2. \A u \in Thread : state'[u] = state[u]
    BY <1>0, <1>11, ReturnEffect, InHand DEF RunPlaces, HoldPlaces, Deep
  <2> QED
    BY <1>b, <2>1, <2>2
<1>12. ASSUME NEW t \in Thread, Throw(t) PROVE MainFibers'
  <2>1. failed = "none" /\ pc[t] \in RunPlaces /\ (pc' = [pc EXCEPT ![t] = "marked"] \/ UNCHANGED pc)
    BY <1>12, OnStack DEF Throw, At, Goto, fiberVars, Construct, MarkReady, MarkThrown, RunPlaces, HoldPlaces, Deep
  <2>2. \A u \in Thread : state'[u] = state[u]
    BY <1>0, <1>12, OnStack, InHand DEF Throw, At, Goto, fiberVars, Construct, MarkReady, MarkThrown, RunPlaces, HoldPlaces, Deep
  <2> QED
    BY <1>b, <2>1, <2>2
<1>13. ASSUME NEW t \in Thread, Park(t) PROVE MainFibers'
  <2>1. failed = "none" /\ pc[t] \in RunPlaces /\ (pc' = [pc EXCEPT ![t] = "leaving"] \/ UNCHANGED pc)
    BY <1>13 DEF Park, At, Goto, fiberVars, Construct, MarkReady, MarkThrown, RunPlaces, HoldPlaces, Deep
  <2>2. \A u \in Thread : state'[u] = state[u]
    BY <1>0, <1>13, InHand DEF Park, At, Goto, fiberVars, Construct, MarkReady, MarkThrown, RunPlaces, HoldPlaces, Deep
  <2> QED
    BY <1>b, <2>1, <2>2
<1>14. ASSUME NEW t \in Thread, NEW thread \in {t, Null}, Requeue(t, thread) PROVE MainFibers'
  <2>1. failed = "none" /\ pc[t] \in RunPlaces /\ (pc' = [pc EXCEPT ![t] = "leaving"] \/ UNCHANGED pc)
    BY <1>14 DEF Requeue, At, Goto, fiberVars, Construct, MarkReady, MarkThrown, RunPlaces, HoldPlaces, Deep
  <2>2. \A u \in Thread : state'[u] = state[u]
    BY <1>0, <1>14, InHand DEF Requeue, At, Goto, fiberVars, Construct, MarkReady, MarkThrown, RunPlaces, HoldPlaces, Deep
  <2> QED
    BY <1>b, <2>1, <2>2
<1>15. ASSUME NEW t \in Thread, NEW fs \in Lists, Wake(t, fs) PROVE MainFibers'
  <2>1. failed = "none" /\ UNCHANGED <<state, pc>>
    BY <1>15 DEF Wake, MaySchedule, At, fiberVars
  <2> QED
    BY <1>a, <2>1
<1>16. ASSUME NEW t \in Thread, NEW fs \in Pairs, ScheduleAll(t, fs) PROVE MainFibers'
  <2>1. failed = "none" /\ UNCHANGED <<state, pc>>
    BY <1>16 DEF ScheduleAll, MaySchedule, At, fiberVars
  <2> QED
    BY <1>a, <2>1
<1>17. ASSUME NEW t \in Thread, NEW f \in UserFiber, NEW isCb \in BOOLEAN, NEW pin \in Pins,
            Schedule(t, f, isCb, pin)
     PROVE  MainFibers'
  <2>1. failed = "none" /\ UNCHANGED pc /\ (UNCHANGED state \/ state' = [state EXCEPT ![f] = "READY"])
    BY <1>17 DEF Schedule, MaySchedule, At, Construct
  <2>2. \A u \in Thread : state'[u] = state[u]
    BY <1>0, <2>1
  <2> QED
    BY <1>a, <2>1, <2>2
<1>18. CASE StartNothing
  <2>1. failed = "none" /\ UNCHANGED state /\ (pc' = [pc EXCEPT ![Caller] = "user"] \/ UNCHANGED pc)
    BY <1>18 DEF StartNothing, At, Goto, fiberVars, schedVars
  <2> QED
    BY <1>c, <2>1
<1>19. CASE StartThreads
  <2>1. failed = "none" /\ UNCHANGED state /\ \A w \in Worker : pc'[w] = pc[w] \/ pc'[w] = "boot"
    BY <1>0, <1>19 DEF StartThreads, At
  <2>2. "boot" \notin RunPlaces
    BY DEF RunPlaces, HoldPlaces, Deep
  <2> QED
    BY <1>a, <2>1, <2>2
<1>20. CASE StopCheck
  <2>1. failed = "none" /\ UNCHANGED state /\ (pc' = [pc EXCEPT ![Caller] = "stopSet"] \/ UNCHANGED pc)
    BY <1>20 DEF StopCheck, At, Goto, fiberVars, schedVars
  <2> QED
    BY <1>c, <2>1
<1>21. CASE StopSet
  <2>1. failed = "none" /\ \E p \in {"join", "loop"} : pc' = [pc EXCEPT ![Caller] = p] \/ UNCHANGED pc
    BY <1>21, StopSetEffect
  <2>2. \A u \in Thread : state'[u] = state[u]
    BY <1>0, <1>21, StopSetEffect DEF fiberVars
  <2> QED
    BY <1>c, <2>1, <2>2
<1>22. CASE Join
  <2>1. failed = "none" /\ UNCHANGED state /\ (pc' = [pc EXCEPT ![Caller] = "user"] \/ UNCHANGED pc)
    BY <1>22 DEF Join, At, Goto, fiberVars, schedVars
  <2> QED
    BY <1>c, <2>1
<1>23. CASE Destruct
  <2>1. failed = "none" /\ UNCHANGED state /\ (pc' = [pc EXCEPT ![Caller] = "done"] \/ UNCHANGED pc)
    BY <1>23 DEF Destruct, At, Goto, fiberVars, schedVars
  <2> QED
    BY <1>c, <2>1
<1>24. CASE UNCHANGED vars
  <2>1. failed = "none" /\ UNCHANGED <<state, pc>>
    BY <1>24 DEF vars, fiberVars, schedVars
  <2> QED
    BY <1>a, <2>1
<1> QED
  BY <1>1, <1>2, <1>3, <1>4, <1>5, <1>6, <1>7, <1>8, <1>9, <1>10, <1>11, <1>12, <1>13, <1>14, <1>15, <1>16, <1>17, <1>18, <1>19, <1>20, <1>21, <1>22, <1>23, <1>24, StepCases

LEMMA WayBackKept ==
  ASSUME Gentle, Inv, PoolInv, FiberInv, [Next]_vars
  PROVE  (Running => WayBack)'
<1> SUFFICES ASSUME failed' = "none" PROVE WayBack'
  BY DEF Running
<1>0. /\ failed = "none" => WayBack
      /\ ctx \in [FiberObj -> FiberObj \cup {Stale}] /\ pc \in [Thread -> Places]
      /\ Deep \subseteq RunPlaces /\ Caller \in Thread /\ \A w \in Worker : w \in Thread /\ w # Caller
  BY Names DEF FiberInv, Running, Inv, TypeOK, FiberTypeOK, Worker, RunPlaces, HoldPlaces
<1>1b. \A t \in Thread : /\ t \in FiberObj /\ t \notin UserFiber /\ t # Root
                        /\ Base(t) \in FiberObj /\ Base(t) \notin UserFiber /\ Base(t) \in {t, Root}
                        /\ (t # Caller \/ pc[t] \notin RunPlaces => Base(t) = t)
                        /\ (t = Caller /\ pc[t] \in RunPlaces => Base(t) = Root)
  BY Names DEF Base
<1>2b. \A t, u \in Thread : Base(t) = Base(u) => t = u
  BY <1>1b
<1>3b. \A u \in Thread : (u = Caller => (pc'[u] \in RunPlaces <=> pc[u] \in RunPlaces)) => Base(u)' = Base(u)
  BY DEF Base
<1>a. ASSUME failed = "none", \A x \in FiberObj \ UserFiber : ctx'[x] = ctx[x],
             pc'[Caller] \in RunPlaces <=> pc[Caller] \in RunPlaces,
             \A u \in Thread : pc'[u] \in Deep => pc[u] \in Deep
      PROVE  WayBack'
  BY <1>0, <1>1b, <1>3b, <1>a DEF WayBack
<1>b. ASSUME failed = "none", \A x \in FiberObj \ UserFiber : ctx'[x] = ctx[x], NEW t \in Thread, NEW p,
             pc[t] \in RunPlaces, p \in RunPlaces, p \in Deep => pc[t] \in Deep, pc' = [pc EXCEPT ![t] = p] \/ UNCHANGED pc
      PROVE  WayBack'
  <2>1. pc'[Caller] \in RunPlaces <=> pc[Caller] \in RunPlaces
    BY <1>0, <1>b
  <2>2. \A u \in Thread : pc'[u] \in Deep => pc[u] \in Deep
    BY <1>0, <1>b
  <2> QED
    BY <1>a, <1>b, <2>1, <2>2
<1>c. ASSUME failed = "none", \A x \in FiberObj \ UserFiber : ctx'[x] = ctx[x], NEW t \in Thread, NEW p,
             t = Caller => pc[t] \notin RunPlaces /\ p \notin RunPlaces, p \notin Deep,
             pc' = [pc EXCEPT ![t] = p] \/ UNCHANGED pc
      PROVE  WayBack'
  <2>1. pc'[Caller] \in RunPlaces <=> pc[Caller] \in RunPlaces
    BY <1>0, <1>c
  <2>2. \A u \in Thread : pc'[u] \in Deep => pc[u] \in Deep
    BY <1>0, <1>c
  <2> QED
    BY <1>a, <1>c, <2>1, <2>2
<1>s. ASSUME failed = "none", NEW t \in Thread, pc[t] \in Deep, pc' = [pc EXCEPT ![t] = "after"],
             NEW f \in UserFiber, ctx' = [ctx EXCEPT ![f] = f, ![Base(t)] = Stale]
      PROVE  WayBack'
  <2>0. "after" \in RunPlaces
    BY DEF RunPlaces, HoldPlaces
  <2>1. pc'[Caller] \in RunPlaces <=> pc[Caller] \in RunPlaces
    BY <1>0, <1>s, <2>0
  <2>2. \A u \in Thread \ {t} : pc'[u] = pc[u] /\ Base(u)' = Base(u)
    BY <1>0, <1>3b, <1>s, <2>1
  <2>3. ASSUME NEW u \in Thread \ {t}, pc[u] \in Deep PROVE ctx'[Base(u)] = Base(u)
    BY <1>0, <1>1b, <1>2b, <1>s, <2>3 DEF WayBack
  <2>4. pc[Caller] \in RunPlaces => ctx'[Caller] = Caller
    BY <1>0, <1>1b, <1>s DEF WayBack
  <2>5. pc'[t] \notin Deep
    BY <1>0, <1>s DEF Deep
  <2> QED
    BY <1>0, <1>s, <2>1, <2>2, <2>3, <2>4, <2>5 DEF WayBack
<1>1. ASSUME NEW t \in Thread, Boot(t) PROVE WayBack'
  <2>1. failed = "none" /\ UNCHANGED ctx /\ pc[t] = "boot" /\ pc' = [pc EXCEPT ![t] = "loop"]
    BY <1>1 DEF Boot, GetThisFirst, At, Goto
  <2>2. t # Caller /\ "loop" \notin Deep
    BY <2>1 DEF Inv, Whereabouts, RunPlaces, HoldPlaces, Deep
  <2> QED
    BY <1>c, <2>1, <2>2
<1>2. ASSUME NEW t \in Thread, Take(t) PROVE WayBack'
  <2>1. failed = "none" /\ pc[t] \in RunPlaces /\ (pc' = [pc EXCEPT ![t] = "resume"] \/ UNCHANGED pc)
    BY <1>2 DEF Take, At, Goto, fiberVars, Construct, MarkReady, MarkThrown, RunPlaces, HoldPlaces, Deep
  <2>2. "resume" \in RunPlaces /\ ("resume" \in Deep => pc[t] \in Deep)
    BY <1>2 DEF Take, At, RunPlaces, HoldPlaces, Deep
  <2>3. \A x \in FiberObj \ UserFiber : ctx'[x] = ctx[x]
    BY <1>0, <1>2, InHand DEF Take, At, Goto, fiberVars, Construct, MarkReady, MarkThrown, RunPlaces, HoldPlaces, Deep
  <2> QED
    BY <1>b, <2>1, <2>2, <2>3
<1>3. ASSUME NEW t \in Thread, TakeNothing(t) PROVE WayBack'
  <2>1. failed = "none" /\ pc[t] \in RunPlaces /\ (pc' = [pc EXCEPT ![t] = "idle"] \/ UNCHANGED pc)
    BY <1>3 DEF TakeNothing, At, Goto, fiberVars, Construct, MarkReady, MarkThrown, RunPlaces, HoldPlaces, Deep
  <2>2. "idle" \in RunPlaces /\ ("idle" \in Deep => pc[t] \in Deep)
    BY <1>3 DEF TakeNothing, At, RunPlaces, HoldPlaces, Deep
  <2>3. \A x \in FiberObj \ UserFiber : ctx'[x] = ctx[x]
    BY <1>0, <1>3, InHand DEF TakeNothing, At, Goto, fiberVars, Construct, MarkReady, MarkThrown, RunPlaces, HoldPlaces, Deep
  <2> QED
    BY <1>b, <2>1, <2>2, <2>3
<1>4. ASSUME NEW t \in Thread, Idle(t) PROVE WayBack'
  <2>1. failed = "none" /\ pc[t] \in RunPlaces /\ (pc' = [pc EXCEPT ![t] = "loop"] \/ UNCHANGED pc)
    BY <1>4 DEF Idle, At, Goto, fiberVars, Construct, MarkReady, MarkThrown, RunPlaces, HoldPlaces, Deep
  <2>2. "loop" \in RunPlaces /\ ("loop" \in Deep => pc[t] \in Deep)
    BY <1>4 DEF Idle, At, RunPlaces, HoldPlaces, Deep
  <2>3. \A x \in FiberObj \ UserFiber : ctx'[x] = ctx[x]
    BY <1>0, <1>4, InHand DEF Idle, At, Goto, fiberVars, Construct, MarkReady, MarkThrown, RunPlaces, HoldPlaces, Deep
  <2> QED
    BY <1>b, <2>1, <2>2, <2>3
<1>5. ASSUME NEW t \in Thread, RunReturns(t) PROVE WayBack'
  <2>1. CASE t = Caller
    <3>1. /\ failed = "none" /\ pc' = [pc EXCEPT ![Caller] = "join"]
          /\ ctx' = [ctx EXCEPT ![Root] = Root, ![Caller] = Stale]
      BY <1>5, <2>1, RootReturnsEffect DEF SwapFaults
    <3>2. "join" \notin RunPlaces
      BY DEF RunPlaces, HoldPlaces, Deep
    <3>3. pc'[Caller] = "join" /\ \A u \in Thread \ {Caller} : pc'[u] = pc[u] /\ Base(u)' = u /\ Base(u) = u
      BY <1>0, <1>1b, <1>3b, <3>1
    <3>4. \A u \in Thread \ {Caller} : ctx'[u] = ctx[u]
      BY <1>0, <1>1b, <3>1
    <3>5. ASSUME NEW u \in Thread, pc'[u] \in Deep PROVE ctx'[Base(u)'] = Base(u)'
      <4>1. u # Caller
        BY <1>0, <3>2, <3>3, <3>5
      <4>2. ctx[u] = u
        BY <1>0, <3>1, <3>3, <3>5, <4>1 DEF WayBack
      <4> QED
        BY <3>3, <3>4, <4>1, <4>2
    <3>6. pc'[Caller] \notin RunPlaces
      BY <3>2, <3>3
    <3> QED
      BY <3>5, <3>6 DEF WayBack
  <2>2. CASE t # Caller
    <3>1. failed = "none" /\ UNCHANGED ctx /\ pc' = [pc EXCEPT ![t] = "gone"]
      BY <1>5, <2>2 DEF RunReturns, At, Goto
    <3>2. "gone" \notin Deep
      BY DEF Deep
    <3> QED
      BY <1>c, <2>2, <3>1, <3>2
  <2> QED
    BY <2>1, <2>2
<1>6. ASSUME NEW t \in Thread, Resume(t) PROVE WayBack'
  <2>1. failed = "none" /\ pc[t] \in RunPlaces /\ (pc' = [pc EXCEPT ![t] = "enter"] \/ UNCHANGED pc)
    BY <1>6 DEF Resume, At, Goto, fiberVars, Construct, MarkReady, MarkThrown, RunPlaces, HoldPlaces, Deep
  <2>2. "enter" \in RunPlaces /\ ("enter" \in Deep => pc[t] \in Deep)
    BY <1>6 DEF Resume, At, RunPlaces, HoldPlaces, Deep
  <2>3. \A x \in FiberObj \ UserFiber : ctx'[x] = ctx[x]
    BY <1>0, <1>6, InHand DEF Resume, At, Goto, fiberVars, Construct, MarkReady, MarkThrown, RunPlaces, HoldPlaces, Deep
  <2> QED
    BY <1>b, <2>1, <2>2, <2>3
<1>7. ASSUME NEW t \in Thread, EnterFiber(t) PROVE WayBack'
  <2>1. /\ failed = "none" /\ pc[t] = "enter" /\ pc' = [pc EXCEPT ![t] = "body"] /\ cur[t].fiber \in UserFiber
        /\ ctx' = [ctx EXCEPT ![Base(t)] = Base(t), ![cur[t].fiber] = Stale]
    BY <1>7, EnterEffect DEF SwapFaults
  <2>2. pc[t] \in RunPlaces /\ "body" \in RunPlaces
    BY <2>1 DEF RunPlaces, HoldPlaces, Deep
  <2>3. pc'[Caller] \in RunPlaces <=> pc[Caller] \in RunPlaces
    BY <1>0, <2>1, <2>2
  <2>4. \A u \in Thread : Base(u)' = Base(u) /\ (u # t => pc'[u] = pc[u])
    BY <1>0, <1>3b, <2>1, <2>3
  <2>5. ASSUME NEW u \in Thread, u = t \/ pc[u] \in Deep PROVE ctx'[Base(u)] = Base(u)
    BY <1>0, <1>1b, <2>1, <2>5 DEF WayBack
  <2>6. pc[Caller] \in RunPlaces => ctx'[Caller] = Caller
    BY <1>0, <1>1b, <2>1 DEF WayBack
  <2> QED
    BY <2>3, <2>4, <2>5, <2>6 DEF WayBack
<1>8. ASSUME NEW t \in Thread, After(t) PROVE WayBack'
  <2>1. failed = "none" /\ pc[t] \in RunPlaces /\ (pc' = [pc EXCEPT ![t] = "loop"] \/ UNCHANGED pc)
    BY <1>8 DEF After, At, Goto, fiberVars, Construct, MarkReady, MarkThrown, RunPlaces, HoldPlaces, Deep
  <2>2. "loop" \in RunPlaces /\ ("loop" \in Deep => pc[t] \in Deep)
    BY <1>8 DEF After, At, RunPlaces, HoldPlaces, Deep
  <2>3. \A x \in FiberObj \ UserFiber : ctx'[x] = ctx[x]
    BY <1>0, <1>8, InHand DEF After, At, Goto, fiberVars, Construct, MarkReady, MarkThrown, RunPlaces, HoldPlaces, Deep
  <2> QED
    BY <1>b, <2>1, <2>2, <2>3
<1>9. ASSUME NEW t \in Thread, YieldMark(t) PROVE WayBack'
  <2>1. failed = "none" /\ pc[t] \in RunPlaces /\ (pc' = [pc EXCEPT ![t] = "marked"] \/ UNCHANGED pc)
    BY <1>9 DEF YieldMark, At, Goto, fiberVars, Construct, MarkReady, MarkThrown, RunPlaces, HoldPlaces, Deep
  <2>2. "marked" \in RunPlaces /\ ("marked" \in Deep => pc[t] \in Deep)
    BY <1>9 DEF YieldMark, At, RunPlaces, HoldPlaces, Deep
  <2>3. \A x \in FiberObj \ UserFiber : ctx'[x] = ctx[x]
    BY <1>0, <1>9, InHand DEF YieldMark, At, Goto, fiberVars, Construct, MarkReady, MarkThrown, RunPlaces, HoldPlaces, Deep
  <2> QED
    BY <1>b, <2>1, <2>2, <2>3
<1>10. ASSUME NEW t \in Thread, YieldSwap(t) PROVE WayBack'
  <2>1. /\ failed = "none" /\ pc[t] \in Deep /\ pc' = [pc EXCEPT ![t] = "after"] /\ cur[t].fiber \in UserFiber
        /\ ctx' = [ctx EXCEPT ![cur[t].fiber] = cur[t].fiber, ![Base(t)] = Stale]
    BY <1>10, YieldSwapEffect DEF Deep, SwapFaults
  <2> QED
    BY <1>s, <2>1
<1>11. ASSUME NEW t \in Thread, Return(t) PROVE WayBack'
  <2>1. /\ failed = "none" /\ pc[t] \in Deep /\ pc' = [pc EXCEPT ![t] = "after"] /\ cur[t].fiber \in UserFiber
        /\ ctx' = [ctx EXCEPT ![cur[t].fiber] = cur[t].fiber, ![Base(t)] = Stale]
    BY <1>11, ReturnEffect DEF Deep, SwapFaults
  <2> QED
    BY <1>s, <2>1
<1>12. ASSUME NEW t \in Thread, Throw(t) PROVE WayBack'
  <2>1. failed = "none" /\ pc[t] \in RunPlaces /\ (pc' = [pc EXCEPT ![t] = "marked"] \/ UNCHANGED pc)
    BY <1>12 DEF Throw, At, Goto, fiberVars, Construct, MarkReady, MarkThrown, RunPlaces, HoldPlaces, Deep
  <2>2. "marked" \in RunPlaces /\ ("marked" \in Deep => pc[t] \in Deep)
    BY <1>12 DEF Throw, At, RunPlaces, HoldPlaces, Deep
  <2>3. \A x \in FiberObj \ UserFiber : ctx'[x] = ctx[x]
    BY <1>0, <1>12, InHand DEF Throw, At, Goto, fiberVars, Construct, MarkReady, MarkThrown, RunPlaces, HoldPlaces, Deep
  <2> QED
    BY <1>b, <2>1, <2>2, <2>3
<1>13. ASSUME NEW t \in Thread, Park(t) PROVE WayBack'
  <2>1. failed = "none" /\ pc[t] \in RunPlaces /\ (pc' = [pc EXCEPT ![t] = "leaving"] \/ UNCHANGED pc)
    BY <1>13 DEF Park, At, Goto, fiberVars, Construct, MarkReady, MarkThrown, RunPlaces, HoldPlaces, Deep
  <2>2. "leaving" \in RunPlaces /\ ("leaving" \in Deep => pc[t] \in Deep)
    BY <1>13 DEF Park, At, RunPlaces, HoldPlaces, Deep
  <2>3. \A x \in FiberObj \ UserFiber : ctx'[x] = ctx[x]
    BY <1>0, <1>13, InHand DEF Park, At, Goto, fiberVars, Construct, MarkReady, MarkThrown, RunPlaces, HoldPlaces, Deep
  <2> QED
    BY <1>b, <2>1, <2>2, <2>3
<1>14. ASSUME NEW t \in Thread, NEW thread \in {t, Null}, Requeue(t, thread) PROVE WayBack'
  <2>1. failed = "none" /\ pc[t] \in RunPlaces /\ (pc' = [pc EXCEPT ![t] = "leaving"] \/ UNCHANGED pc)
    BY <1>14 DEF Requeue, At, Goto, fiberVars, Construct, MarkReady, MarkThrown, RunPlaces, HoldPlaces, Deep
  <2>2. "leaving" \in RunPlaces /\ ("leaving" \in Deep => pc[t] \in Deep)
    BY <1>14 DEF Requeue, At, RunPlaces, HoldPlaces, Deep
  <2>3. \A x \in FiberObj \ UserFiber : ctx'[x] = ctx[x]
    BY <1>0, <1>14, InHand DEF Requeue, At, Goto, fiberVars, Construct, MarkReady, MarkThrown, RunPlaces, HoldPlaces, Deep
  <2> QED
    BY <1>b, <2>1, <2>2, <2>3
<1>15. ASSUME NEW t \in Thread, NEW fs \in Lists, Wake(t, fs) PROVE WayBack'
  <2>1. failed = "none" /\ UNCHANGED <<ctx, pc>>
    BY <1>15 DEF Wake, MaySchedule, At, fiberVars
  <2> QED
    BY <1>a, <2>1
<1>16. ASSUME NEW t \in Thread, NEW fs \in Pairs, ScheduleAll(t, fs) PROVE WayBack'
  <2>1. failed = "none" /\ UNCHANGED <<ctx, pc>>
    BY <1>16 DEF ScheduleAll, MaySchedule, At, fiberVars
  <2> QED
    BY <1>a, <2>1
<1>17. ASSUME NEW t \in Thread, NEW f \in UserFiber, NEW isCb \in BOOLEAN, NEW pin \in Pins,
            Schedule(t, f, isCb, pin)
     PROVE  WayBack'
  <2>1. failed = "none" /\ UNCHANGED pc /\ (UNCHANGED ctx \/ ctx' = [ctx EXCEPT ![f] = f])
    BY <1>17 DEF Schedule, MaySchedule, At, Construct
  <2>2. \A x \in FiberObj \ UserFiber : ctx'[x] = ctx[x]
    BY <1>0, <2>1
  <2> QED
    BY <1>a, <2>1, <2>2
<1>18. CASE StartNothing
  <2>1. failed = "none" /\ UNCHANGED ctx /\ pc[Caller] \notin RunPlaces /\ (pc' = [pc EXCEPT ![Caller] = "user"] \/ UNCHANGED pc)
    BY <1>18 DEF StartNothing, At, Goto, fiberVars, schedVars, RunPlaces, HoldPlaces, Deep
  <2>2. "user" \notin RunPlaces /\ "user" \notin Deep
    BY DEF RunPlaces, HoldPlaces, Deep
  <2> QED
    BY <1>0, <1>c, <2>1, <2>2
<1>19. CASE StartThreads
  <2>1. failed = "none" /\ UNCHANGED ctx /\ \A u \in Thread : pc'[u] = pc[u] \/ (u # Caller /\ pc'[u] = "boot")
    BY <1>0, <1>19 DEF StartThreads, At
  <2>2. "boot" \notin RunPlaces /\ "boot" \notin Deep
    BY DEF RunPlaces, HoldPlaces, Deep
  <2> QED
    BY <1>0, <1>a, <2>1, <2>2
<1>20. CASE StopCheck
  <2>1. failed = "none" /\ UNCHANGED ctx /\ pc[Caller] \notin RunPlaces /\ (pc' = [pc EXCEPT ![Caller] = "stopSet"] \/ UNCHANGED pc)
    BY <1>20 DEF StopCheck, At, Goto, fiberVars, schedVars, RunPlaces, HoldPlaces, Deep
  <2>2. "stopSet" \notin RunPlaces /\ "stopSet" \notin Deep
    BY DEF RunPlaces, HoldPlaces, Deep
  <2> QED
    BY <1>0, <1>c, <2>1, <2>2
<1>21. CASE StopSet
  <2>1. pc[Caller] = "stopSet" /\ failed = "none" /\ "stopSet" \notin RunPlaces /\ "join" \notin RunPlaces /\ "join" \notin Deep /\ "loop" \notin Deep
    BY <1>21 DEF StopSet, At, RunPlaces, HoldPlaces, Deep
  <2>2. CASE ~UseCaller
    <3>1. UNCHANGED ctx /\ pc' = [pc EXCEPT ![Caller] = "join"]
      BY <1>21, <2>2, StopSetEffect DEF fiberVars
    <3> QED
      BY <1>0, <1>c, <2>1, <3>1
  <2>3. CASE UseCaller
    <3>1. pc' = [pc EXCEPT ![Caller] = "loop"] /\ ctx' = [ctx EXCEPT ![Caller] = Caller, ![Root] = Stale]
      BY <1>21, <2>3, StopSetEffect DEF SwapFaults
    <3>2. pc'[Caller] = "loop" /\ ctx'[Caller] = Caller
      BY <1>0, <1>1b, <3>1
    <3>3. \A u \in Thread \ {Caller} : pc'[u] = pc[u] /\ Base(u)' = u /\ Base(u) = u /\ ctx'[u] = ctx[u]
      BY <1>0, <1>1b, <1>3b, <3>1
    <3> QED
      BY <1>0, <2>1, <3>2, <3>3 DEF WayBack
  <2> QED
    BY <2>2, <2>3
<1>22. CASE Join
  <2>1. failed = "none" /\ UNCHANGED ctx /\ pc[Caller] \notin RunPlaces /\ (pc' = [pc EXCEPT ![Caller] = "user"] \/ UNCHANGED pc)
    BY <1>22 DEF Join, At, Goto, fiberVars, schedVars, RunPlaces, HoldPlaces, Deep
  <2>2. "user" \notin RunPlaces /\ "user" \notin Deep
    BY DEF RunPlaces, HoldPlaces, Deep
  <2> QED
    BY <1>0, <1>c, <2>1, <2>2
<1>23. CASE Destruct
  <2>1. failed = "none" /\ UNCHANGED ctx /\ pc[Caller] \notin RunPlaces /\ (pc' = [pc EXCEPT ![Caller] = "done"] \/ UNCHANGED pc)
    BY <1>23 DEF Destruct, At, Goto, fiberVars, schedVars, RunPlaces, HoldPlaces, Deep
  <2>2. "done" \notin RunPlaces /\ "done" \notin Deep
    BY DEF RunPlaces, HoldPlaces, Deep
  <2> QED
    BY <1>0, <1>c, <2>1, <2>2
<1>24. CASE UNCHANGED vars
  <2>1. failed = "none" /\ UNCHANGED <<ctx, pc>>
    BY <1>24 DEF vars, schedVars, MaySchedule, At, fiberVars
  <2> QED
    BY <1>a, <2>1
<1> QED
  BY <1>1, <1>2, <1>3, <1>4, <1>5, <1>6, <1>7, <1>8, <1>9, <1>10, <1>11, <1>12, <1>13, <1>14, <1>15, <1>16, <1>17, <1>18, <1>19, <1>20, <1>21, <1>22, <1>23, <1>24, StepCases

LEMMA RootFiberKept ==
  ASSUME Gentle, Inv, PoolInv, FiberInv, [Next]_vars
  PROVE  (Running => RootFiber)'
<1> SUFFICES ASSUME failed' = "none" PROVE RootFiber'
  BY DEF Running
<1>0. /\ failed = "none" => RootFiber
      /\ ctx \in [FiberObj -> FiberObj \cup {Stale}] /\ pc \in [Thread -> Places]
      /\ state \in [FiberObj -> {"absent", "READY", "EXEC", "TERM", "freed"}]
      /\ phase \in [Coroutine -> {"entry", "body", "over"}] /\ idleDone \in [Thread -> BOOLEAN]
      /\ Caller \in Thread /\ Root \in FiberObj /\ Root \in Coroutine /\ Root \notin UserFiber
      /\ \A w \in Worker : w \in Thread /\ w # Caller
      /\ \A t \in Thread : t # Root /\ (t # Caller => Base(t) # Root)
  BY Names DEF FiberInv, Running, Inv, TypeOK, FiberTypeOK, Worker, Base
<1>o. ASSUME pc'[Caller] \notin {"user", "stopSet"} PROVE RootFiber'
  BY <1>o DEF RootFiber
<1>a. ASSUME failed = "none", pc'[Caller] = pc[Caller], idleDone'[Caller] = idleDone[Caller],
             state'[Root] = state[Root], ctx'[Root] = ctx[Root], phase'[Root] = phase[Root]
      PROVE  RootFiber'
  BY <1>0, <1>a DEF RootFiber, Ready
<1>t. ASSUME failed = "none", NEW t \in Thread, NEW p, pc[t] \notin {"user", "stopSet"}, p \notin {"user", "stopSet"},
             pc' = [pc EXCEPT ![t] = p] \/ UNCHANGED pc,
             t # Caller => /\ idleDone'[Caller] = idleDone[Caller]
                           /\ state'[Root] = state[Root] /\ ctx'[Root] = ctx[Root] /\ phase'[Root] = phase[Root]
      PROVE  RootFiber'
  <2>1. CASE t = Caller
    <3>1. pc'[Caller] \notin {"user", "stopSet"}
      BY <1>0, <1>t, <2>1
    <3> QED
      BY <1>o, <3>1
  <2>2. CASE t # Caller
    <3>1. pc'[Caller] = pc[Caller]
      BY <1>0, <1>t, <2>2
    <3> QED
      BY <1>a, <1>t, <2>2, <3>1
  <2> QED
    BY <2>1, <2>2
<1>1. ASSUME NEW t \in Thread, Boot(t) PROVE RootFiber'
  <2>1. failed = "none" /\ pc[t] \notin {"user", "stopSet"} /\ (pc' = [pc EXCEPT ![t] = "loop"] \/ UNCHANGED pc)
    BY <1>1 DEF Boot, At, Goto, fiberVars, Construct, MarkReady, MarkThrown, GetThisFirst, Destroy, HoldPlaces, Deep
  <2>2. t # Caller => /\ idleDone'[Caller] = idleDone[Caller]
                      /\ state'[Root] = state[Root] /\ ctx'[Root] = ctx[Root] /\ phase'[Root] = phase[Root]
    BY <1>0, <1>1, InHand DEF Boot, At, Goto, fiberVars, Construct, MarkReady, MarkThrown, GetThisFirst, Destroy, HoldPlaces, Deep
  <2> QED
    BY <1>t, <2>1, <2>2
<1>2. ASSUME NEW t \in Thread, Take(t) PROVE RootFiber'
  <2>1. failed = "none" /\ pc[t] \notin {"user", "stopSet"} /\ (pc' = [pc EXCEPT ![t] = "resume"] \/ UNCHANGED pc)
    BY <1>2 DEF Take, At, Goto, fiberVars, Construct, MarkReady, MarkThrown, GetThisFirst, Destroy, HoldPlaces, Deep
  <2>2. t # Caller => /\ idleDone'[Caller] = idleDone[Caller]
                      /\ state'[Root] = state[Root] /\ ctx'[Root] = ctx[Root] /\ phase'[Root] = phase[Root]
    BY <1>0, <1>2, InHand DEF Take, At, Goto, fiberVars, Construct, MarkReady, MarkThrown, GetThisFirst, Destroy, HoldPlaces, Deep
  <2> QED
    BY <1>t, <2>1, <2>2
<1>3. ASSUME NEW t \in Thread, TakeNothing(t) PROVE RootFiber'
  <2>1. failed = "none" /\ pc[t] \notin {"user", "stopSet"} /\ (pc' = [pc EXCEPT ![t] = "idle"] \/ UNCHANGED pc)
    BY <1>3 DEF TakeNothing, At, Goto, fiberVars, Construct, MarkReady, MarkThrown, GetThisFirst, Destroy, HoldPlaces, Deep
  <2>2. t # Caller => /\ idleDone'[Caller] = idleDone[Caller]
                      /\ state'[Root] = state[Root] /\ ctx'[Root] = ctx[Root] /\ phase'[Root] = phase[Root]
    BY <1>0, <1>3, InHand DEF TakeNothing, At, Goto, fiberVars, Construct, MarkReady, MarkThrown, GetThisFirst, Destroy, HoldPlaces, Deep
  <2> QED
    BY <1>t, <2>1, <2>2
<1>4. ASSUME NEW t \in Thread, Idle(t) PROVE RootFiber'
  <2>1. failed = "none" /\ pc[t] \notin {"user", "stopSet"} /\ (pc' = [pc EXCEPT ![t] = "loop"] \/ UNCHANGED pc)
    BY <1>4 DEF Idle, At, Goto, fiberVars, Construct, MarkReady, MarkThrown, GetThisFirst, Destroy, HoldPlaces, Deep
  <2>2. t # Caller => /\ idleDone'[Caller] = idleDone[Caller]
                      /\ state'[Root] = state[Root] /\ ctx'[Root] = ctx[Root] /\ phase'[Root] = phase[Root]
    BY <1>0, <1>4, InHand DEF Idle, At, Goto, fiberVars, Construct, MarkReady, MarkThrown, GetThisFirst, Destroy, HoldPlaces, Deep
  <2> QED
    BY <1>t, <2>1, <2>2
<1>5. ASSUME NEW t \in Thread, RunReturns(t) PROVE RootFiber'
  <2>1. CASE t = Caller
    <3>1. pc'[Caller] = "join"
      BY <1>0, <1>5, <2>1, RootReturnsEffect
    <3> QED
      BY <1>o, <3>1
  <2>2. CASE t # Caller
    <3>1. /\ failed = "none" /\ pc[t] = "loop" /\ pc' = [pc EXCEPT ![t] = "gone"] /\ UNCHANGED <<ctx, phase, idleDone>>
          /\ state' = [state EXCEPT ![t] = "freed"] \/ UNCHANGED state
      BY <1>5, <2>2 DEF RunReturns, At, Goto, DestroyMain
    <3>2. state'[Root] = state[Root]
      BY <1>0, <3>1
    <3>3. pc'[Caller] = pc[Caller] /\ idleDone'[Caller] = idleDone[Caller]
      BY <1>0, <2>2, <3>1
    <3> QED
      BY <1>a, <3>1, <3>2, <3>3
  <2> QED
    BY <2>1, <2>2
<1>6. ASSUME NEW t \in Thread, Resume(t) PROVE RootFiber'
  <2>1. failed = "none" /\ pc[t] \notin {"user", "stopSet"} /\ (pc' = [pc EXCEPT ![t] = "enter"] \/ UNCHANGED pc)
    BY <1>6 DEF Resume, At, Goto, fiberVars, Construct, MarkReady, MarkThrown, GetThisFirst, Destroy, HoldPlaces, Deep
  <2>2. t # Caller => /\ idleDone'[Caller] = idleDone[Caller]
                      /\ state'[Root] = state[Root] /\ ctx'[Root] = ctx[Root] /\ phase'[Root] = phase[Root]
    BY <1>0, <1>6, InHand DEF Resume, At, Goto, fiberVars, Construct, MarkReady, MarkThrown, GetThisFirst, Destroy, HoldPlaces, Deep
  <2> QED
    BY <1>t, <2>1, <2>2
<1>7. ASSUME NEW t \in Thread, EnterFiber(t) PROVE RootFiber'
  <2>1. failed = "none" /\ pc[t] \notin {"user", "stopSet"} /\ (pc' = [pc EXCEPT ![t] = "body"] \/ UNCHANGED pc)
    BY <1>7, EnterEffect DEF SwapFaults
  <2>2. t # Caller => /\ idleDone'[Caller] = idleDone[Caller]
                      /\ state'[Root] = state[Root] /\ ctx'[Root] = ctx[Root] /\ phase'[Root] = phase[Root]
    BY <1>0, <1>7, EnterEffect, InHand DEF SwapFaults
  <2> QED
    BY <1>t, <2>1, <2>2
<1>8. ASSUME NEW t \in Thread, After(t) PROVE RootFiber'
  <2>1. failed = "none" /\ pc[t] \notin {"user", "stopSet"} /\ (pc' = [pc EXCEPT ![t] = "loop"] \/ UNCHANGED pc)
    BY <1>8 DEF After, At, Goto, fiberVars, Construct, MarkReady, MarkThrown, GetThisFirst, Destroy, HoldPlaces, Deep
  <2>2. t # Caller => /\ idleDone'[Caller] = idleDone[Caller]
                      /\ state'[Root] = state[Root] /\ ctx'[Root] = ctx[Root] /\ phase'[Root] = phase[Root]
    BY <1>0, <1>8, InHand DEF After, At, Goto, fiberVars, Construct, MarkReady, MarkThrown, GetThisFirst, Destroy, HoldPlaces, Deep
  <2> QED
    BY <1>t, <2>1, <2>2
<1>9. ASSUME NEW t \in Thread, YieldMark(t) PROVE RootFiber'
  <2>1. failed = "none" /\ pc[t] \notin {"user", "stopSet"} /\ (pc' = [pc EXCEPT ![t] = "marked"] \/ UNCHANGED pc)
    BY <1>9, OnStack DEF YieldMark, At, Goto, fiberVars, Construct, MarkReady, MarkThrown, GetThisFirst, Destroy, HoldPlaces, Deep
  <2>2. t # Caller => /\ idleDone'[Caller] = idleDone[Caller]
                      /\ state'[Root] = state[Root] /\ ctx'[Root] = ctx[Root] /\ phase'[Root] = phase[Root]
    BY <1>0, <1>9, OnStack, InHand DEF YieldMark, At, Goto, fiberVars, Construct, MarkReady, MarkThrown, GetThisFirst, Destroy, HoldPlaces, Deep
  <2> QED
    BY <1>t, <2>1, <2>2
<1>10. ASSUME NEW t \in Thread, YieldSwap(t) PROVE RootFiber'
  <2>1. failed = "none" /\ pc[t] \notin {"user", "stopSet"} /\ (pc' = [pc EXCEPT ![t] = "after"] \/ UNCHANGED pc)
    BY <1>10, YieldSwapEffect DEF SwapFaults
  <2>2. t # Caller => /\ idleDone'[Caller] = idleDone[Caller]
                      /\ state'[Root] = state[Root] /\ ctx'[Root] = ctx[Root] /\ phase'[Root] = phase[Root]
    BY <1>0, <1>10, YieldSwapEffect, InHand DEF SwapFaults
  <2> QED
    BY <1>t, <2>1, <2>2
<1>11. ASSUME NEW t \in Thread, Return(t) PROVE RootFiber'
  <2>1. failed = "none" /\ pc[t] \notin {"user", "stopSet"} /\ (pc' = [pc EXCEPT ![t] = "after"] \/ UNCHANGED pc)
    BY <1>11, ReturnEffect DEF SwapFaults
  <2>2. t # Caller => /\ idleDone'[Caller] = idleDone[Caller]
                      /\ state'[Root] = state[Root] /\ ctx'[Root] = ctx[Root] /\ phase'[Root] = phase[Root]
    BY <1>0, <1>11, ReturnEffect, InHand DEF SwapFaults
  <2> QED
    BY <1>t, <2>1, <2>2
<1>12. ASSUME NEW t \in Thread, Throw(t) PROVE RootFiber'
  <2>1. failed = "none" /\ pc[t] \notin {"user", "stopSet"} /\ (pc' = [pc EXCEPT ![t] = "marked"] \/ UNCHANGED pc)
    BY <1>12, OnStack DEF Throw, At, Goto, fiberVars, Construct, MarkReady, MarkThrown, GetThisFirst, Destroy, HoldPlaces, Deep
  <2>2. t # Caller => /\ idleDone'[Caller] = idleDone[Caller]
                      /\ state'[Root] = state[Root] /\ ctx'[Root] = ctx[Root] /\ phase'[Root] = phase[Root]
    BY <1>0, <1>12, OnStack, InHand DEF Throw, At, Goto, fiberVars, Construct, MarkReady, MarkThrown, GetThisFirst, Destroy, HoldPlaces, Deep
  <2> QED
    BY <1>t, <2>1, <2>2
<1>13. ASSUME NEW t \in Thread, Park(t) PROVE RootFiber'
  <2>1. failed = "none" /\ pc[t] \notin {"user", "stopSet"} /\ (pc' = [pc EXCEPT ![t] = "leaving"] \/ UNCHANGED pc)
    BY <1>13 DEF Park, At, Goto, fiberVars, Construct, MarkReady, MarkThrown, GetThisFirst, Destroy, HoldPlaces, Deep
  <2>2. t # Caller => /\ idleDone'[Caller] = idleDone[Caller]
                      /\ state'[Root] = state[Root] /\ ctx'[Root] = ctx[Root] /\ phase'[Root] = phase[Root]
    BY <1>0, <1>13, InHand DEF Park, At, Goto, fiberVars, Construct, MarkReady, MarkThrown, GetThisFirst, Destroy, HoldPlaces, Deep
  <2> QED
    BY <1>t, <2>1, <2>2
<1>14. ASSUME NEW t \in Thread, NEW thread \in {t, Null}, Requeue(t, thread) PROVE RootFiber'
  <2>1. failed = "none" /\ pc[t] \notin {"user", "stopSet"} /\ (pc' = [pc EXCEPT ![t] = "leaving"] \/ UNCHANGED pc)
    BY <1>14 DEF Requeue, At, Goto, fiberVars, Construct, MarkReady, MarkThrown, GetThisFirst, Destroy, HoldPlaces, Deep
  <2>2. t # Caller => /\ idleDone'[Caller] = idleDone[Caller]
                      /\ state'[Root] = state[Root] /\ ctx'[Root] = ctx[Root] /\ phase'[Root] = phase[Root]
    BY <1>0, <1>14, InHand DEF Requeue, At, Goto, fiberVars, Construct, MarkReady, MarkThrown, GetThisFirst, Destroy, HoldPlaces, Deep
  <2> QED
    BY <1>t, <2>1, <2>2
<1>15. ASSUME NEW t \in Thread, NEW fs \in Lists, Wake(t, fs) PROVE RootFiber'
  <2>1. failed = "none" /\ UNCHANGED <<pc, idleDone, state, ctx, phase>>
    BY <1>15 DEF Wake, MaySchedule, At, fiberVars, schedVars
  <2> QED
    BY <1>a, <2>1
<1>16. ASSUME NEW t \in Thread, NEW fs \in Pairs, ScheduleAll(t, fs) PROVE RootFiber'
  <2>1. failed = "none" /\ UNCHANGED <<pc, idleDone, state, ctx, phase>>
    BY <1>16 DEF ScheduleAll, MaySchedule, At, fiberVars, schedVars
  <2> QED
    BY <1>a, <2>1
<1>17. ASSUME NEW t \in Thread, NEW f \in UserFiber, NEW isCb \in BOOLEAN, NEW pin \in Pins,
            Schedule(t, f, isCb, pin)
     PROVE  RootFiber'
  <2>1. /\ failed = "none" /\ UNCHANGED <<pc, idleDone, phase>>
        /\ UNCHANGED <<state, ctx>> \/ (state' = [state EXCEPT ![f] = "READY"] /\ ctx' = [ctx EXCEPT ![f] = f])
    BY <1>17 DEF Schedule, MaySchedule, At, Construct
  <2>2. state'[Root] = state[Root] /\ ctx'[Root] = ctx[Root]
    BY <1>0, <2>1
  <2> QED
    BY <1>a, <2>1, <2>2
<1>18. CASE StartNothing
  <2>1. failed = "none" /\ UNCHANGED <<pc, idleDone, state, ctx, phase>>
    BY <1>18 DEF StartNothing, MaySchedule, At, fiberVars, schedVars
  <2> QED
    BY <1>a, <2>1
<1>19. CASE StartThreads
  <2>1. failed = "none" /\ UNCHANGED <<idleDone, state, ctx, phase>> /\ pc'[Caller] = pc[Caller]
    BY <1>0, <1>19 DEF StartThreads, At
  <2> QED
    BY <1>a, <2>1
<1>20. CASE StopCheck
  <2>1. failed = "none" /\ pc[Caller] = "user" /\ UNCHANGED <<idleDone, state, ctx, phase>>
    BY <1>20 DEF StopCheck, At, fiberVars
  <2>2. CASE StopEarly
    BY <1>a, <1>20, <2>1, <2>2 DEF StopCheck
  <2>3. CASE ~StopEarly
    <3>1. ~idleDone[Caller]
      BY <1>0, <2>3 DEF StopEarly, PoolInv, Drained
    <3>2. pc'[Caller] = "stopSet"
      BY <1>0, <1>20, <2>3 DEF StopCheck, Goto
    <3> QED
      BY <1>0, <2>1, <3>1, <3>2 DEF RootFiber, Ready
  <2> QED
    BY <2>2, <2>3
<1>21. CASE StopSet
  <2>1. \E p \in {"join", "loop"} : pc' = [pc EXCEPT ![Caller] = p]
    BY <1>21, StopSetEffect
  <2> QED
    BY <1>0, <1>o, <2>1
<1>22. CASE Join
  <2>1. pc[Caller] = "join" /\ pc'[Caller] = "user" /\ UNCHANGED idleDone
    BY <1>0, <1>22 DEF Join, At, Goto
  <2>2. UseCaller => idleDone[Caller]
    BY <2>1 DEF PoolInv, Threads
  <2> QED
    BY <2>1, <2>2 DEF RootFiber
<1>23. CASE Destruct
  <2>1. pc'[Caller] = "done"
    BY <1>0, <1>23 DEF Destruct, Goto
  <2> QED
    BY <1>o, <2>1
<1>24. CASE UNCHANGED vars
  <2>1. failed = "none" /\ UNCHANGED <<pc, idleDone, state, ctx, phase>>
    BY <1>24 DEF vars, schedVars, MaySchedule, At, fiberVars, schedVars
  <2> QED
    BY <1>a, <2>1
<1> QED
  BY <1>1, <1>2, <1>3, <1>4, <1>5, <1>6, <1>7, <1>8, <1>9, <1>10, <1>11, <1>12, <1>13, <1>14, <1>15, <1>16, <1>17, <1>18, <1>19, <1>20, <1>21, <1>22, <1>23, <1>24, StepCases

LEMMA UserFibersKept ==
  ASSUME Gentle, Inv, PoolInv, FiberInv, [Next]_vars
  PROVE  (Running => UserFibers)'
<1> SUFFICES ASSUME failed' = "none" PROVE UserFibers'
  BY DEF Running
<1> DEFINE Same(f) == state'[f] = state[f] /\ ctx'[f] = ctx[f] /\ phase'[f] = phase[f]
           Loose == {"resume", "enter", "marked", "after"}
<1>0. /\ failed = "none" => UserFibers
      /\ ctx \in [FiberObj -> FiberObj \cup {Stale}] /\ pc \in [Thread -> Places]
      /\ state \in [FiberObj -> {"absent", "READY", "EXEC", "TERM", "freed"}]
      /\ phase \in [Coroutine -> {"entry", "body", "over"}] /\ parked \subseteq UserFiber
      /\ cur \in [Thread -> Task \cup {NoTask}]
      /\ Loose \subseteq HoldPlaces
      /\ UserFiber \subseteq FiberObj /\ UserFiber \subseteq Coroutine /\ Root \notin UserFiber
      /\ \A t \in Thread : t \notin UserFiber /\ Base(t) \notin UserFiber
  BY Names DEF FiberInv, Running, Inv, TypeOK, FiberTypeOK, Base, HoldPlaces, Deep
<1>1t. \A i \in 1..Len(tasks) : tasks[i].fiber \in UserFiber
  BY TaskList
<1>2t. \A t \in Thread : pc[t] \in HoldPlaces => cur[t].fiber \in UserFiber
  BY InHand
<1>h. ASSUME UNCHANGED cur PROVE \A f : Held(f)' <=> Held(f)
  BY <1>h DEF Held
<1>r. ASSUME NEW f, Same(f) PROVE Ready(f)' <=> Ready(f)
  BY <1>r DEF Ready
<1>f. ASSUME failed = "none", NEW u \in Thread, cur'[u] = cur[u], pc'[u] = pc[u] \/ pc'[u] \notin Loose,
             pc[u] \in HoldPlaces => Same(cur[u].fiber)
      PROVE  Fit(u)'
  <2>1. Fit(u)
    BY <1>0, <1>f DEF UserFibers
  <2>2. CASE pc'[u] \notin Loose
    BY <2>2 DEF Fit
  <2>3. CASE pc'[u] = pc[u] /\ pc[u] \in Loose
    <3>1. Same(cur[u].fiber)
      BY <1>0, <1>f, <2>3
    <3> QED
      BY <1>f, <2>1, <2>3, <3>1 DEF Fit, Ready
  <2> QED
    BY <1>f, <2>2, <2>3
<1>g. ASSUME failed = "none", UNCHANGED <<tasks, parked>>, \A f : Held(f) => Held(f)',
             \A f \in UserFiber : Waits(f) /\ ~Held(f) => Same(f)
      PROVE  QueuedReady' /\ ParkedReady'
  <2>1. \A i \in 1..Len(tasks) : Waits(tasks[i].fiber)
    BY DEF Waits, Queued
  <2>2. QueuedReady'
    BY <1>0, <1>1t, <1>g, <2>1 DEF UserFibers, QueuedReady, Ready
  <2>3. ParkedReady'
    BY <1>0, <1>g DEF UserFibers, ParkedReady, Ready, Waits
  <2> QED
    BY <2>2, <2>3
<1>q. ASSUME failed = "none", UNCHANGED <<tasks, parked, cur>>, \A f \in UserFiber : Same(f),
             \A u \in Thread : pc'[u] = pc[u] \/ pc'[u] \notin Loose
      PROVE  UserFibers'
  <2>1. QueuedReady' /\ ParkedReady'
    BY <1>g, <1>h, <1>q
  <2>2. \A u \in Thread : Fit(u)'
    BY <1>2t, <1>f, <1>q
  <2> QED
    BY <2>1, <2>2 DEF UserFibers
<1>p. ASSUME failed = "none", UNCHANGED <<tasks, parked, cur>>, NEW t \in Thread, pc[t] \in HoldPlaces,
             \A g \in UserFiber \ {cur[t].fiber} : Same(g), Fit(t)', \A u \in Thread \ {t} : pc'[u] = pc[u]
      PROVE  UserFibers'
  <2>1. Held(cur[t].fiber)
    BY DEF Held
  <2>2. QueuedReady' /\ ParkedReady'
    BY <1>g, <1>h, <1>p, <2>1
  <2>3. ASSUME NEW u \in Thread \ {t} PROVE Fit(u)'
    <3>1. pc[u] \in HoldPlaces => cur[u].fiber # cur[t].fiber
      BY <1>p DEF PoolInv, HeldOnce, Inv, Holding
    <3> QED
      BY <1>2t, <1>f, <1>p, <3>1
  <2> QED
    BY <1>p, <2>2, <2>3 DEF UserFibers
<1>1. ASSUME NEW t \in Thread, Boot(t) PROVE UserFibers'
  <2>1. failed = "none" /\ UNCHANGED <<tasks, parked, cur>>
    BY <1>1 DEF Boot, At, Goto, GetThisFirst, fiberVars, schedVars
  <2>2. \A f \in UserFiber : Same(f)
    BY <1>0, <1>1 DEF Boot, At, Goto, GetThisFirst, fiberVars, schedVars
  <2>3. \A u \in Thread : pc'[u] = pc[u] \/ pc'[u] \notin Loose
    BY <1>0, <1>1 DEF Boot, At, Goto, GetThisFirst, fiberVars, schedVars
  <2> QED
    BY <1>q, <2>1, <2>2, <2>3
<1>2. ASSUME NEW t \in Thread, Take(t) PROVE UserFibers'
  <2>1. PICK i \in 1..Len(tasks) : tasks' = Erase(i) /\ cur' = [cur EXCEPT ![t] = tasks[i]] /\ tasks[i].thread \in {Null, t}
    BY <1>2 DEF Take, EligibleAt, Eligible
  <2>2. /\ failed = "none" /\ cur[t] = NoTask /\ UNCHANGED <<state, ctx, phase, parked>>
        /\ pc' = [pc EXCEPT ![t] = "resume"]
    BY <1>2 DEF Take, At, Goto, fiberVars, Inv, Holding, HoldPlaces, Deep
  <2>3. cur'[t] = tasks[i] /\ pc'[t] = "resume" /\ \A u \in Thread \ {t} : cur'[u] = cur[u] /\ pc'[u] = pc[u]
    BY <1>0, <2>1, <2>2
  <2>4. \A f \in UserFiber : Held(f) => Held(f)'
    BY <2>2, <2>3, Names DEF Held
  <2>5. ~Held(tasks[i].fiber)
    BY <1>1t, <2>1, <2>2, Names DEF PoolInv, HeldOnce, Held
  <2>6. QueuedReady'
    <3> SUFFICES ASSUME NEW k \in 1..Len(tasks'), ~tasks'[k].cb, ~Held(tasks[k].fiber)' PROVE Ready(tasks[k].fiber)'
      BY DEF QueuedReady
    <3>1. PICK j \in 1..Len(tasks) : tasks'[k] = tasks[j]
      BY <2>1, QueuedErased DEF PoolInv
    <3>2. ~tasks[j].cb /\ ~Held(tasks[j].fiber)
      BY <1>1t, <2>4, <3>1
    <3>3. Ready(tasks[j].fiber)
      BY <1>0, <2>2, <3>2 DEF UserFibers, QueuedReady
    <3> QED
      BY <2>2, <3>1, <3>3 DEF Ready
  <2>7. ParkedReady'
    BY <1>0, <2>2, <2>4 DEF UserFibers, ParkedReady, Ready
  <2>8. Fit(t)'
    <3>1. ~tasks[i].cb => Ready(tasks[i].fiber)
      BY <1>0, <2>2, <2>5 DEF UserFibers, QueuedReady
    <3> QED
      BY <2>2, <2>3, <3>1 DEF Fit, Ready
  <2>9. \A u \in Thread \ {t} : Fit(u)'
    BY <1>f, <2>2, <2>3
  <2> QED
    BY <2>6, <2>7, <2>8, <2>9 DEF UserFibers
<1>3. ASSUME NEW t \in Thread, TakeNothing(t) PROVE UserFibers'
  <2>1. failed = "none" /\ UNCHANGED <<tasks, parked, cur>>
    BY <1>3 DEF TakeNothing, At, Goto, GetThisFirst, fiberVars, schedVars
  <2>2. \A f \in UserFiber : Same(f)
    BY <1>0, <1>3 DEF TakeNothing, At, Goto, GetThisFirst, fiberVars, schedVars
  <2>3. \A u \in Thread : pc'[u] = pc[u] \/ pc'[u] \notin Loose
    BY <1>0, <1>3 DEF TakeNothing, At, Goto, GetThisFirst, fiberVars, schedVars
  <2> QED
    BY <1>q, <2>1, <2>2, <2>3
<1>4. ASSUME NEW t \in Thread, Idle(t) PROVE UserFibers'
  <2>1. failed = "none" /\ UNCHANGED <<tasks, parked, cur>>
    BY <1>4 DEF Idle, At, Goto, GetThisFirst, fiberVars, schedVars
  <2>2. \A f \in UserFiber : Same(f)
    BY <1>0, <1>4 DEF Idle, At, Goto, GetThisFirst, fiberVars, schedVars
  <2>3. \A u \in Thread : pc'[u] = pc[u] \/ pc'[u] \notin Loose
    BY <1>0, <1>4 DEF Idle, At, Goto, GetThisFirst, fiberVars, schedVars
  <2> QED
    BY <1>q, <2>1, <2>2, <2>3
<1>5. ASSUME NEW t \in Thread, RunReturns(t) PROVE UserFibers'
  <2>1. CASE t = Caller
    <3>1. failed = "none" /\ UNCHANGED <<tasks, parked, cur>>
      BY <1>5, <2>1, Names, RootReturnsEffect DEF SwapFaults
    <3>2. \A f \in UserFiber : Same(f)
      BY <1>0, <1>5, <2>1, Names, RootReturnsEffect DEF SwapFaults
    <3>3. \A u \in Thread : pc'[u] = pc[u] \/ pc'[u] \notin Loose
      BY <1>0, <1>5, <2>1, Names, RootReturnsEffect DEF SwapFaults
    <3> QED
      BY <1>q, <3>1, <3>2, <3>3
  <2>2. CASE t # Caller
    <3>1. failed = "none" /\ UNCHANGED <<tasks, parked, cur>>
      BY <1>5, <2>2 DEF RunReturns, At, Goto, DestroyMain
    <3>2. \A f \in UserFiber : Same(f)
      BY <1>0, <1>5, <2>2 DEF RunReturns, At, Goto, DestroyMain
    <3>3. \A u \in Thread : pc'[u] = pc[u] \/ pc'[u] \notin Loose
      BY <1>0, <1>5, <2>2 DEF RunReturns, At, Goto, DestroyMain
    <3> QED
      BY <1>q, <3>1, <3>2, <3>3
  <2> QED
    BY <2>1, <2>2
<1>6. ASSUME NEW t \in Thread, Resume(t) PROVE UserFibers'
  <2> DEFINE f == cur[t].fiber
  <2>1. /\ failed = "none" /\ pc[t] \in HoldPlaces /\ UNCHANGED <<tasks, parked, cur>>
        /\ \A u \in Thread \ {t} : pc'[u] = pc[u]
    BY <1>0, <1>6 DEF Resume, At, Goto, Construct, HoldPlaces, Deep
  <2>2. f \in UserFiber /\ \A g \in UserFiber \ {f} : Same(g)
    BY <1>0, <1>2t, <2>1, <1>6 DEF Resume, At, Goto, Construct, HoldPlaces, Deep
  <2>3. Fit(t)'
    <3>1. CASE cur[t].cb
      <4>1. state'[f] = "READY" /\ ctx'[f] = f /\ pc'[t] = "enter"
        BY <1>0, <1>6, <2>2, <3>1 DEF Resume, Construct, Goto
      <4> QED
        BY <2>1, <4>1 DEF Fit, Ready
    <3>2. CASE ~cur[t].cb
      <4>1. Ready(f)
        BY <1>0, <1>6, <3>2 DEF Resume, At, UserFibers, Fit
      <4>2. Same(f) /\ pc'[t] = "enter"
        BY <1>0, <1>6, <3>2 DEF Resume, Goto, Fault
      <4> QED
        BY <2>1, <4>1, <4>2 DEF Fit, Ready
    <3> QED
      BY <3>1, <3>2
  <2> QED
    BY <1>p, <2>1, <2>2, <2>3
<1>7. ASSUME NEW t \in Thread, EnterFiber(t) PROVE UserFibers'
  <2> DEFINE f == cur[t].fiber
  <2>1. /\ failed = "none" /\ pc[t] \in HoldPlaces /\ UNCHANGED <<tasks, parked, cur>>
        /\ \A u \in Thread \ {t} : pc'[u] = pc[u]
    BY <1>0, <1>7, EnterEffect DEF SwapFaults, HoldPlaces, Deep
  <2>2. f \in UserFiber /\ \A g \in UserFiber \ {f} : Same(g)
    BY <1>0, <1>2t, <2>1, <1>7, EnterEffect DEF SwapFaults, HoldPlaces, Deep
  <2>3. Fit(t)'
    <3>1. pc'[t] = "body"
      BY <1>0, <1>7, EnterEffect
    <3> QED
      BY <3>1 DEF Fit
  <2> QED
    BY <1>p, <2>1, <2>2, <2>3
<1>8. ASSUME NEW t \in Thread, After(t) PROVE UserFibers'
  <2>0. PICK f : f = cur[t].fiber
    OBVIOUS
  <2>1. /\ failed = "none" /\ pc[t] = "after" /\ pc[t] \in HoldPlaces /\ UNCHANGED <<tasks, parked, ctx, phase>>
        /\ cur' = [cur EXCEPT ![t] = NoTask] /\ pc' = [pc EXCEPT ![t] = "loop"]
    BY <1>8 DEF After, At, Goto, HoldPlaces
  <2>2. f \in UserFiber /\ (Waits(f) \/ phase[f] = "over") /\ \A u \in Thread \ {t} : cur[u].fiber # f
    BY <2>0, <2>1, InHand DEF PoolInv, Turns, Turn, HeldOnce, Inv, Holding
  <2>3. pc'[t] = "loop" /\ \A u \in Thread \ {t} : cur'[u] = cur[u] /\ pc'[u] = pc[u]
    BY <1>0, <2>1
  <2>4. \A g \in UserFiber : g # f /\ Held(g) => Held(g)'
    BY <2>0, <2>3 DEF Held
  <2>5. (Waits(f) => UNCHANGED state) /\ \A g \in UserFiber \ {f} : state'[g] = state[g]
    BY <1>0, <2>0, <2>2, <1>8 DEF After, Destroy, Referenced, Waits
  <2>6. Waits(f) => Ready(f)
    <3>1. Waits(f) => phase[f] # "over"
      BY <2>2 DEF PoolInv, Turns
    <3> QED
      BY <1>0, <2>0, <2>1, <3>1 DEF UserFibers, Fit
  <2>7. ASSUME NEW g \in UserFiber, Waits(g), ~Held(g)', g # f => (Held(g) \/ Ready(g)) PROVE Ready(g)'
    BY <2>1, <2>4, <2>5, <2>6, <2>7 DEF Ready
  <2>8. QueuedReady'
    <3> SUFFICES ASSUME NEW k \in 1..Len(tasks), ~tasks[k].cb, ~Held(tasks[k].fiber)' PROVE Ready(tasks[k].fiber)'
      BY <2>1 DEF QueuedReady
    <3>0. PICK g \in UserFiber : g = tasks[k].fiber
      BY <1>1t
    <3>1. Waits(g) /\ (Held(g) \/ Ready(g))
      BY <1>0, <2>1, <3>0 DEF Waits, Queued, UserFibers, QueuedReady
    <3>2. ~Held(g)'
      BY <2>1, <3>0
    <3>3. Ready(g)'
      BY <2>7, <3>1, <3>2
    <3> QED
      BY <2>1, <3>0, <3>3
  <2>9. ParkedReady'
    <3> SUFFICES ASSUME NEW g \in parked, ~Held(g)' PROVE Ready(g)'
      BY <2>1 DEF ParkedReady
    <3>1. g \in UserFiber /\ Waits(g) /\ (Held(g) \/ Ready(g))
      BY <1>0, <2>1 DEF Waits, UserFibers, ParkedReady
    <3> QED
      BY <2>7, <3>1
  <2>10. ASSUME NEW u \in Thread \ {t} PROVE Fit(u)'
    BY <1>2t, <1>f, <2>1, <2>2, <2>3, <2>5
  <2>11. Fit(t)'
    BY <2>3 DEF Fit
  <2> QED
    BY <2>8, <2>9, <2>10, <2>11 DEF UserFibers
<1>9. ASSUME NEW t \in Thread, YieldMark(t) PROVE UserFibers'
  <2> DEFINE f == cur[t].fiber
  <2>1. /\ failed = "none" /\ pc[t] \in HoldPlaces /\ UNCHANGED <<tasks, parked, cur>>
        /\ \A u \in Thread \ {t} : pc'[u] = pc[u]
    BY <1>0, <1>9, OnStack DEF YieldMark, At, Goto, MarkReady, HoldPlaces, Deep
  <2>2. f \in UserFiber /\ \A g \in UserFiber \ {f} : Same(g)
    BY <1>0, <1>2t, <2>1, <1>9, OnStack DEF YieldMark, At, Goto, MarkReady, HoldPlaces, Deep
  <2>3. Fit(t)'
    <3>1. pc[t] = "leaving" /\ f = this[t] /\ state[f] = "EXEC"
      BY <1>9, OnStack DEF YieldMark, At
    <3>2. phase[f] # "over"
      BY <2>2, <3>1 DEF PoolInv, Turns, Turn
    <3>3. state'[f] = "READY" /\ phase'[f] = phase[f] /\ pc'[t] = "marked"
      BY <1>0, <1>9, <2>2, <3>1 DEF YieldMark, MarkReady, Goto
    <3> QED
      BY <2>1, <3>2, <3>3 DEF Fit
  <2> QED
    BY <1>p, <2>1, <2>2, <2>3
<1>10. ASSUME NEW t \in Thread, YieldSwap(t) PROVE UserFibers'
  <2> DEFINE f == cur[t].fiber
  <2>1. /\ failed = "none" /\ pc[t] \in HoldPlaces /\ UNCHANGED <<tasks, parked, cur>>
        /\ \A u \in Thread \ {t} : pc'[u] = pc[u]
    BY <1>0, <1>10, YieldSwapEffect DEF SwapFaults, HoldPlaces, Deep
  <2>2. f \in UserFiber /\ \A g \in UserFiber \ {f} : Same(g)
    BY <1>0, <1>2t, <2>1, <1>10, YieldSwapEffect DEF SwapFaults, HoldPlaces, Deep
  <2>3. Fit(t)'
    <3>1. state[f] = "READY" /\ phase[f] # "over"
      BY <1>0, <1>10, YieldSwapEffect DEF UserFibers, Fit
    <3>2. state'[f] = "READY" /\ phase'[f] = phase[f] /\ ctx'[f] = f /\ pc'[t] = "after"
      BY <1>0, <1>10, <2>2, <3>1, YieldSwapEffect DEF SwapFaults
    <3> QED
      BY <2>1, <3>1, <3>2 DEF Fit, Ready
  <2> QED
    BY <1>p, <2>1, <2>2, <2>3
<1>11. ASSUME NEW t \in Thread, Return(t) PROVE UserFibers'
  <2> DEFINE f == cur[t].fiber
  <2>1. /\ failed = "none" /\ pc[t] \in HoldPlaces /\ UNCHANGED <<tasks, parked, cur>>
        /\ \A u \in Thread \ {t} : pc'[u] = pc[u]
    BY <1>0, <1>11, ReturnEffect DEF SwapFaults, HoldPlaces, Deep
  <2>2. f \in UserFiber /\ \A g \in UserFiber \ {f} : Same(g)
    BY <1>0, <1>2t, <2>1, <1>11, ReturnEffect DEF SwapFaults, HoldPlaces, Deep
  <2>3. Fit(t)'
    <3>1. state'[f] = "TERM" /\ phase'[f] = "over" /\ pc'[t] = "after"
      BY <1>0, <1>11, <2>2, ReturnEffect
    <3> QED
      BY <2>1, <3>1 DEF Fit
  <2> QED
    BY <1>p, <2>1, <2>2, <2>3
<1>12. ASSUME NEW t \in Thread, Throw(t) PROVE UserFibers'
  BY <1>12 DEF Throw, Gentle
<1>13. ASSUME NEW t \in Thread, Park(t) PROVE UserFibers'
  <2>1. /\ failed = "none" /\ UNCHANGED <<tasks, cur, state, ctx, phase>> /\ parked' = parked \cup {this[t]}
        /\ pc[t] = "body" /\ this[t] = cur[t].fiber
    BY <1>13, OnStack DEF Park, At, fiberVars
  <2>2. \A u \in Thread : pc'[u] = pc[u] \/ pc'[u] \notin Loose
    BY <1>0, <1>13 DEF Park, Goto
  <2>3. Held(this[t])
    BY <2>1 DEF Held
  <2>4. QueuedReady' /\ ParkedReady'
    BY <1>0, <1>h, <2>1, <2>3 DEF UserFibers, QueuedReady, ParkedReady, Ready
  <2>5. \A u \in Thread : Fit(u)'
    BY <1>f, <2>1, <2>2
  <2> QED
    BY <2>4, <2>5 DEF UserFibers
<1>14. ASSUME NEW t \in Thread, NEW thread \in {t, Null}, Requeue(t, thread) PROVE UserFibers'
  <2> DEFINE x == [fiber |-> this[t], cb |-> FALSE, thread |-> thread]
  <2>1. /\ failed = "none" /\ UNCHANGED <<parked, cur, state, ctx, phase>> /\ tasks' = Append(tasks, x)
        /\ pc[t] = "body" /\ this[t] = cur[t].fiber /\ this[t] \in UserFiber
    BY <1>14, OnStack DEF Requeue, At, fiberVars, Push
  <2>2. \A u \in Thread : pc'[u] = pc[u] \/ pc'[u] \notin Loose
    BY <1>0, <1>14 DEF Requeue, Goto
  <2>3. Held(this[t]) /\ x \in Task /\ x.fiber = this[t]
    BY <2>1 DEF Held, Task
  <2> HIDE DEF x
  <2>4. QueuedReady'
    <3> SUFFICES ASSUME NEW k \in 1..Len(tasks'), ~tasks'[k].cb, ~Held(tasks[k].fiber)' PROVE Ready(tasks[k].fiber)'
      BY DEF QueuedReady
    <3>1. ~Held(tasks'[k].fiber)
      BY <1>h, <2>1
    <3>2. k \in 1..Len(tasks) /\ tasks'[k] = tasks[k]
      BY <2>1, <2>3, <3>1, QueuedPushed
    <3>3. Ready(tasks[k].fiber)
      BY <1>0, <2>1, <3>1, <3>2 DEF UserFibers, QueuedReady
    <3> QED
      BY <2>1, <3>2, <3>3 DEF Ready
  <2>5. ParkedReady'
    BY <1>0, <1>h, <2>1 DEF UserFibers, ParkedReady, Ready
  <2>6. \A u \in Thread : Fit(u)'
    BY <1>f, <2>1, <2>2
  <2> QED
    BY <2>4, <2>5, <2>6 DEF UserFibers
<1>15. ASSUME NEW t \in Thread, NEW fs \in Lists, Wake(t, fs) PROVE UserFibers'
  <2>1. failed = "none" /\ UNCHANGED <<cur, state, ctx, phase, pc>> /\ PushAll(fs, FALSE) /\ fs \in Lists /\ ToSet(fs) \subseteq parked /\ parked' \subseteq parked
    BY <1>15 DEF Wake, MaySchedule, At, fiberVars, Lists
  <2>2. QueuedReady'
    <3> SUFFICES ASSUME NEW k \in 1..Len(tasks'), ~tasks'[k].cb, ~Held(tasks[k].fiber)' PROVE Ready(tasks[k].fiber)'
      BY DEF QueuedReady
    <3>1. ~Held(tasks'[k].fiber)
      BY <1>h, <2>1
    <3>2. CASE k \in 1..Len(tasks) /\ tasks'[k] = tasks[k]
      <4>1. Ready(tasks[k].fiber)
        BY <1>0, <2>1, <3>1, <3>2 DEF UserFibers, QueuedReady
      <4> QED
        BY <2>1, <3>2, <4>1 DEF Ready
    <3>3. CASE k - Len(tasks) \in 1..Len(fs) /\ tasks'[k] = TaskFor(fs[k - Len(tasks)], FALSE)
      <4>1. TaskFor(fs[k - Len(tasks)], FALSE).fiber = fs[k - Len(tasks)]
        BY DEF TaskFor
      <4>2. fs[k - Len(tasks)] \in parked
        BY <2>1, <3>3, ListParts
      <4>3. Ready(tasks'[k].fiber)
        BY <1>0, <2>1, <3>1, <3>3, <4>1, <4>2 DEF UserFibers, ParkedReady
      <4> QED
        BY <2>1, <4>3 DEF Ready
    <3> QED
      BY <2>1, <3>2, <3>3, QueuedPushedAll
  <2>3. ParkedReady'
    BY <1>0, <1>h, <2>1 DEF UserFibers, ParkedReady, Ready
  <2>4. \A u \in Thread : Fit(u)'
    BY <1>f, <2>1
  <2> QED
    BY <2>2, <2>3, <2>4 DEF UserFibers
<1>16. ASSUME NEW t \in Thread, NEW fs \in Pairs, ScheduleAll(t, fs) PROVE UserFibers'
  <2>1. failed = "none" /\ UNCHANGED <<cur, state, ctx, phase, pc>> /\ PushAll(fs, TRUE) /\ fs \in Lists /\ UNCHANGED parked
    BY <1>16 DEF ScheduleAll, MaySchedule, At, fiberVars, Lists
  <2>2. QueuedReady'
    <3> SUFFICES ASSUME NEW k \in 1..Len(tasks'), ~tasks'[k].cb, ~Held(tasks[k].fiber)' PROVE Ready(tasks[k].fiber)'
      BY DEF QueuedReady
    <3>1. ~Held(tasks'[k].fiber)
      BY <1>h, <2>1
    <3>2. CASE k \in 1..Len(tasks) /\ tasks'[k] = tasks[k]
      <4>1. Ready(tasks[k].fiber)
        BY <1>0, <2>1, <3>1, <3>2 DEF UserFibers, QueuedReady
      <4> QED
        BY <2>1, <3>2, <4>1 DEF Ready
    <3>3. CASE k - Len(tasks) \in 1..Len(fs) /\ tasks'[k] = TaskFor(fs[k - Len(tasks)], TRUE)
      <4>1. TaskFor(fs[k - Len(tasks)], TRUE).cb
        BY DEF TaskFor
      <4>2. tasks'[k].cb
        BY <3>3, <4>1
      <4> QED
        BY <4>2
    <3> QED
      BY <2>1, <3>2, <3>3, QueuedPushedAll
  <2>3. ParkedReady'
    BY <1>0, <1>h, <2>1 DEF UserFibers, ParkedReady, Ready
  <2>4. \A u \in Thread : Fit(u)'
    BY <1>f, <2>1
  <2> QED
    BY <2>2, <2>3, <2>4 DEF UserFibers
<1>17. ASSUME NEW t \in Thread, NEW f \in UserFiber, NEW isCb \in BOOLEAN, NEW pin \in Pins,
            Schedule(t, f, isCb, pin)
     PROVE  UserFibers'
  <2> DEFINE x == [fiber |-> f, cb |-> isCb, thread |-> pin]
  <2>1. failed = "none" /\ UNCHANGED <<cur, parked, phase, pc>> /\ tasks' = Append(tasks, x) /\ Fresh(f)
    BY <1>17 DEF Schedule, MaySchedule, At, Push
  <2>2. x \in Task /\ x.fiber = f /\ x.cb = isCb
    BY SchedulerAssumption DEF Task, Pins, Worker
  <2> HIDE DEF x
  <2>3. (~isCb => Ready(f)') /\ \A g \in UserFiber \ {f} : Same(g)
    BY <1>0, <1>17 DEF Schedule, Construct, Ready
  <2>4. ~Waits(f) /\ ~Held(f)
    BY <2>1, FreshJob
  <2>5. QueuedReady'
    <3> SUFFICES ASSUME NEW k \in 1..Len(tasks'), ~tasks'[k].cb, ~Held(tasks[k].fiber)' PROVE Ready(tasks[k].fiber)'
      BY DEF QueuedReady
    <3>1. ~Held(tasks'[k].fiber)
      BY <1>h, <2>1
    <3>2. CASE k \in 1..Len(tasks) /\ tasks'[k] = tasks[k]
      <4>1. Ready(tasks[k].fiber) /\ tasks[k].fiber # f
        BY <1>0, <2>1, <2>4, <3>1, <3>2 DEF UserFibers, QueuedReady, Waits, Queued
      <4> QED
        BY <1>1t, <2>3, <3>2, <4>1 DEF Ready
    <3>3. CASE tasks'[k] = x
      BY <2>2, <2>3, <3>3
    <3> QED
      BY <2>1, <2>2, <3>2, <3>3, QueuedPushed
  <2>6. ParkedReady'
    BY <1>0, <1>h, <2>1, <2>3, <2>4 DEF UserFibers, ParkedReady, Ready, Waits
  <2>7. ASSUME NEW u \in Thread PROVE Fit(u)'
    <3>1. cur[u].fiber # f
      BY <2>4 DEF Held
    <3> QED
      BY <1>2t, <1>f, <2>1, <2>3, <3>1
  <2> QED
    BY <2>5, <2>6, <2>7 DEF UserFibers
<1>18. CASE StartNothing
  <2>1. failed = "none" /\ UNCHANGED <<tasks, parked, cur>>
    BY <1>18 DEF StartNothing, At, Goto, GetThisFirst, fiberVars, schedVars
  <2>2. \A f \in UserFiber : Same(f)
    BY <1>0, <1>18 DEF StartNothing, At, Goto, GetThisFirst, fiberVars, schedVars
  <2>3. \A u \in Thread : pc'[u] = pc[u] \/ pc'[u] \notin Loose
    BY <1>0, <1>18 DEF StartNothing, At, Goto, GetThisFirst, fiberVars, schedVars
  <2> QED
    BY <1>q, <2>1, <2>2, <2>3
<1>19. CASE StartThreads
  <2>1. failed = "none" /\ UNCHANGED <<tasks, parked, cur>>
    BY <1>19 DEF StartThreads, At, Goto, GetThisFirst, fiberVars, schedVars
  <2>2. \A f \in UserFiber : Same(f)
    BY <1>0, <1>19 DEF StartThreads, At, Goto, GetThisFirst, fiberVars, schedVars
  <2>3. \A u \in Thread : pc'[u] = pc[u] \/ pc'[u] \notin Loose
    BY <1>0, <1>19 DEF StartThreads, At, Goto, GetThisFirst, fiberVars, schedVars
  <2> QED
    BY <1>q, <2>1, <2>2, <2>3
<1>20. CASE StopCheck
  <2>1. failed = "none" /\ UNCHANGED <<tasks, parked, cur>>
    BY <1>20 DEF StopCheck, At, Goto, GetThisFirst, fiberVars, schedVars
  <2>2. \A f \in UserFiber : Same(f)
    BY <1>0, <1>20 DEF StopCheck, At, Goto, GetThisFirst, fiberVars, schedVars
  <2>3. \A u \in Thread : pc'[u] = pc[u] \/ pc'[u] \notin Loose
    BY <1>0, <1>20 DEF StopCheck, At, Goto, GetThisFirst, fiberVars, schedVars
  <2> QED
    BY <1>q, <2>1, <2>2, <2>3
<1>21. CASE StopSet
  <2>1. failed = "none" /\ UNCHANGED <<tasks, parked, cur>>
    BY <1>21, Names, StopSetEffect DEF fiberVars, SwapFaults
  <2>2. \A f \in UserFiber : Same(f)
    BY <1>0, <1>21, Names, StopSetEffect DEF fiberVars, SwapFaults
  <2>3. \A u \in Thread : pc'[u] = pc[u] \/ pc'[u] \notin Loose
    BY <1>0, <1>21, Names, StopSetEffect DEF fiberVars, SwapFaults
  <2> QED
    BY <1>q, <2>1, <2>2, <2>3
<1>22. CASE Join
  <2>1. failed = "none" /\ UNCHANGED <<tasks, parked, cur>>
    BY <1>22 DEF Join, At, Goto, GetThisFirst, fiberVars, schedVars
  <2>2. \A f \in UserFiber : Same(f)
    BY <1>0, <1>22 DEF Join, At, Goto, GetThisFirst, fiberVars, schedVars
  <2>3. \A u \in Thread : pc'[u] = pc[u] \/ pc'[u] \notin Loose
    BY <1>0, <1>22 DEF Join, At, Goto, GetThisFirst, fiberVars, schedVars
  <2> QED
    BY <1>q, <2>1, <2>2, <2>3
<1>23. CASE Destruct
  <2>1. failed = "none" /\ returned /\ HasRunners /\ UNCHANGED <<parked, cur, state, ctx, phase>> /\ tasks' = <<>>
    BY <1>23 DEF Destruct, At, Gentle, Calm
  <2>2. tasks' = tasks
    BY <2>1 DEF PoolInv, ClosedQuiet
  <2>3. \A u \in Thread : pc'[u] = pc[u] \/ pc'[u] \notin Loose
    BY <1>0, <1>23 DEF Destruct, Goto
  <2> QED
    BY <1>q, <2>1, <2>2, <2>3
<1>24. CASE UNCHANGED vars
  <2>1. failed = "none" /\ UNCHANGED <<tasks, parked, cur>>
    BY <1>24 DEF vars, schedVars, At, Goto, GetThisFirst, fiberVars, schedVars
  <2>2. \A f \in UserFiber : Same(f)
    BY <1>0, <1>24 DEF vars, schedVars, At, Goto, GetThisFirst, fiberVars, schedVars
  <2>3. \A u \in Thread : pc'[u] = pc[u] \/ pc'[u] \notin Loose
    BY <1>0, <1>24 DEF vars, schedVars, At, Goto, GetThisFirst, fiberVars, schedVars
  <2> QED
    BY <1>q, <2>1, <2>2, <2>3
<1> QED
  BY <1>1, <1>2, <1>3, <1>4, <1>5, <1>6, <1>7, <1>8, <1>9, <1>10, <1>11, <1>12, <1>13, <1>14, <1>15, <1>16, <1>17, <1>18, <1>19, <1>20, <1>21, <1>22, <1>23, <1>24, StepCases

LEMMA InitFibers ==
  ASSUME Init
  PROVE  FiberInv
<1>1. /\ failed = "none" /\ tasks = <<>> /\ parked = {} /\ Len(tasks) = 0 /\ 1..0 = {}
      /\ \A t \in Thread : pc[t] = IF t = Caller THEN "user" ELSE "off"
  BY DEF Init
<1>2. MainFibers
  <2>1. UseCaller => state[Caller] = "EXEC"
    BY Names DEF Init
  <2>2. \A w \in Worker : pc[w] \notin RunPlaces
    BY <1>1 DEF Worker, RunPlaces, HoldPlaces, Deep
  <2> QED
    BY <2>1, <2>2 DEF MainFibers
<1>3. WayBack
  BY <1>1, Names DEF WayBack, RunPlaces, HoldPlaces, Deep
<1>4. RootFiber
  <2>1. pc[Caller] = "user" /\ (UseCaller => state[Root] = "READY" /\ ctx[Root] = Root) /\ phase[Root] = "entry"
    BY <1>1, Names DEF Init
  <2> QED
    BY <2>1 DEF RootFiber, Ready
<1>5. UserFibers
  BY <1>1 DEF UserFibers, QueuedReady, ParkedReady, Fit
<1> QED
  BY <1>1, <1>2, <1>3, <1>4, <1>5 DEF FiberInv, NoFiberFails, Unjoined

LEMMA FibersKept ==
  ASSUME Gentle, Inv, PoolInv, FiberInv, [Next]_vars
  PROVE  FiberInv'
BY NoFaultKept, MainFibersKept, WayBackKept, RootFiberKept, UserFibersKept DEF FiberInv

\* Where no task throws and start() is not repeated too early: the fiber that a thread is
\* about to resume, and each one that waits and is in nobody's hand, is READY and has its
\* own stack saved, and so has the fiber that run() yields to.
THEOREM FiberInvariance ==
  ASSUME Gentle
  PROVE  Spec => []FiberInv
<1>1. Init => FiberInv
  BY InitFibers
<1>2. Inv /\ PoolInv /\ FiberInv /\ [Next]_vars => FiberInv'
  BY FibersKept
<1>3. Spec => [](Inv /\ PoolInv)
  BY PoolInvariance DEF Gentle
<1> QED
  BY <1>1, <1>2, <1>3, PTL DEF Spec

\* No assertion of fiber.cpp fails, no context is lost or entered twice and no fiber is
\* destroyed before its end, in any interleaving of any number of threads: the window between
\* taking a task and resuming its fiber, and the one inside yield(), are harmless for such
\* clients and tasks.
THEOREM FibersAreSafe ==
  ASSUME Gentle
  PROVE  Spec => []NoFiberFails
<1>1. FiberInv => NoFiberFails
  BY DEF FiberInv
<1> QED
  BY <1>1, FiberInvariance, PTL

\* In the setting of test_scheduler.cpp, the caller's thread alone, nothing ends the program:
\* what else may is a thread that nobody joins, and start() makes none.
THEOREM CallerNeverFails ==
  ASSUME Gentle, Thread = {Caller}
  PROVE  Spec => []NeverFails
<1>1. Inv /\ FiberInv => NeverFails
  <2>1. Worker = {}
    BY DEF Worker
  <2>2. Inv => pool = {}
    BY <2>1 DEF Inv, TypeOK
  <2> QED
    BY <2>2 DEF FiberInv, NoFiberFails, Unjoined, NeverFails
<1> QED
  BY <1>1, Invariance, FiberInvariance, PTL
=============================================================================
