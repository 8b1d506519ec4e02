-------------------------- MODULE Scheduler_proofs --------------------------
(***************************************************************************)
(* Proofs about Scheduler, for any number of threads, fibers and tasks,    *)
(* with and without use_caller, and whatever tasks and the client do.      *)
(***************************************************************************)
EXTENDS Scheduler, TLAPS, FiniteSetTheorems, SequenceTheorems

\* On a task's own stack.
Deep == {"body", "leaving", "marked"}

\* From the section that takes a task to the point where run() lets go of it.
HoldPlaces == {"resume", "enter", "after"} \cup Deep

\* In run().
RunPlaces == {"loop", "idle"} \cup HoldPlaces

\* The caller enters run() with use_caller only.
Whereabouts ==
  /\ pc[Caller] \in {"user", "stopSet", "join", "done"} \cup RunPlaces
  /\ pc[Caller] \in RunPlaces => UseCaller
  /\ \A w \in Worker : pc[w] \in {"off", "boot", "gone"} \cup RunPlaces

\* A thread has a task exactly where it should.
Holding == \A t \in Thread : cur[t] # NoTask <=> pc[t] \in HoldPlaces

\* A fiber that is scheduled as such, or suspended, or resumed, has been built, and for a
\* scheduler.
QueuedExist == \A i \in 1..Len(tasks) : ~tasks[i].cb => state[tasks[i].fiber] # "absent"

ParkedExist == \A f \in parked : state[f] # "absent"

HeldExist ==
  \A t \in Thread :
    pc[t] \in HoldPlaces /\ (pc[t] = "resume" => ~cur[t].cb) => state[cur[t].fiber] # "absent"

Exists ==
  /\ QueuedExist
  /\ ParkedExist
  /\ HeldExist
  /\ \A f \in UserFiber : state[f] # "absent" => inSched[f]
  /\ ~inSched[Root]

\* The stack run() has on thread t.
Base(t) == IF t = Caller /\ pc[t] \in RunPlaces THEN Root ELSE t

\* The fiber that run() yields to and is resumed from.
Schedulers ==
  /\ UseCaller => schedFiber[Caller] = Root
  /\ \A t \in Thread : pc[t] \in RunPlaces => schedFiber[t] = Base(t)

\* Every context that can be continued is that of the object's own stack, and each stack
\* is executed by one thread, which is where its program counter says.
Stacks ==
  /\ \A x \in FiberObj : ctx[x] \in {x, Stale}
  /\ \A t \in Thread : pc[t] \notin Deep => cpu[t] = Base(t)
  /\ \A t \in Thread : pc[t] \in Deep => cpu[t] = cur[t].fiber /\ ctx[cpu[t]] = Stale
  /\ \A t, u \in Thread : pc[t] \in Deep /\ pc[u] \in Deep /\ cpu[t] = cpu[u] => t = u
  /\ \A t \in Thread :
       pc[t] \in {"body", "leaving"} => this[t] = cur[t].fiber /\ state[this[t]] = "EXEC"

\* m_idleThreadCount counts the threads in their idle fiber.
IdleCounts == idle = Cardinality({t \in Thread : pc[t] = "idle"})

Inv ==
  /\ TypeOK
  /\ Whereabouts
  /\ Holding
  /\ Exists
  /\ Schedulers
  /\ Running => Stacks
  /\ ActiveCountsHolders
  /\ IdleCounts

-----------------------------------------------------------------------------
(* What the operators of the model do.                                     *)

\* No thread, no Null and not the root fiber is a user's fiber.
LEMMA Names ==
  /\ Caller \in Thread /\ Root \in Coroutine /\ Caller \in FiberObj /\ Root \in FiberObj
  /\ Thread \subseteq FiberObj /\ UserFiber \subseteq FiberObj /\ UserFiber \subseteq Coroutine
  /\ Root \notin UserFiber /\ Root \notin Thread /\ Null \notin FiberObj /\ Stale \notin FiberObj
  /\ Null \notin UserFiber /\ Null \notin Thread
  /\ \A f \in UserFiber : f \notin Thread
  /\ NoTask \notin Task
  /\ \A x : x \in Task => x.fiber \in UserFiber /\ x.cb \in BOOLEAN /\ x.thread \in Thread \cup {Null}
  /\ NoTask.fiber = Null
<1>1. NoTask.fiber = Null
  BY DEF NoTask
<1>2. Null \notin UserFiber
  BY FiberAssumption DEF UserFiber
<1>3. NoTask \notin Task
  BY <1>1, <1>2 DEF Task
<1>4. \A x : x \in Task => x.fiber \in UserFiber /\ x.cb \in BOOLEAN /\ x.thread \in Thread \cup {Null}
  BY DEF Task
<1> QED
  BY <1>1, <1>2, <1>3, <1>4, FiberAssumption, SchedulerAssumption DEF FiberObj, UserFiber

\* m_tasks.erase(it).
LEMMA EraseTask ==
  ASSUME tasks \in Seq(Task), NEW i \in 1..Len(tasks)
  PROVE  /\ Erase(i) \in Seq(Task)
         /\ Len(Erase(i)) = Len(tasks) - 1
         /\ \A k \in 1..Len(Erase(i)) : Erase(i)[k] = tasks[IF k < i THEN k ELSE k + 1]
<1> DEFINE l == SubSeq(tasks, 1, i - 1)
           r == SubSeq(tasks, i + 1, Len(tasks))
<1>1. Len(tasks) \in Nat /\ \A k \in 1..Len(tasks) : tasks[k] \in Task
  BY LenProperties, ElementOfSeq
<1>2. l \in Seq(Task) /\ Len(l) = i - 1 /\ \A k \in 1..(i - 1) : l[k] = tasks[k]
  <2>1. 1 \in Int /\ i - 1 \in Int /\ \A k \in 1..(i - 1) : tasks[k] \in Task
    BY <1>1
  <2>2. /\ l \in Seq(Task)
        /\ Len(l) = IF 1 <= i - 1 THEN (i - 1) - 1 + 1 ELSE 0
        /\ \A k \in 1..((i - 1) - 1 + 1) : l[k] = tasks[1 + k - 1]
    BY <2>1, SubSeqProperties
  <2> QED
    BY <1>1, <2>2
<1>3. r \in Seq(Task) /\ Len(r) = Len(tasks) - i /\ \A k \in 1..(Len(tasks) - i) : r[k] = tasks[i + k]
  <2>1. i + 1 \in Int /\ Len(tasks) \in Int /\ \A k \in (i + 1)..Len(tasks) : tasks[k] \in Task
    BY <1>1
  <2>2. /\ r \in Seq(Task)
        /\ Len(r) = IF i + 1 <= Len(tasks) THEN Len(tasks) - (i + 1) + 1 ELSE 0
        /\ \A k \in 1..(Len(tasks) - (i + 1) + 1) : r[k] = tasks[i + 1 + k - 1]
    BY <2>1, SubSeqProperties
  <2> QED
    BY <1>1, <2>2
<1>4. /\ l \o r \in Seq(Task)
      /\ Len(l \o r) = Len(l) + Len(r)
      /\ \A k \in 1..(Len(l) + Len(r)) : (l \o r)[k] = IF k <= Len(l) THEN l[k] ELSE r[k - Len(l)]
  BY <1>2, <1>3, ConcatProperties
<1>5. Erase(i) = l \o r
  BY DEF Erase, RemoveAt
<1> HIDE DEF l, r
<1>6. \A k \in 1..(Len(tasks) - 1) : (l \o r)[k] = tasks[IF k < i THEN k ELSE k + 1]
  <2> TAKE k \in 1..(Len(tasks) - 1)
  <2>1. CASE k < i
    <3>1. k \in 1..(Len(l) + Len(r)) /\ k <= Len(l) /\ k \in 1..(i - 1)
      BY <1>1, <1>2, <1>3, <2>1
    <3> QED
      BY <1>2, <1>4, <2>1, <3>1
  <2>2. CASE ~(k < i)
    <3>1. /\ k \in 1..(Len(l) + Len(r)) /\ ~(k <= Len(l))
          /\ k - Len(l) \in 1..(Len(tasks) - i) /\ i + (k - Len(l)) = k + 1
      BY <1>1, <1>2, <1>3, <2>2
    <3> QED
      BY <1>3, <1>4, <2>2, <3>1
  <2> QED
    BY <2>1, <2>2
<1>7. Len(Erase(i)) = Len(tasks) - 1
  BY <1>1, <1>2, <1>3, <1>4, <1>5
<1> QED
  BY <1>4, <1>5, <1>6, <1>7

\* push_back.
LEMMA PushTask ==
  ASSUME tasks \in Seq(Task), NEW x \in Task
  PROVE  /\ Append(tasks, x) \in Seq(Task)
         /\ Len(Append(tasks, x)) = Len(tasks) + 1
         /\ \A k \in 1..Len(tasks) : Append(tasks, x)[k] = tasks[k]
         /\ Append(tasks, x)[Len(tasks) + 1] = x
BY AppendProperties

TaskFor(f, isCb) == [fiber |-> f, cb |-> isCb, thread |-> Null]

Lists == {<<f>> : f \in UserFiber} \cup Pairs

\* What schedule(begin, end) is called with.
LEMMA ListParts ==
  ASSUME NEW fs \in Lists
  PROVE  /\ fs \in Seq(UserFiber)
         /\ Len(fs) \in {1, 2} /\ DOMAIN fs = 1..Len(fs)
         /\ \A k \in 1..Len(fs) : fs[k] \in UserFiber
         /\ \A j, k \in 1..Len(fs) : j # k => fs[j] # fs[k]
         /\ ToSet(fs) = {fs[k] : k \in 1..Len(fs)}
<1>1. /\ fs \in Seq(UserFiber)
      /\ Len(fs) \in {1, 2} /\ DOMAIN fs = 1..Len(fs)
      /\ \A k \in 1..Len(fs) : fs[k] \in UserFiber
      /\ \A j, k \in 1..Len(fs) : j # k => fs[j] # fs[k]
  <2>1. CASE fs \in Pairs
    <3>1. fs \in [1..2 -> UserFiber] /\ fs[1] # fs[2]
      <4>1. 1..2 = {1, 2}
        OBVIOUS
      <4> QED
        BY <2>1, <4>1 DEF Pairs
    <3>2. fs \in Seq(UserFiber)
      <4>1. \A n \in Nat : [1..n -> UserFiber] \subseteq Seq(UserFiber)
        BY SeqDef
      <4>2. 2 \in Nat
        OBVIOUS
      <4> QED
        BY <3>1, <4>1, <4>2, Zenon
    <3>3. DOMAIN fs = 1..2 /\ Len(fs) = 2
      BY <3>1, <3>2, LenProperties
    <3>4. fs[1] \in UserFiber /\ fs[2] \in UserFiber
      BY <3>1
    <3>5. \A k \in 1..2 : k = 1 \/ k = 2
      OBVIOUS
    <3> QED
      BY <3>1, <3>2, <3>3, <3>4, <3>5
  <2>2. ASSUME NEW f \in UserFiber, fs = <<f>>
        PROVE  fs \in Seq(UserFiber) /\ Len(fs) = 1 /\ DOMAIN fs = 1..1 /\ fs[1] = f
    BY <2>2
  <2> QED
    BY <2>1, <2>2 DEF Lists
<1>2. ToSet(fs) = {fs[k] : k \in 1..Len(fs)}
  BY <1>1 DEF ToSet
<1> QED
  BY <1>1, <1>2

\* The loop of schedule(begin, end).
LEMMA PushTasks ==
  ASSUME tasks \in Seq(Task), NEW fs \in Lists, NEW isCb \in BOOLEAN, PushAll(fs, isCb)
  PROVE  /\ tasks' \in Seq(Task)
         /\ Len(tasks') = Len(tasks) + Len(fs)
         /\ \A k \in 1..Len(tasks) : tasks'[k] = tasks[k]
         /\ \A k \in 1..Len(fs) : tasks'[Len(tasks) + k] = TaskFor(fs[k], isCb)
<1>1. /\ fs \in Seq(UserFiber)
      /\ Len(fs) \in {1, 2} /\ DOMAIN fs = 1..Len(fs)
      /\ \A k \in 1..Len(fs) : fs[k] \in UserFiber
  BY ListParts
<1> DEFINE new == [k \in 1..Len(fs) |-> TaskFor(fs[k], isCb)]
<1>2. new \in Seq(Task) /\ Len(new) = Len(fs) /\ \A k \in 1..Len(fs) : new[k] = TaskFor(fs[k], isCb)
  <2>1. \A k \in 1..Len(fs) : TaskFor(fs[k], isCb) \in Task
    BY <1>1 DEF TaskFor, Task
  <2>2. Len(fs) \in Nat
    BY <1>1
  <2>3. new \in [1..Len(fs) -> Task]
    BY <2>1
  <2>4. new \in Seq(Task)
    BY <2>2, <2>3, SeqDef
  <2> QED
    BY <2>2, <2>3, <2>4, LenProperties
<1>3. tasks' = tasks \o new
  BY <1>1 DEF PushAll, TaskFor
<1>4. Len(tasks) \in Nat
  BY LenProperties
<1>5. /\ tasks \o new \in Seq(Task)
      /\ Len(tasks \o new) = Len(tasks) + Len(new)
      /\ \A k \in 1..(Len(tasks) + Len(new)) :
           (tasks \o new)[k] = IF k <= Len(tasks) THEN tasks[k] ELSE new[k - Len(tasks)]
  BY <1>2, ConcatProperties
<1> HIDE DEF new
<1>7. \A k \in 1..Len(fs) : tasks'[Len(tasks) + k] = new[k]
  <2> TAKE k \in 1..Len(fs)
  <2>1. Len(tasks) + k \in 1..(Len(tasks) + Len(new)) /\ ~(Len(tasks) + k <= Len(tasks))
    BY <1>1, <1>2, <1>4
  <2>2. (Len(tasks) + k) - Len(tasks) = k
    BY <1>1, <1>4
  <2> QED
    BY <1>3, <1>5, <2>1, <2>2
<1>8. \A k \in 1..Len(tasks) : tasks'[k] = tasks[k]
  BY <1>1, <1>2, <1>3, <1>4, <1>5
<1> QED
  BY <1>1, <1>2, <1>3, <1>5, <1>7, <1>8

SwapFaults == {"nullContext", "staleContext"}

\* swapcontext() from the stack t is on to that of another object, where contexts are those
\* of the objects' own stacks.
LEMMA SwapEffect ==
  ASSUME ctx \in [FiberObj -> FiberObj \cup {Stale}],
         \A x \in FiberObj : ctx[x] \in {x, Stale},
         NEW t \in Thread, NEW save \in FiberObj \cup {Null}, NEW load \in FiberObj \cup {Null},
         save = Null \/ (cpu[t] = save /\ save # load),
         SwapContext(t, save, load)
  PROVE  /\ \/ failed' \in SwapFaults /\ UNCHANGED <<ctx, cpu>>
            \/ /\ save \in FiberObj /\ load \in FiberObj /\ ctx[load] = load
               /\ ctx' = [ctx EXCEPT ![save] = save, ![load] = Stale]
               /\ cpu' = [cpu EXCEPT ![t] = load]
               /\ UNCHANGED failed
         /\ save # Null /\ load # Null /\ ctx[load] = load => UNCHANGED failed
<1>1. CASE Null \in {save, load}
  BY <1>1 DEF SwapContext, Fault, SwapFaults
<1>2. CASE Null \notin {save, load}
  <2> DEFINE saved == [ctx EXCEPT ![save] = cpu[t]]
  <2>1. save \in FiberObj /\ load \in FiberObj /\ save # load /\ cpu[t] = save
    BY <1>2
  <2>2. saved = [ctx EXCEPT ![save] = save] /\ saved[load] = ctx[load]
    BY <2>1
  <2>3. CASE ctx[load] = Stale
    <3>1. Stale # load
      BY <2>1, Names
    <3> QED
      BY <1>2, <2>2, <2>3, <3>1 DEF SwapContext, Saved, Fault, SwapFaults
  <2>4. CASE ctx[load] # Stale
    <3>1. ctx[load] = load
      BY <2>1, <2>4
    <3>2. /\ ctx' = [x \in FiberObj |-> IF saved[x] = load THEN Stale ELSE saved[x]]
          /\ cpu' = [cpu EXCEPT ![t] = load]
          /\ UNCHANGED failed
      BY <1>2, <2>2, <2>4, <3>1 DEF SwapContext, Saved
    <3>3. \A x \in FiberObj : saved[x] = load <=> x = load
      BY <2>1, <2>2, <3>1, FiberAssumption DEF FiberObj
    <3>4. ctx' = [x \in FiberObj |-> IF x = load THEN Stale ELSE IF x = save THEN save ELSE ctx[x]]
      BY <2>1, <2>2, <3>2, <3>3
    <3>5. ctx' = [ctx EXCEPT ![save] = save, ![load] = Stale]
      BY <2>1, <3>4
    <3> QED
      BY <2>1, <3>1, <3>2, <3>5
  <2> QED
    BY <2>3, <2>4
<1> QED
  BY <1>1, <1>2

LEMMA BaseType ==
  ASSUME NEW t \in Thread
  PROVE  Base(t) \in FiberObj /\ Base(t) \notin UserFiber /\ Base(t) # Null
BY Names DEF Base

\* run() resumes the fiber f of the task it holds.
LEMMA EnterEffect ==
  ASSUME Inv, NEW t \in Thread, EnterFiber(t)
  PROVE  LET f == cur[t].fiber
         IN /\ pc[t] = "enter" /\ failed = "none" /\ f \in UserFiber
            /\ this' = [this EXCEPT ![t] = f]
            /\ state' = [state EXCEPT ![f] = "EXEC"]
            /\ pc' = [pc EXCEPT ![t] = "body"]
            /\ phase' = [phase EXCEPT ![f] = "body"] \/ UNCHANGED phase
            /\ UNCHANGED <<inSched, schedFiber, tasks, stopping, active, idle, pool, cur, idleDone, parked, history>>
            /\ \/ failed' \in SwapFaults \cup {"neverReach"} /\ UNCHANGED <<ctx, cpu>>
               \/ /\ failed' = "none" /\ ctx[f] = f
                  /\ ctx' = [ctx EXCEPT ![Base(t)] = Base(t), ![f] = Stale]
                  /\ cpu' = [cpu EXCEPT ![t] = f]
                  /\ phase[f] # "over" /\ phase' = [phase EXCEPT ![f] = "body"]
            /\ ctx[f] = f /\ phase[f] # "over" => failed' = "none"
<1> DEFINE f == cur[t].fiber
<1>1. pc[t] = "enter" /\ failed = "none" /\ Enter(t, f) /\ pc' = [pc EXCEPT ![t] = "body"]
      /\ UNCHANGED <<tasks, stopping, active, idle, pool, cur, idleDone, parked, history>>
  BY DEF EnterFiber, At, Goto
<1>2. pc[t] \in HoldPlaces /\ pc[t] \in RunPlaces /\ pc[t] \notin Deep
  BY <1>1 DEF HoldPlaces, RunPlaces, Deep
<1>3. cur[t] # NoTask /\ cur[t] \in Task \cup {NoTask}
  BY <1>2 DEF Inv, Holding, TypeOK
<1>4. f \in UserFiber
  BY <1>3, Names
<1>5. inSched[f] /\ schedFiber[t] = Base(t) /\ cpu[t] = Base(t)
  <2>1. state[f] # "absent"
    BY <1>1, <1>2 DEF Inv, Exists, HeldExist
  <2>2. inSched[f]
    BY <1>4, <2>1 DEF Inv, Exists, HeldExist
  <2> QED
    BY <1>1, <1>2, <2>2 DEF Inv, Schedulers, Stacks, Running
<1>6. /\ this' = [this EXCEPT ![t] = f]
      /\ state' = [state EXCEPT ![f] = "EXEC"]
      /\ UNCHANGED <<inSched, schedFiber>>
  BY <1>1 DEF Enter, SetThis
<1>7. CASE phase[f] = "over"
  BY <1>1, <1>4, <1>6, <1>7 DEF Enter, Fault
<1>8. CASE phase[f] # "over"
  <2>1. phase' = [phase EXCEPT ![f] = "body"] /\ SwapContext(t, Base(t), f)
    BY <1>1, <1>5, <1>8 DEF Enter, Home
  <2>2. /\ ctx \in [FiberObj -> FiberObj \cup {Stale}]
        /\ \A x \in FiberObj : ctx[x] \in {x, Stale}
    BY <1>1 DEF Inv, TypeOK, FiberTypeOK, Stacks, Running
  <2>3. f \in FiberObj /\ Base(t) \in FiberObj /\ Base(t) # f
    BY <1>4, Names, BaseType
  <2>4. /\ \/ failed' \in SwapFaults /\ UNCHANGED <<ctx, cpu>>
           \/ /\ ctx[f] = f
              /\ ctx' = [ctx EXCEPT ![Base(t)] = Base(t), ![f] = Stale]
              /\ cpu' = [cpu EXCEPT ![t] = f]
              /\ UNCHANGED failed
        /\ ctx[f] = f => UNCHANGED failed
    BY <1>5, <2>1, <2>2, <2>3, SwapEffect, Names
  <2> HIDE DEF f
  <2> QED
    BY <1>1, <1>4, <1>6, <1>8, <2>1, <2>4 DEF f
<1> QED
  BY <1>7, <1>8

\* yield() of the fiber t is on goes back to run().
LEMMA SwapOutEffect ==
  ASSUME Inv, NEW t \in Thread, failed = "none", pc[t] \in Deep, SwapOut(t, cpu[t])
  PROVE  /\ cpu[t] = cur[t].fiber /\ cpu[t] \in UserFiber
         /\ \/ failed' \in SwapFaults /\ UNCHANGED <<ctx, cpu>>
            \/ /\ failed' = "none" /\ ctx[Base(t)] = Base(t)
               /\ ctx' = [ctx EXCEPT ![cpu[t]] = cpu[t], ![Base(t)] = Stale]
               /\ cpu' = [cpu EXCEPT ![t] = Base(t)]
         /\ ctx[Base(t)] = Base(t) => failed' = "none"
<1> DEFINE f == cpu[t]
<1>1. pc[t] \in HoldPlaces /\ pc[t] \in RunPlaces /\ pc[t] # "resume"
  BY DEF HoldPlaces, RunPlaces, Deep
<1>2. f = cur[t].fiber
  BY DEF Inv, Stacks, Running
<1>3. cur[t] # NoTask /\ cur[t] \in Task \cup {NoTask}
  BY <1>1 DEF Inv, Holding, TypeOK
<1>4. f \in UserFiber
  BY <1>2, <1>3, Names
<1>5. inSched[f] /\ schedFiber[t] = Base(t)
  BY <1>1, <1>2, <1>4 DEF Inv, Exists, HeldExist, Schedulers
<1>6. SwapContext(t, f, Base(t))
  BY <1>5 DEF SwapOut, Home
<1>7. /\ ctx \in [FiberObj -> FiberObj \cup {Stale}]
      /\ \A x \in FiberObj : ctx[x] \in {x, Stale}
  BY DEF Inv, TypeOK, FiberTypeOK, Stacks, Running
<1>8. f \in FiberObj /\ Base(t) \in FiberObj /\ Base(t) # f
  BY <1>4, Names, BaseType
<1>9. /\ \/ failed' \in SwapFaults /\ UNCHANGED <<ctx, cpu>>
         \/ /\ ctx[Base(t)] = Base(t)
            /\ ctx' = [ctx EXCEPT ![f] = f, ![Base(t)] = Stale]
            /\ cpu' = [cpu EXCEPT ![t] = Base(t)]
            /\ UNCHANGED failed
      /\ ctx[Base(t)] = Base(t) => UNCHANGED failed
  BY <1>6, <1>7, <1>8, SwapEffect, Names
<1> QED
  BY <1>2, <1>4, <1>9

\* A task's callback returns.
LEMMA ReturnEffect ==
  ASSUME Inv, NEW t \in Thread, Return(t)
  PROVE  LET f == cur[t].fiber
         IN /\ pc[t] = "body" /\ failed = "none" /\ f \in UserFiber /\ cpu[t] = f
            /\ this' = [this EXCEPT ![t] = ThreadFiber(t)]
            /\ state' = [state EXCEPT ![f] = "TERM"]
            /\ phase' = [phase EXCEPT ![f] = "over"]
            /\ pc' = [pc EXCEPT ![t] = "after"]
            /\ UNCHANGED <<inSched, schedFiber, tasks, stopping, active, idle, pool, cur, idleDone, parked, history>>
            /\ \/ failed' \in SwapFaults /\ UNCHANGED <<ctx, cpu>>
               \/ /\ failed' = "none" /\ ctx[Base(t)] = Base(t)
                  /\ ctx' = [ctx EXCEPT ![f] = f, ![Base(t)] = Stale]
                  /\ cpu' = [cpu EXCEPT ![t] = Base(t)]
            /\ ctx[Base(t)] = Base(t) => failed' = "none"
<1> DEFINE f == cur[t].fiber
<1>1. pc[t] = "body" /\ failed = "none" /\ FinishBody(t, this[t]) /\ pc' = [pc EXCEPT ![t] = "after"]
      /\ UNCHANGED <<tasks, stopping, active, idle, pool, cur, idleDone, parked, history>>
  BY DEF Return, At, Goto
<1>2. pc[t] \in Deep
  BY <1>1 DEF Deep
<1>3. this[t] = f /\ cpu[t] = f
  BY <1>1, <1>2 DEF Inv, Stacks, Running
<1>4. /\ this' = [this EXCEPT ![t] = ThreadFiber(t)]
      /\ state' = [state EXCEPT ![f] = "TERM"]
      /\ phase' = [phase EXCEPT ![f] = "over"]
      /\ UNCHANGED <<inSched, schedFiber>>
      /\ SwapOut(t, cpu[t])
  BY <1>1, <1>3 DEF FinishBody, SetThis, Ended
<1> QED
  BY <1>1, <1>2, <1>3, <1>4, SwapOutEffect

\* The suspended half of yield().
LEMMA YieldSwapEffect ==
  ASSUME Inv, NEW t \in Thread, YieldSwap(t)
  PROVE  LET f == cur[t].fiber
         IN /\ pc[t] = "marked" /\ failed = "none" /\ f \in UserFiber /\ cpu[t] = f
            /\ pc' = [pc EXCEPT ![t] = "after"]
            /\ UNCHANGED <<state, phase, this, inSched, schedFiber>>
            /\ UNCHANGED <<tasks, stopping, active, idle, pool, cur, idleDone, parked, history>>
            /\ \/ failed' \in SwapFaults /\ UNCHANGED <<ctx, cpu>>
               \/ /\ failed' = "none" /\ ctx[Base(t)] = Base(t)
                  /\ ctx' = [ctx EXCEPT ![f] = f, ![Base(t)] = Stale]
                  /\ cpu' = [cpu EXCEPT ![t] = Base(t)]
            /\ ctx[Base(t)] = Base(t) => failed' = "none"
<1>1. pc[t] = "marked" /\ failed = "none" /\ SwapOut(t, cpu[t]) /\ pc[t] \in Deep
  BY DEF YieldSwap, At, Deep
<1> QED
  BY <1>1, SwapOutEffect DEF YieldSwap, Goto

\* stop() sets m_stopping, and resumes the root fiber if there is one.
LEMMA StopSetEffect ==
  ASSUME Inv, StopSet
  PROVE  /\ pc[Caller] = "stopSet" /\ failed = "none" /\ stopping' = TRUE
         /\ UNCHANGED <<inSched, schedFiber, tasks, active, idle, pool, cur, idleDone, parked, history>>
         /\ \/ ~UseCaller /\ pc' = [pc EXCEPT ![Caller] = "join"] /\ UNCHANGED fiberVars
            \/ UseCaller /\ failed' = "resumeState" /\ UNCHANGED <<state, phase, ctx, cpu, this, pc>>
               /\ state[Root] \in {"TERM", "EXEC"}
            \/ /\ UseCaller /\ state[Root] \notin {"TERM", "EXEC"}
               /\ pc' = [pc EXCEPT ![Caller] = "loop"]
               /\ this' = [this EXCEPT ![Caller] = Root]
               /\ state' = [state EXCEPT ![Root] = "EXEC"]
               /\ phase' = [phase EXCEPT ![Root] = "body"] \/ UNCHANGED phase
               /\ \/ failed' \in SwapFaults \cup {"neverReach"} /\ UNCHANGED <<ctx, cpu>>
                  \/ /\ failed' = "none" /\ ctx[Root] = Root
                     /\ ctx' = [ctx EXCEPT ![Caller] = Caller, ![Root] = Stale]
                     /\ cpu' = [cpu EXCEPT ![Caller] = Root]
               /\ state[Caller] = "EXEC" /\ ctx[Root] = Root /\ phase[Root] # "over" => failed' = "none"
<1>1. pc[Caller] = "stopSet" /\ failed = "none" /\ stopping' = TRUE
      /\ UNCHANGED <<tasks, active, idle, pool, cur, idleDone, parked, history>>
  BY DEF StopSet, At
<1>2. CASE ~UseCaller
  BY <1>1, <1>2 DEF StopSet, Goto, fiberVars
<1>3. CASE UseCaller /\ ~MayResume(Root)
  BY <1>1, <1>3 DEF StopSet, MayResume, Fault
<1>4. CASE UseCaller /\ MayResume(Root)
  <2>1. Enter(Caller, Root) /\ pc' = [pc EXCEPT ![Caller] = "loop"]
    BY <1>4 DEF StopSet, Goto
  <2>2. /\ this' = [this EXCEPT ![Caller] = Root]
        /\ state' = [state EXCEPT ![Root] = "EXEC"]
        /\ UNCHANGED <<inSched, schedFiber>>
    BY <2>1 DEF Enter, SetThis
  <2>3. CASE phase[Root] = "over"
    BY <1>1, <1>4, <2>1, <2>2, <2>3 DEF Enter, Fault, MayResume
  <2>4. CASE phase[Root] # "over"
    <3>1. phase' = [phase EXCEPT ![Root] = "body"] /\ SwapContext(Caller, ThreadFiber(Caller), Root)
      BY <2>1, <2>4 DEF Enter, Home, Inv, Exists
    <3>2. /\ ctx \in [FiberObj -> FiberObj \cup {Stale}]
          /\ \A x \in FiberObj : ctx[x] \in {x, Stale}
          /\ cpu[Caller] = Caller
      BY <1>1, Names DEF Inv, TypeOK, FiberTypeOK, Stacks, Running, Base, RunPlaces, HoldPlaces, Deep
    <3>3. /\ ThreadFiber(Caller) \in {Null, Caller} /\ Caller # Root
          /\ state[Caller] = "EXEC" => ThreadFiber(Caller) # Null
      BY Names DEF ThreadFiber
    <3>4. /\ \/ failed' \in SwapFaults /\ UNCHANGED <<ctx, cpu>>
             \/ /\ ThreadFiber(Caller) \in FiberObj /\ ctx[Root] = Root
                /\ ctx' = [ctx EXCEPT ![ThreadFiber(Caller)] = ThreadFiber(Caller), ![Root] = Stale]
                /\ cpu' = [cpu EXCEPT ![Caller] = Root]
                /\ UNCHANGED failed
          /\ ThreadFiber(Caller) # Null /\ ctx[Root] = Root => UNCHANGED failed
      BY <3>1, <3>2, <3>3, SwapEffect, Names
    <3>5. /\ \/ failed' \in SwapFaults /\ UNCHANGED <<ctx, cpu>>
             \/ /\ ctx[Root] = Root
                /\ ctx' = [ctx EXCEPT ![Caller] = Caller, ![Root] = Stale]
                /\ cpu' = [cpu EXCEPT ![Caller] = Root]
                /\ UNCHANGED failed
          /\ state[Caller] = "EXEC" /\ ctx[Root] = Root => UNCHANGED failed
      BY <3>3, <3>4, Names
    <3> QED
      BY <1>1, <1>4, <2>1, <2>2, <3>1, <3>5 DEF MayResume
  <2> QED
    BY <2>3, <2>4
<1> QED
  BY <1>2, <1>3, <1>4

\* The root fiber ends, and stop() goes on.
LEMMA RootReturnsEffect ==
  ASSUME Inv, RunReturns(Caller)
  PROVE  /\ pc[Caller] = "loop" /\ failed = "none" /\ idleDone[Caller] /\ EligibleAt(Caller) = {}
         /\ pc' = [pc EXCEPT ![Caller] = "join"]
         /\ this' = [this EXCEPT ![Caller] = ThreadFiber(Caller)]
         /\ state' = [state EXCEPT ![Root] = "TERM"]
         /\ phase' = [phase EXCEPT ![Root] = "over"]
         /\ UNCHANGED <<inSched, schedFiber, tasks, stopping, active, idle, pool, cur, idleDone, parked, history>>
         /\ \/ failed' \in SwapFaults /\ UNCHANGED <<ctx, cpu>>
            \/ /\ failed' = "none" /\ ctx[Caller] = Caller
               /\ ctx' = [ctx EXCEPT ![Root] = Root, ![Caller] = Stale]
               /\ cpu' = [cpu EXCEPT ![Caller] = Caller]
         /\ state[Caller] = "EXEC" /\ ctx[Caller] = Caller => failed' = "none"
<1>1. /\ pc[Caller] = "loop" /\ failed = "none" /\ idleDone[Caller] /\ EligibleAt(Caller) = {}
      /\ pc' = [pc EXCEPT ![Caller] = "join"] /\ FinishBody(Caller, Root)
      /\ UNCHANGED <<tasks, stopping, active, idle, pool, cur, idleDone, parked, history>>
  BY DEF RunReturns, At, Goto
<1>2. /\ this' = [this EXCEPT ![Caller] = ThreadFiber(Caller)]
      /\ state' = [state EXCEPT ![Root] = "TERM"]
      /\ phase' = [phase EXCEPT ![Root] = "over"]
      /\ UNCHANGED <<inSched, schedFiber>>
      /\ SwapContext(Caller, Root, ThreadFiber(Caller))
  BY <1>1 DEF FinishBody, SetThis, Ended, SwapOut, Home, Inv, Exists
<1>3. /\ ctx \in [FiberObj -> FiberObj \cup {Stale}]
      /\ \A x \in FiberObj : ctx[x] \in {x, Stale}
      /\ cpu[Caller] = Root
  BY <1>1, Names DEF Inv, TypeOK, FiberTypeOK, Stacks, Running, Base, RunPlaces, HoldPlaces, Deep
<1>4. /\ ThreadFiber(Caller) \in {Null, Caller} /\ Caller # Root
      /\ state[Caller] = "EXEC" => ThreadFiber(Caller) = Caller
  BY Names DEF ThreadFiber
<1>5. /\ \/ failed' \in SwapFaults /\ UNCHANGED <<ctx, cpu>>
         \/ /\ ThreadFiber(Caller) \in FiberObj /\ ctx[ThreadFiber(Caller)] = ThreadFiber(Caller)
            /\ ctx' = [ctx EXCEPT ![Root] = Root, ![ThreadFiber(Caller)] = Stale]
            /\ cpu' = [cpu EXCEPT ![Caller] = ThreadFiber(Caller)]
            /\ UNCHANGED failed
      /\ ThreadFiber(Caller) # Null /\ ctx[ThreadFiber(Caller)] = ThreadFiber(Caller) => UNCHANGED failed
  BY <1>2, <1>3, <1>4, SwapEffect, Names
<1> QED
  BY <1>1, <1>2, <1>4, <1>5, Names

-----------------------------------------------------------------------------
(* The invariant.                                                          *)

\* What a step is.
LEMMA StepCases ==
  ASSUME [Next]_vars
  PROVE  \/ \E t \in Thread :
              \/ Boot(t) \/ Take(t) \/ TakeNothing(t) \/ Idle(t) \/ RunReturns(t)
              \/ Resume(t) \/ EnterFiber(t) \/ After(t) \/ YieldMark(t) \/ YieldSwap(t)
              \/ Return(t) \/ Throw(t) \/ Park(t)
              \/ \E thread \in {t, Null} : Requeue(t, thread)
              \/ \E fs \in Lists : Wake(t, fs)
              \/ \E fs \in Pairs : ScheduleAll(t, fs)
              \/ \E f \in UserFiber, isCb \in BOOLEAN, pin \in Pins : Schedule(t, f, isCb, pin)
         \/ StartNothing \/ StartThreads \/ StopCheck \/ StopSet \/ Join \/ Destruct
         \/ UNCHANGED vars
<1>1. ASSUME NEW t \in Thread, TaskStep(t)
      PROVE  \/ Return(t) \/ Throw(t) \/ Park(t)
             \/ \E thread \in {t, Null} : Requeue(t, thread)
             \/ \E fs \in Lists : Wake(t, fs)
             \/ \E fs \in Pairs : ScheduleAll(t, fs)
             \/ \E f \in UserFiber, isCb \in BOOLEAN, pin \in Pins : Schedule(t, f, isCb, pin)
  BY <1>1, Zenon DEF TaskStep, Lists
<1> QED
  BY <1>1 DEF Next, RunStep, ClientStep, StopStep, Over

\* No step takes a thread where it cannot be.
LEMMA WhereaboutsKept ==
  ASSUME Inv, [Next]_vars
  PROVE  Whereabouts'
<1>0. Whereabouts /\ pc \in [Thread -> Places] /\ Caller \in Thread /\ Caller \notin Worker /\ Worker \subseteq Thread
  BY Names DEF Inv, TypeOK, Worker
<1>1. ASSUME NEW t \in Thread, Boot(t) PROVE Whereabouts'
  BY <1>0, <1>1, Names DEF Boot, At, Goto, Whereabouts, RunPlaces, HoldPlaces, Deep, Places
<1>2. ASSUME NEW t \in Thread, Take(t) PROVE Whereabouts'
  BY <1>0, <1>2, Names DEF Take, At, Goto, Whereabouts, RunPlaces, HoldPlaces, Deep, Places
<1>3. ASSUME NEW t \in Thread, TakeNothing(t) PROVE Whereabouts'
  BY <1>0, <1>3, Names DEF TakeNothing, At, Goto, Whereabouts, RunPlaces, HoldPlaces, Deep, Places
<1>4. ASSUME NEW t \in Thread, Idle(t) PROVE Whereabouts'
  BY <1>0, <1>4, Names DEF Idle, At, Goto, Whereabouts, RunPlaces, HoldPlaces, Deep, Places
<1>5. ASSUME NEW t \in Thread, RunReturns(t) PROVE Whereabouts'
  BY <1>0, <1>5, Names DEF RunReturns, At, Goto, Whereabouts, RunPlaces, HoldPlaces, Deep, Places
<1>6. ASSUME NEW t \in Thread, Resume(t) PROVE Whereabouts'
  BY <1>0, <1>6, Names DEF Resume, At, Goto, Whereabouts, RunPlaces, HoldPlaces, Deep, Places
<1>7. ASSUME NEW t \in Thread, EnterFiber(t) PROVE Whereabouts'
  BY <1>0, <1>7, Names DEF EnterFiber, At, Goto, Whereabouts, RunPlaces, HoldPlaces, Deep, Places
<1>8. ASSUME NEW t \in Thread, After(t) PROVE Whereabouts'
  BY <1>0, <1>8, Names DEF After, At, Goto, Whereabouts, RunPlaces, HoldPlaces, Deep, Places
<1>9. ASSUME NEW t \in Thread, YieldMark(t) PROVE Whereabouts'
  BY <1>0, <1>9, Names DEF YieldMark, At, Goto, Whereabouts, RunPlaces, HoldPlaces, Deep, Places
<1>10. ASSUME NEW t \in Thread, YieldSwap(t) PROVE Whereabouts'
  BY <1>0, <1>10, Names DEF YieldSwap, At, Goto, Whereabouts, RunPlaces, HoldPlaces, Deep, Places
<1>11. ASSUME NEW t \in Thread, Return(t) PROVE Whereabouts'
  BY <1>0, <1>11, Names DEF Return, At, Goto, Whereabouts, RunPlaces, HoldPlaces, Deep, Places
<1>12. ASSUME NEW t \in Thread, Throw(t) PROVE Whereabouts'
  BY <1>0, <1>12, Names DEF Throw, At, Goto, Whereabouts, RunPlaces, HoldPlaces, Deep, Places
<1>13. ASSUME NEW t \in Thread, Park(t) PROVE Whereabouts'
  BY <1>0, <1>13, Names DEF Park, At, Goto, Whereabouts, RunPlaces, HoldPlaces, Deep, Places
<1>14. ASSUME NEW t \in Thread, NEW thread \in {t, Null}, Requeue(t, thread) PROVE Whereabouts'
  BY <1>0, <1>14, Names DEF Requeue, At, Goto, Whereabouts, RunPlaces, HoldPlaces, Deep, Places
<1>15. ASSUME NEW t \in Thread, NEW fs \in Lists, Wake(t, fs) PROVE Whereabouts'
  BY <1>0, <1>15, Names DEF Wake, At, Goto, Whereabouts, RunPlaces, HoldPlaces, Deep, Places
<1>16. ASSUME NEW t \in Thread, NEW fs \in Pairs, ScheduleAll(t, fs) PROVE Whereabouts'
  BY <1>0, <1>16, Names DEF ScheduleAll, At, Goto, Whereabouts, RunPlaces, HoldPlaces, Deep, Places
<1>17. ASSUME NEW t \in Thread, NEW f \in UserFiber, NEW isCb \in BOOLEAN, NEW pin \in Pins,
            Schedule(t, f, isCb, pin)
     PROVE  Whereabouts'
  BY <1>0, <1>17, Names DEF Schedule, At, Goto, Whereabouts, RunPlaces, HoldPlaces, Deep, Places
<1>18. CASE StartNothing
  BY <1>0, <1>18 DEF StartNothing, schedVars, Whereabouts, RunPlaces, HoldPlaces, Deep, Places
<1>19. CASE StartThreads
  BY <1>0, <1>19, Names DEF StartThreads, At, Goto, Whereabouts, RunPlaces, HoldPlaces, Deep, Places
<1>20. CASE StopCheck
  BY <1>0, <1>20, Names DEF StopCheck, At, Goto, Whereabouts, RunPlaces, HoldPlaces, Deep, Places
<1>21. CASE StopSet
  BY <1>0, <1>21, Names DEF StopSet, At, Goto, Whereabouts, RunPlaces, HoldPlaces, Deep, Places
<1>22. CASE Join
  BY <1>0, <1>22, Names DEF Join, At, Goto, Whereabouts, RunPlaces, HoldPlaces, Deep, Places
<1>23. CASE Destruct
  BY <1>0, <1>23, Names DEF Destruct, At, Goto, Whereabouts, RunPlaces, HoldPlaces, Deep, Places
<1>24. CASE UNCHANGED vars
  BY <1>0, <1>24 DEF vars, schedVars, fiberVars, Whereabouts, RunPlaces, HoldPlaces, Deep, Places
<1> QED
  BY <1>1, <1>2, <1>3, <1>4, <1>5, <1>6, <1>7, <1>8, <1>9, <1>10, <1>11, <1>12, <1>13, <1>14, <1>15, <1>16, <1>17, <1>18, <1>19, <1>20, <1>21, <1>22, <1>23, <1>24, StepCases

\* A thread takes hold of a task and lets go of it where run() does.
LEMMA HoldingKept ==
  ASSUME Inv, [Next]_vars
  PROVE  Holding'
<1>0. /\ Holding /\ pc \in [Thread -> Places] /\ cur \in [Thread -> Task \cup {NoTask}] /\ NoTask \notin Task
      /\ \A i \in 1..Len(tasks) : tasks[i] \in Task
      /\ \A w \in Worker : w \in Thread
  BY Names, ElementOfSeq DEF Inv, TypeOK, Worker
<1>1. ASSUME NEW t \in Thread, Boot(t) PROVE Holding'
  BY <1>0, <1>1, Names DEF Boot, At, Goto, Holding, HoldPlaces, Deep, Places
<1>2. ASSUME NEW t \in Thread, Take(t) PROVE Holding'
  BY <1>0, <1>2 DEF Take, At, Goto, EligibleAt, Holding, HoldPlaces, Deep, Places
<1>3. ASSUME NEW t \in Thread, TakeNothing(t) PROVE Holding'
  BY <1>0, <1>3, Names DEF TakeNothing, At, Goto, Holding, HoldPlaces, Deep, Places
<1>4. ASSUME NEW t \in Thread, Idle(t) PROVE Holding'
  BY <1>0, <1>4, Names DEF Idle, At, Goto, Holding, HoldPlaces, Deep, Places
<1>5. ASSUME NEW t \in Thread, RunReturns(t) PROVE Holding'
  BY <1>0, <1>5, Names DEF RunReturns, At, Goto, Holding, HoldPlaces, Deep, Places
<1>6. ASSUME NEW t \in Thread, Resume(t) PROVE Holding'
  BY <1>0, <1>6, Names DEF Resume, At, Goto, Holding, HoldPlaces, Deep, Places
<1>7. ASSUME NEW t \in Thread, EnterFiber(t) PROVE Holding'
  BY <1>0, <1>7, Names DEF EnterFiber, At, Goto, Holding, HoldPlaces, Deep, Places
<1>8. ASSUME NEW t \in Thread, After(t) PROVE Holding'
  BY <1>0, <1>8, Names DEF After, At, Goto, Holding, HoldPlaces, Deep, Places
<1>9. ASSUME NEW t \in Thread, YieldMark(t) PROVE Holding'
  BY <1>0, <1>9, Names DEF YieldMark, At, Goto, Holding, HoldPlaces, Deep, Places
<1>10. ASSUME NEW t \in Thread, YieldSwap(t) PROVE Holding'
  BY <1>0, <1>10, Names DEF YieldSwap, At, Goto, Holding, HoldPlaces, Deep, Places
<1>11. ASSUME NEW t \in Thread, Return(t) PROVE Holding'
  BY <1>0, <1>11, Names DEF Return, At, Goto, Holding, HoldPlaces, Deep, Places
<1>12. ASSUME NEW t \in Thread, Throw(t) PROVE Holding'
  BY <1>0, <1>12, Names DEF Throw, At, Goto, Holding, HoldPlaces, Deep, Places
<1>13. ASSUME NEW t \in Thread, Park(t) PROVE Holding'
  BY <1>0, <1>13, Names DEF Park, At, Goto, Holding, HoldPlaces, Deep, Places
<1>14. ASSUME NEW t \in Thread, NEW thread \in {t, Null}, Requeue(t, thread) PROVE Holding'
  BY <1>0, <1>14, Names DEF Requeue, At, Goto, Holding, HoldPlaces, Deep, Places
<1>15. ASSUME NEW t \in Thread, NEW fs \in Lists, Wake(t, fs) PROVE Holding'
  BY <1>0, <1>15, Names DEF Wake, At, Goto, Holding, HoldPlaces, Deep, Places
<1>16. ASSUME NEW t \in Thread, NEW fs \in Pairs, ScheduleAll(t, fs) PROVE Holding'
  BY <1>0, <1>16, Names DEF ScheduleAll, At, Goto, Holding, HoldPlaces, Deep, Places
<1>17. ASSUME NEW t \in Thread, NEW f \in UserFiber, NEW isCb \in BOOLEAN, NEW pin \in Pins,
            Schedule(t, f, isCb, pin)
     PROVE  Holding'
  BY <1>0, <1>17, Names DEF Schedule, At, Goto, Holding, HoldPlaces, Deep, Places
<1>18. CASE StartNothing
  BY <1>0, <1>18 DEF StartNothing, schedVars, Holding, HoldPlaces, Deep, Places
<1>19. CASE StartThreads
  BY <1>0, <1>19, Names DEF StartThreads, At, Goto, Holding, HoldPlaces, Deep, Places
<1>20. CASE StopCheck
  BY <1>0, <1>20, Names DEF StopCheck, At, Goto, Holding, HoldPlaces, Deep, Places
<1>21. CASE StopSet
  BY <1>0, <1>21, Names DEF StopSet, At, Goto, Holding, HoldPlaces, Deep, Places
<1>22. CASE Join
  BY <1>0, <1>22, Names DEF Join, At, Goto, Holding, HoldPlaces, Deep, Places
<1>23. CASE Destruct
  BY <1>0, <1>23, Names DEF Destruct, At, Goto, Holding, HoldPlaces, Deep, Places
<1>24. CASE UNCHANGED vars
  BY <1>24 DEF vars, schedVars, Inv, Holding
<1> QED
  BY <1>1, <1>2, <1>3, <1>4, <1>5, <1>6, <1>7, <1>8, <1>9, <1>10, <1>11, <1>12, <1>13, <1>14, <1>15, <1>16, <1>17, <1>18, <1>19, <1>20, <1>21, <1>22, <1>23, <1>24, StepCases

\* A thread that enters run() sets t_scheduler_fiber first.
LEMMA SchedulersKept ==
  ASSUME Inv, [Next]_vars
  PROVE  Schedulers'
<1>0. /\ ActiveCountsHolders /\ Schedulers /\ pc \in [Thread -> Places] /\ schedFiber \in [Thread -> FiberObj \cup {Null}]
      /\ Caller \in Thread /\ Whereabouts
      /\ \A w \in Worker : w \in Thread /\ w # Caller
  BY Names DEF Inv, TypeOK, FiberTypeOK, Worker
<1>1. ASSUME NEW t \in Thread, Boot(t) PROVE Schedulers'
  BY <1>0, <1>1, Names DEF Boot, At, Goto, Schedulers, Base, Whereabouts, HoldPlaces, RunPlaces, Deep, Places
<1>2. ASSUME NEW t \in Thread, Take(t) PROVE Schedulers'
  BY <1>0, <1>2, Names DEF Take, At, Goto, fiberVars, Schedulers, Base, HoldPlaces, RunPlaces, Deep, Places
<1>3. ASSUME NEW t \in Thread, TakeNothing(t) PROVE Schedulers'
  BY <1>0, <1>3, Names DEF TakeNothing, At, Goto, fiberVars, Schedulers, Base, HoldPlaces, RunPlaces, Deep, Places
<1>4. ASSUME NEW t \in Thread, Idle(t) PROVE Schedulers'
  BY <1>0, <1>4, Names DEF Idle, At, Goto, fiberVars, Schedulers, Base, HoldPlaces, RunPlaces, Deep, Places
<1>5. ASSUME NEW t \in Thread, RunReturns(t) PROVE Schedulers'
  BY <1>0, <1>5, Names DEF RunReturns, FinishBody, At, Goto, Schedulers, Base, HoldPlaces, RunPlaces, Deep, Places
<1>6. ASSUME NEW t \in Thread, Resume(t) PROVE Schedulers'
  BY <1>0, <1>6, Names DEF Resume, At, Goto, fiberVars, Schedulers, Base, HoldPlaces, RunPlaces, Deep, Places
<1>7. ASSUME NEW t \in Thread, EnterFiber(t) PROVE Schedulers'
  BY <1>0, <1>7, EnterEffect, Names DEF Schedulers, Base, HoldPlaces, RunPlaces, Deep, Places
<1>8. ASSUME NEW t \in Thread, After(t) PROVE Schedulers'
  BY <1>0, <1>8, Names DEF After, At, Goto, fiberVars, Schedulers, Base, HoldPlaces, RunPlaces, Deep, Places
<1>9. ASSUME NEW t \in Thread, YieldMark(t) PROVE Schedulers'
  BY <1>0, <1>9, Names DEF YieldMark, At, Goto, fiberVars, Schedulers, Base, HoldPlaces, RunPlaces, Deep, Places
<1>10. ASSUME NEW t \in Thread, YieldSwap(t) PROVE Schedulers'
  BY <1>0, <1>10, YieldSwapEffect, Names DEF Schedulers, Base, HoldPlaces, RunPlaces, Deep, Places
<1>11. ASSUME NEW t \in Thread, Return(t) PROVE Schedulers'
  BY <1>0, <1>11, ReturnEffect, Names DEF Schedulers, Base, HoldPlaces, RunPlaces, Deep, Places
<1>12. ASSUME NEW t \in Thread, Throw(t) PROVE Schedulers'
  BY <1>0, <1>12, Names DEF Throw, At, Goto, fiberVars, Schedulers, Base, HoldPlaces, RunPlaces, Deep, Places
<1>13. ASSUME NEW t \in Thread, Park(t) PROVE Schedulers'
  BY <1>0, <1>13, Names DEF Park, At, Goto, fiberVars, Schedulers, Base, HoldPlaces, RunPlaces, Deep, Places
<1>14. ASSUME NEW t \in Thread, NEW thread \in {t, Null}, Requeue(t, thread) PROVE Schedulers'
  BY <1>0, <1>14, Names DEF Requeue, At, Goto, fiberVars, Schedulers, Base, HoldPlaces, RunPlaces, Deep, Places
<1>15. ASSUME NEW t \in Thread, NEW fs \in Lists, Wake(t, fs) PROVE Schedulers'
  BY <1>0, <1>15, Names DEF Wake, At, Goto, fiberVars, Schedulers, Base, HoldPlaces, RunPlaces, Deep, Places
<1>16. ASSUME NEW t \in Thread, NEW fs \in Pairs, ScheduleAll(t, fs) PROVE Schedulers'
  BY <1>0, <1>16, Names DEF ScheduleAll, At, Goto, fiberVars, Schedulers, Base, HoldPlaces, RunPlaces, Deep, Places
<1>17. ASSUME NEW t \in Thread, NEW f \in UserFiber, NEW isCb \in BOOLEAN, NEW pin \in Pins,
            Schedule(t, f, isCb, pin)
     PROVE  Schedulers'
  BY <1>0, <1>17, Names DEF Schedule, At, Goto, fiberVars, Schedulers, Base, HoldPlaces, RunPlaces, Deep, Places
<1>18. CASE StartNothing
  BY <1>0, <1>18 DEF StartNothing, schedVars, fiberVars, Schedulers, Base, HoldPlaces, RunPlaces, Deep, Places
<1>19. CASE StartThreads
  BY <1>0, <1>19, Names DEF StartThreads, At, Goto, fiberVars, Schedulers, Base, HoldPlaces, RunPlaces, Deep, Places
<1>20. CASE StopCheck
  BY <1>0, <1>20, Names DEF StopCheck, At, Goto, fiberVars, Schedulers, Base, HoldPlaces, RunPlaces, Deep, Places
<1>21. CASE StopSet
  BY <1>0, <1>21, StopSetEffect, Names DEF Schedulers, Base, HoldPlaces, RunPlaces, Deep, Places
<1>22. CASE Join
  BY <1>0, <1>22, Names DEF Join, At, Goto, fiberVars, Schedulers, Base, HoldPlaces, RunPlaces, Deep, Places
<1>23. CASE Destruct
  BY <1>0, <1>23, Names DEF Destruct, At, Goto, fiberVars, Schedulers, Base, HoldPlaces, RunPlaces, Deep, Places
<1>24. CASE UNCHANGED vars
  BY <1>24 DEF vars, schedVars, fiberVars, Inv, Schedulers, Base
<1> QED
  BY <1>1, <1>2, <1>3, <1>4, <1>5, <1>6, <1>7, <1>8, <1>9, <1>10, <1>11, <1>12, <1>13, <1>14, <1>15, <1>16, <1>17, <1>18, <1>19, <1>20, <1>21, <1>22, <1>23, <1>24, StepCases

\* m_activeThreadCount goes up and down with the tasks in hand.
LEMMA ActiveKept ==
  ASSUME Inv, [Next]_vars
  PROVE  ActiveCountsHolders'
<1> DEFINE S == {u \in Thread : cur[u] # NoTask}
<1>0. /\ active = Cardinality(S) /\ IsFiniteSet(S)
      /\ Holding /\ pc \in [Thread -> Places] /\ cur \in [Thread -> Task \cup {NoTask}] /\ NoTask \notin Task
      /\ \A i \in 1..Len(tasks) : tasks[i] \in Task
  BY Names, ElementOfSeq, FS_Subset, SchedulerAssumption DEF Inv, TypeOK, ActiveCountsHolders
<1>1. ASSUME NEW t \in Thread, Boot(t) PROVE ActiveCountsHolders'
  BY <1>0, <1>1, Names DEF Boot, At, Goto, schedVars, ActiveCountsHolders
<1>2. ASSUME NEW t \in Thread, Take(t) PROVE ActiveCountsHolders'
  <2>1. cur[t] = NoTask
    BY <1>0, <1>2 DEF Take, At, Holding, HoldPlaces, Deep
  <2>2. PICK i \in 1..Len(tasks) : cur' = [cur EXCEPT ![t] = tasks[i]]
    BY <1>2 DEF Take, EligibleAt
  <2>3. {u \in Thread : cur'[u] # NoTask} = S \cup {t} /\ t \notin S
    BY <1>0, <2>1, <2>2
  <2>4. active' = active + 1
    BY <1>2 DEF Take
  <2> HIDE DEF S
  <2> QED
    BY <1>0, <2>3, <2>4, FS_AddElement DEF ActiveCountsHolders
<1>3. ASSUME NEW t \in Thread, TakeNothing(t) PROVE ActiveCountsHolders'
  BY <1>0, <1>3, Names DEF TakeNothing, At, Goto, schedVars, ActiveCountsHolders
<1>4. ASSUME NEW t \in Thread, Idle(t) PROVE ActiveCountsHolders'
  BY <1>0, <1>4, Names DEF Idle, At, Goto, schedVars, ActiveCountsHolders
<1>5. ASSUME NEW t \in Thread, RunReturns(t) PROVE ActiveCountsHolders'
  BY <1>0, <1>5 DEF RunReturns, ActiveCountsHolders
<1>6. ASSUME NEW t \in Thread, Resume(t) PROVE ActiveCountsHolders'
  BY <1>0, <1>6, Names DEF Resume, At, Goto, schedVars, ActiveCountsHolders
<1>7. ASSUME NEW t \in Thread, EnterFiber(t) PROVE ActiveCountsHolders'
  BY <1>0, <1>7, Names DEF EnterFiber, At, Goto, schedVars, ActiveCountsHolders
<1>8. ASSUME NEW t \in Thread, After(t) PROVE ActiveCountsHolders'
  <2>1. cur[t] # NoTask
    BY <1>0, <1>8 DEF After, At, Holding, HoldPlaces, Deep
  <2>2. cur' = [cur EXCEPT ![t] = NoTask]
    BY <1>8 DEF After
  <2>3. {u \in Thread : cur'[u] # NoTask} = S \ {t} /\ t \in S
    BY <1>0, <2>1, <2>2
  <2>4. active' = active - 1
    BY <1>8 DEF After, OneLessActive
  <2> HIDE DEF S
  <2> QED
    BY <1>0, <2>3, <2>4, FS_RemoveElement DEF ActiveCountsHolders
<1>9. ASSUME NEW t \in Thread, YieldMark(t) PROVE ActiveCountsHolders'
  BY <1>0, <1>9, Names DEF YieldMark, At, Goto, schedVars, ActiveCountsHolders
<1>10. ASSUME NEW t \in Thread, YieldSwap(t) PROVE ActiveCountsHolders'
  BY <1>0, <1>10, Names DEF YieldSwap, At, Goto, schedVars, ActiveCountsHolders
<1>11. ASSUME NEW t \in Thread, Return(t) PROVE ActiveCountsHolders'
  BY <1>0, <1>11, Names DEF Return, At, Goto, schedVars, ActiveCountsHolders
<1>12. ASSUME NEW t \in Thread, Throw(t) PROVE ActiveCountsHolders'
  BY <1>0, <1>12, Names DEF Throw, At, Goto, schedVars, ActiveCountsHolders
<1>13. ASSUME NEW t \in Thread, Park(t) PROVE ActiveCountsHolders'
  BY <1>0, <1>13, Names DEF Park, At, Goto, schedVars, ActiveCountsHolders
<1>14. ASSUME NEW t \in Thread, NEW thread \in {t, Null}, Requeue(t, thread) PROVE ActiveCountsHolders'
  BY <1>0, <1>14, Names DEF Requeue, At, Goto, schedVars, ActiveCountsHolders
<1>15. ASSUME NEW t \in Thread, NEW fs \in Lists, Wake(t, fs) PROVE ActiveCountsHolders'
  BY <1>0, <1>15, Names DEF Wake, At, Goto, schedVars, ActiveCountsHolders
<1>16. ASSUME NEW t \in Thread, NEW fs \in Pairs, ScheduleAll(t, fs) PROVE ActiveCountsHolders'
  BY <1>0, <1>16, Names DEF ScheduleAll, At, Goto, schedVars, ActiveCountsHolders
<1>17. ASSUME NEW t \in Thread, NEW f \in UserFiber, NEW isCb \in BOOLEAN, NEW pin \in Pins,
            Schedule(t, f, isCb, pin)
     PROVE  ActiveCountsHolders'
  BY <1>0, <1>17, Names DEF Schedule, At, Goto, schedVars, ActiveCountsHolders
<1>18. CASE StartNothing
  BY <1>0, <1>18 DEF StartNothing, schedVars, schedVars, ActiveCountsHolders
<1>19. CASE StartThreads
  BY <1>0, <1>19, Names DEF StartThreads, At, Goto, schedVars, ActiveCountsHolders
<1>20. CASE StopCheck
  BY <1>0, <1>20, Names DEF StopCheck, At, Goto, schedVars, ActiveCountsHolders
<1>21. CASE StopSet
  BY <1>0, <1>21, StopSetEffect DEF ActiveCountsHolders
<1>22. CASE Join
  BY <1>0, <1>22, Names DEF Join, At, Goto, schedVars, ActiveCountsHolders
<1>23. CASE Destruct
  BY <1>0, <1>23, Names DEF Destruct, At, Goto, schedVars, ActiveCountsHolders
<1>24. CASE UNCHANGED vars
  BY <1>0, <1>24 DEF vars, schedVars, fiberVars, schedVars, ActiveCountsHolders
<1> QED
  BY <1>1, <1>2, <1>3, <1>4, <1>5, <1>6, <1>7, <1>8, <1>9, <1>10, <1>11, <1>12, <1>13, <1>14, <1>15, <1>16, <1>17, <1>18, <1>19, <1>20, <1>21, <1>22, <1>23, <1>24, StepCases

\* m_idleThreadCount goes up and down with the visits to idle().
LEMMA IdleKept ==
  ASSUME Inv, [Next]_vars
  PROVE  IdleCounts'
<1> DEFINE S == {u \in Thread : pc[u] = "idle"}
<1>0. idle = Cardinality(S) /\ IsFiniteSet(S) /\ pc \in [Thread -> Places]
  BY FS_Subset, SchedulerAssumption DEF Inv, TypeOK, IdleCounts
<1>e. ASSUME {u \in Thread : pc'[u] = "idle"} = S, idle' = idle PROVE IdleCounts'
  BY <1>0, <1>e DEF IdleCounts
<1>1. ASSUME NEW t \in Thread, Boot(t) PROVE IdleCounts'
  <2>1. {u \in Thread : pc'[u] = "idle"} = S /\ idle' = idle
    BY <1>0, <1>1 DEF Boot, At, Goto
  <2> QED
    BY <2>1, <1>e
<1>2. ASSUME NEW t \in Thread, Take(t) PROVE IdleCounts'
  <2>1. {u \in Thread : pc'[u] = "idle"} = S /\ idle' = idle
    BY <1>0, <1>2 DEF Take, At, Goto
  <2> QED
    BY <2>1, <1>e
<1>3. ASSUME NEW t \in Thread, TakeNothing(t) PROVE IdleCounts'
  <2>1. {u \in Thread : pc'[u] = "idle"} = S \cup {t} /\ t \notin S
    BY <1>0, <1>3 DEF TakeNothing, At, Goto
  <2>2. idle' = idle + 1
    BY <1>3 DEF TakeNothing, OneMoreIdle
  <2> HIDE DEF S
  <2> QED
    BY <1>0, <2>1, <2>2, FS_AddElement DEF IdleCounts
<1>4. ASSUME NEW t \in Thread, Idle(t) PROVE IdleCounts'
  <2>1. {u \in Thread : pc'[u] = "idle"} = S \ {t} /\ t \in S
    BY <1>0, <1>4 DEF Idle, At, Goto
  <2>2. idle' = idle - 1
    BY <1>4 DEF Idle
  <2> HIDE DEF S
  <2> QED
    BY <1>0, <2>1, <2>2, FS_RemoveElement DEF IdleCounts
<1>5. ASSUME NEW t \in Thread, RunReturns(t) PROVE IdleCounts'
  <2>1. {u \in Thread : pc'[u] = "idle"} = S /\ idle' = idle
    BY <1>0, <1>5 DEF RunReturns, At, Goto
  <2> QED
    BY <2>1, <1>e
<1>6. ASSUME NEW t \in Thread, Resume(t) PROVE IdleCounts'
  <2>1. {u \in Thread : pc'[u] = "idle"} = S /\ idle' = idle
    BY <1>0, <1>6 DEF Resume, At, Goto
  <2> QED
    BY <2>1, <1>e
<1>7. ASSUME NEW t \in Thread, EnterFiber(t) PROVE IdleCounts'
  <2>1. {u \in Thread : pc'[u] = "idle"} = S /\ idle' = idle
    BY <1>0, <1>7, EnterEffect
  <2> QED
    BY <2>1, <1>e
<1>8. ASSUME NEW t \in Thread, After(t) PROVE IdleCounts'
  <2>1. {u \in Thread : pc'[u] = "idle"} = S /\ idle' = idle
    BY <1>0, <1>8 DEF After, At, Goto
  <2> QED
    BY <2>1, <1>e
<1>9. ASSUME NEW t \in Thread, YieldMark(t) PROVE IdleCounts'
  <2>1. {u \in Thread : pc'[u] = "idle"} = S /\ idle' = idle
    BY <1>0, <1>9 DEF YieldMark, At, Goto
  <2> QED
    BY <2>1, <1>e
<1>10. ASSUME NEW t \in Thread, YieldSwap(t) PROVE IdleCounts'
  <2>1. {u \in Thread : pc'[u] = "idle"} = S /\ idle' = idle
    BY <1>0, <1>10, YieldSwapEffect
  <2> QED
    BY <2>1, <1>e
<1>11. ASSUME NEW t \in Thread, Return(t) PROVE IdleCounts'
  <2>1. {u \in Thread : pc'[u] = "idle"} = S /\ idle' = idle
    BY <1>0, <1>11, ReturnEffect
  <2> QED
    BY <2>1, <1>e
<1>12. ASSUME NEW t \in Thread, Throw(t) PROVE IdleCounts'
  <2>1. {u \in Thread : pc'[u] = "idle"} = S /\ idle' = idle
    BY <1>0, <1>12 DEF Throw, At, Goto
  <2> QED
    BY <2>1, <1>e
<1>13. ASSUME NEW t \in Thread, Park(t) PROVE IdleCounts'
  <2>1. {u \in Thread : pc'[u] = "idle"} = S /\ idle' = idle
    BY <1>0, <1>13 DEF Park, At, Goto
  <2> QED
    BY <2>1, <1>e
<1>14. ASSUME NEW t \in Thread, NEW thread \in {t, Null}, Requeue(t, thread) PROVE IdleCounts'
  <2>1. {u \in Thread : pc'[u] = "idle"} = S /\ idle' = idle
    BY <1>0, <1>14 DEF Requeue, At, Goto
  <2> QED
    BY <2>1, <1>e
<1>15. ASSUME NEW t \in Thread, NEW fs \in Lists, Wake(t, fs) PROVE IdleCounts'
  <2>1. {u \in Thread : pc'[u] = "idle"} = S /\ idle' = idle
    BY <1>0, <1>15 DEF Wake, At, Goto
  <2> QED
    BY <2>1, <1>e
<1>16. ASSUME NEW t \in Thread, NEW fs \in Pairs, ScheduleAll(t, fs) PROVE IdleCounts'
  <2>1. {u \in Thread : pc'[u] = "idle"} = S /\ idle' = idle
    BY <1>0, <1>16 DEF ScheduleAll, At, Goto
  <2> QED
    BY <2>1, <1>e
<1>17. ASSUME NEW t \in Thread, NEW f \in UserFiber, NEW isCb \in BOOLEAN, NEW pin \in Pins,
            Schedule(t, f, isCb, pin)
     PROVE  IdleCounts'
  <2>1. {u \in Thread : pc'[u] = "idle"} = S /\ idle' = idle
    BY <1>0, <1>17 DEF Schedule, At, Goto
  <2> QED
    BY <2>1, <1>e
<1>18. CASE StartNothing
  <2>1. {u \in Thread : pc'[u] = "idle"} = S /\ idle' = idle
    BY <1>0, <1>18 DEF StartNothing, schedVars
  <2> QED
    BY <2>1, <1>e
<1>19. CASE StartThreads
  <2>1. {u \in Thread : pc'[u] = "idle"} = S /\ idle' = idle
    BY <1>0, <1>19 DEF StartThreads, At, Goto
  <2> QED
    BY <2>1, <1>e
<1>20. CASE StopCheck
  <2>1. {u \in Thread : pc'[u] = "idle"} = S /\ idle' = idle
    BY <1>0, <1>20 DEF StopCheck, At, Goto
  <2> QED
    BY <2>1, <1>e
<1>21. CASE StopSet
  <2>1. {u \in Thread : pc'[u] = "idle"} = S /\ idle' = idle
    BY <1>0, <1>21, StopSetEffect, Names
  <2> QED
    BY <2>1, <1>e
<1>22. CASE Join
  <2>1. {u \in Thread : pc'[u] = "idle"} = S /\ idle' = idle
    BY <1>0, <1>22 DEF Join, At, Goto
  <2> QED
    BY <2>1, <1>e
<1>23. CASE Destruct
  <2>1. {u \in Thread : pc'[u] = "idle"} = S /\ idle' = idle
    BY <1>0, <1>23 DEF Destruct, At, Goto
  <2> QED
    BY <2>1, <1>e
<1>24. CASE UNCHANGED vars
  <2>1. {u \in Thread : pc'[u] = "idle"} = S /\ idle' = idle
    BY <1>0, <1>24 DEF vars, schedVars
  <2> QED
    BY <2>1, <1>e
<1> QED
  BY <1>1, <1>2, <1>3, <1>4, <1>5, <1>6, <1>7, <1>8, <1>9, <1>10, <1>11, <1>12, <1>13, <1>14, <1>15, <1>16, <1>17, <1>18, <1>19, <1>20, <1>21, <1>22, <1>23, <1>24, StepCases

\* The task in hand is one, and its fiber a user's.
LEMMA InHand ==
  ASSUME Inv, NEW t \in Thread, pc[t] \in HoldPlaces
  PROVE  cur[t] \in Task /\ cur[t].fiber \in UserFiber /\ cur[t].fiber \in FiberObj /\ cur[t].cb \in BOOLEAN
<1>1. cur[t] # NoTask /\ cur[t] \in Task \cup {NoTask}
  BY DEF Inv, Holding, TypeOK
<1> QED
  BY <1>1, Names

\* A callback runs on the stack of the task's fiber, which is t_fiber.
LEMMA OnStack ==
  ASSUME Inv, NEW t \in Thread, failed = "none", pc[t] \in {"body", "leaving"}
  PROVE  /\ this[t] = cur[t].fiber /\ cpu[t] = this[t] /\ this[t] \in UserFiber /\ this[t] \in FiberObj
         /\ state[this[t]] = "EXEC"
         /\ pc[t] \in HoldPlaces /\ pc[t] \in RunPlaces /\ pc[t] \in Deep
<1>1. pc[t] \in HoldPlaces /\ pc[t] \in RunPlaces /\ pc[t] \in Deep
  BY DEF HoldPlaces, RunPlaces, Deep
<1>2. this[t] = cur[t].fiber /\ cpu[t] = cur[t].fiber /\ state[this[t]] = "EXEC"
  BY <1>1 DEF Inv, Stacks, Running
<1> QED
  BY <1>1, <1>2, InHand

\* A fiber once built stays so, and it is built for the scheduler.
Built ==
  /\ \A x \in FiberObj : state[x] # "absent" => state'[x] # "absent"
  /\ \A f \in UserFiber : state'[f] # "absent" => inSched'[f]
  /\ ~inSched'[Root]
LEMMA BuiltKept ==
  ASSUME Inv, [Next]_vars
  PROVE  Built
<1>0. /\ state \in [FiberObj -> {"absent", "READY", "EXEC", "TERM", "freed"}]
      /\ inSched \in [Coroutine -> BOOLEAN]
      /\ \A f \in UserFiber : state[f] # "absent" => inSched[f]
      /\ ~inSched[Root]
  BY DEF Inv, TypeOK, FiberTypeOK, Exists
<1>a. ASSUME UNCHANGED <<state, inSched>> PROVE Built
  BY <1>0, <1>a DEF Built
<1>b. ASSUME NEW f \in UserFiber, NEW v \in {"READY", "EXEC", "TERM", "freed"},
             state' = [state EXCEPT ![f] = v], inSched[f], UNCHANGED inSched
      PROVE  Built
  BY <1>0, <1>b, Names DEF Built
<1>c. ASSUME NEW x \in FiberObj \ UserFiber, NEW v \in {"READY", "EXEC", "TERM", "freed"},
             state' = [state EXCEPT ![x] = v], UNCHANGED inSched
      PROVE  Built
  BY <1>0, <1>c, Names DEF Built
<1>d. ASSUME NEW f \in UserFiber, Construct(f, TRUE) PROVE Built
  <2>1. \A x \in FiberObj : state[x] # "absent" => state'[x] # "absent"
    BY <1>0, <1>d DEF Construct
  <2>2. ASSUME NEW g \in UserFiber, state'[g] # "absent" PROVE inSched'[g]
    BY <1>0, <1>d, <2>2, Names DEF Construct
  <2>3. ~inSched'[Root]
    BY <1>0, <1>d, Names DEF Construct
  <2> QED
    BY <2>1, <2>2, <2>3 DEF Built
<1>e. ASSUME NEW t \in Thread, pc[t] \in HoldPlaces, pc[t] # "resume"
      PROVE  cur[t].fiber \in UserFiber /\ inSched[cur[t].fiber] /\ state[cur[t].fiber] # "absent"
  BY <1>e, InHand DEF Inv, Exists, HeldExist
<1>f. Thread \subseteq FiberObj \ UserFiber /\ Root \in FiberObj \ UserFiber
  BY Names
<1>1. ASSUME NEW t \in Thread, Boot(t) PROVE Built
  BY <1>c, <1>f, <1>1 DEF Boot, GetThisFirst
<1>2. ASSUME NEW t \in Thread, Take(t) PROVE Built
  BY <1>a, <1>2 DEF Take, fiberVars
<1>3. ASSUME NEW t \in Thread, TakeNothing(t) PROVE Built
  BY <1>a, <1>3 DEF TakeNothing, fiberVars
<1>4. ASSUME NEW t \in Thread, Idle(t) PROVE Built
  BY <1>a, <1>4 DEF Idle, fiberVars
<1>5. ASSUME NEW t \in Thread, RunReturns(t) PROVE Built
  <2>1. CASE t = Caller
    <3>1. state' = [state EXCEPT ![Root] = "TERM"] /\ UNCHANGED inSched
      BY <1>5, <2>1, RootReturnsEffect
    <3> QED
      BY <3>1, <1>c, <1>f
  <2>2. CASE t # Caller
    BY <1>a, <1>c, <1>f, <1>5, <2>2 DEF RunReturns, DestroyMain
  <2> QED
    BY <2>1, <2>2
<1>6. ASSUME NEW t \in Thread, Resume(t) PROVE Built
  <2>1. cur[t].fiber \in UserFiber
    BY <1>6, InHand DEF Resume, At, HoldPlaces
  <2> QED
    BY <1>a, <1>d, <1>6, <2>1 DEF Resume
<1>7. ASSUME NEW t \in Thread, EnterFiber(t) PROVE Built
  <2>1. pc[t] \in HoldPlaces /\ pc[t] # "resume"
    BY <1>7 DEF EnterFiber, At, HoldPlaces, Deep
  <2>2. state' = [state EXCEPT ![cur[t].fiber] = "EXEC"] /\ UNCHANGED inSched
    BY <1>7, <2>1, <1>e, EnterEffect
  <2> QED
    BY <2>1, <2>2, <1>a, <1>b, <1>e
<1>8. ASSUME NEW t \in Thread, After(t) PROVE Built
  <2>1. pc[t] \in HoldPlaces /\ pc[t] # "resume"
    BY <1>8 DEF After, At, HoldPlaces, Deep
  <2>2. UNCHANGED <<state, inSched>> \/ (state' = [state EXCEPT ![cur[t].fiber] = "freed"] /\ UNCHANGED inSched)
    BY <1>8, <2>1, <1>e DEF After, Destroy
  <2> QED
    BY <2>1, <2>2, <1>a, <1>b, <1>e
<1>9. ASSUME NEW t \in Thread, YieldMark(t) PROVE Built
  <2>1. pc[t] \in HoldPlaces /\ pc[t] # "resume"
    BY <1>9 DEF YieldMark, At, HoldPlaces, Deep
  <2>2. state' = [state EXCEPT ![cur[t].fiber] = "READY"] /\ UNCHANGED inSched
    BY <1>9, <2>1, <1>e, OnStack DEF YieldMark, At, MarkReady, MarkThrown
  <2> QED
    BY <2>1, <2>2, <1>a, <1>b, <1>e
<1>10. ASSUME NEW t \in Thread, YieldSwap(t) PROVE Built
  <2>1. pc[t] \in HoldPlaces /\ pc[t] # "resume"
    BY <1>10 DEF YieldSwap, At, HoldPlaces, Deep
  <2>2. UNCHANGED <<state, inSched>>
    BY <1>10, <2>1, <1>e, YieldSwapEffect
  <2> QED
    BY <2>1, <2>2, <1>a, <1>b, <1>e
<1>11. ASSUME NEW t \in Thread, Return(t) PROVE Built
  <2>1. pc[t] \in HoldPlaces /\ pc[t] # "resume"
    BY <1>11 DEF Return, At, HoldPlaces, Deep
  <2>2. state' = [state EXCEPT ![cur[t].fiber] = "TERM"] /\ UNCHANGED inSched
    BY <1>11, <2>1, <1>e, ReturnEffect
  <2> QED
    BY <2>1, <2>2, <1>a, <1>b, <1>e
<1>12. ASSUME NEW t \in Thread, Throw(t) PROVE Built
  <2>1. pc[t] \in HoldPlaces /\ pc[t] # "resume"
    BY <1>12 DEF Throw, At, HoldPlaces, Deep
  <2>2. state' = [state EXCEPT ![cur[t].fiber] = "READY"] /\ UNCHANGED inSched
    BY <1>12, <2>1, <1>e, OnStack DEF Throw, At, MarkReady, MarkThrown
  <2> QED
    BY <2>1, <2>2, <1>a, <1>b, <1>e
<1>13. ASSUME NEW t \in Thread, Park(t) PROVE Built
  BY <1>a, <1>13 DEF Park, fiberVars
<1>14. ASSUME NEW t \in Thread, NEW thread \in {t, Null}, Requeue(t, thread) PROVE Built
  BY <1>a, <1>14 DEF Requeue, fiberVars
<1>15. ASSUME NEW t \in Thread, NEW fs \in Lists, Wake(t, fs) PROVE Built
  BY <1>a, <1>15 DEF Wake, fiberVars
<1>16. ASSUME NEW t \in Thread, NEW fs \in Pairs, ScheduleAll(t, fs) PROVE Built
  BY <1>a, <1>16 DEF ScheduleAll, fiberVars
<1>17. ASSUME NEW t \in Thread, NEW f \in UserFiber, NEW isCb \in BOOLEAN, NEW pin \in Pins,
            Schedule(t, f, isCb, pin)
     PROVE  Built
  BY <1>a, <1>d, <1>17 DEF Schedule
<1>18. CASE StartNothing
  BY <1>a, <1>18 DEF StartNothing, fiberVars
<1>19. CASE StartThreads
  BY <1>a, <1>19 DEF StartThreads, fiberVars
<1>20. CASE StopCheck
  BY <1>a, <1>20 DEF StopCheck, fiberVars
<1>21. CASE StopSet
  <2>1. UNCHANGED <<state, inSched>> \/ (state' = [state EXCEPT ![Root] = "EXEC"] /\ UNCHANGED inSched)
    BY <1>21, StopSetEffect DEF fiberVars
  <2> QED
    BY <1>a, <1>c, <1>f, <2>1
<1>22. CASE Join
  BY <1>a, <1>22 DEF Join, fiberVars
<1>23. CASE Destruct
  BY <1>a, <1>23 DEF Destruct, fiberVars
<1>24. CASE UNCHANGED vars
  BY <1>a, <1>24 DEF vars, schedVars, fiberVars
<1> QED
  BY <1>1, <1>2, <1>3, <1>4, <1>5, <1>6, <1>7, <1>8, <1>9, <1>10, <1>11, <1>12, <1>13, <1>14, <1>15, <1>16, <1>17, <1>18, <1>19, <1>20, <1>21, <1>22, <1>23, <1>24, StepCases


\* What is in the queue or on the wait list as a fiber is one.
LEMMA ExistsKept ==
  ASSUME Inv, [Next]_vars
  PROVE  Exists'
<1>0. /\ Built
      /\ QueuedExist /\ ParkedExist /\ HeldExist /\ Holding
      /\ \A i \in 1..Len(tasks) : tasks[i] \in Task /\ tasks[i].fiber \in FiberObj
      /\ \A f \in parked : f \in FiberObj
      /\ pc \in [Thread -> Places] /\ cur \in [Thread -> Task \cup {NoTask}]
  <2>1. \A i \in 1..Len(tasks) : tasks[i] \in Task
    BY ElementOfSeq DEF Inv, TypeOK
  <2> QED
    BY <2>1, BuiltKept, Names DEF Inv, TypeOK, Exists
<1>f. ASSUME QueuedExist', ParkedExist', HeldExist' PROVE Exists'
  BY <1>0, <1>f DEF Exists, Built
<1>q. ASSUME UNCHANGED tasks PROVE QueuedExist'
  BY <1>0, <1>q DEF QueuedExist, Built
<1>p. ASSUME UNCHANGED parked PROVE ParkedExist'
  BY <1>0, <1>p DEF ParkedExist, Built
<1>h. ASSUME UNCHANGED cur,
             \A u \in Thread : pc'[u] \in HoldPlaces => pc[u] \in HoldPlaces /\ (pc[u] = "resume" => pc'[u] = "resume")
      PROVE  HeldExist'
  <2> SUFFICES ASSUME NEW u \in Thread, pc'[u] \in HoldPlaces, pc'[u] = "resume" => ~cur'[u].cb
               PROVE  state'[cur'[u].fiber] # "absent"
    BY DEF HeldExist
  <2>1. pc[u] \in HoldPlaces /\ (pc[u] = "resume" => ~cur[u].cb)
    BY <1>h
  <2> QED
    BY <1>0, <1>h, <2>1, InHand DEF HeldExist, Built
<1>x. ASSUME NEW x \in Task, tasks' = Append(tasks, x), ~x.cb => state'[x.fiber] # "absent"
      PROVE  QueuedExist'
  <2>1. /\ Len(tasks') = Len(tasks) + 1 /\ Len(tasks) \in Nat
        /\ \A k \in 1..Len(tasks) : tasks'[k] = tasks[k]
        /\ tasks'[Len(tasks) + 1] = x
    BY <1>x, PushTask, LenProperties DEF Inv, TypeOK
  <2> SUFFICES ASSUME NEW i \in 1..(Len(tasks) + 1), ~tasks'[i].cb PROVE state'[tasks'[i].fiber] # "absent"
    BY <2>1 DEF QueuedExist
  <2>2. CASE i = Len(tasks) + 1
    BY <1>x, <2>1, <2>2
  <2>3. CASE i # Len(tasks) + 1
    <3>1. i \in 1..Len(tasks)
      BY <2>1, <2>3
    <3> QED
      BY <1>0, <2>1, <3>1 DEF QueuedExist, Built
  <2> QED
    BY <2>2, <2>3
<1>l. ASSUME NEW fs \in Lists, NEW isCb \in BOOLEAN, PushAll(fs, isCb),
             ~isCb => \A k \in 1..Len(fs) : state'[fs[k]] # "absent"
      PROVE  QueuedExist'
  <2>1. /\ Len(tasks') = Len(tasks) + Len(fs) /\ Len(tasks) \in Nat /\ Len(fs) \in Nat
        /\ \A k \in 1..Len(tasks) : tasks'[k] = tasks[k]
        /\ \A k \in 1..Len(fs) : tasks'[Len(tasks) + k] = TaskFor(fs[k], isCb)
    BY <1>l, ListParts, PushTasks, LenProperties DEF Inv, TypeOK
  <2> SUFFICES ASSUME NEW i \in 1..(Len(tasks) + Len(fs)), ~tasks'[i].cb PROVE state'[tasks'[i].fiber] # "absent"
    BY <2>1 DEF QueuedExist
  <2>2. CASE i \in 1..Len(tasks)
    BY <1>0, <2>1, <2>2 DEF QueuedExist, Built
  <2>3. CASE i \notin 1..Len(tasks)
    <3>1. i - Len(tasks) \in 1..Len(fs) /\ i = Len(tasks) + (i - Len(tasks))
      BY <2>1, <2>3
    <3>2. tasks'[i] = TaskFor(fs[i - Len(tasks)], isCb)
      BY <2>1, <3>1
    <3> QED
      BY <1>l, <3>1, <3>2 DEF TaskFor
  <2> QED
    BY <2>2, <2>3
<1>1. ASSUME NEW t \in Thread, Boot(t) PROVE Exists'
  <2>1. UNCHANGED tasks /\ UNCHANGED parked /\ UNCHANGED cur
    BY <1>1 DEF Boot, At, Goto
  <2>2. \A u \in Thread : pc'[u] \in HoldPlaces => pc[u] \in HoldPlaces /\ (pc[u] = "resume" => pc'[u] = "resume")
    BY <1>0, <1>1 DEF Boot, At, Goto, HoldPlaces, Deep
  <2> QED
    BY <2>1, <2>2, <1>q, <1>p, <1>h, <1>f
<1>2. ASSUME NEW t \in Thread, Take(t) PROVE Exists'
  <2>1. PICK i \in 1..Len(tasks) : cur' = [cur EXCEPT ![t] = tasks[i]] /\ tasks' = Erase(i)
    BY <1>2 DEF Take, EligibleAt
  <2>2. QueuedExist'
    <3>1. /\ Len(tasks') = Len(tasks) - 1 /\ Len(tasks) \in Nat
          /\ \A k \in 1..Len(tasks') : tasks'[k] = tasks[IF k < i THEN k ELSE k + 1]
      BY <2>1, EraseTask, LenProperties DEF Inv, TypeOK
    <3>2. \A k \in 1..Len(tasks') : (IF k < i THEN k ELSE k + 1) \in 1..Len(tasks)
      BY <3>1
    <3> QED
      BY <1>0, <3>1, <3>2 DEF QueuedExist, Built
  <2>3. UNCHANGED parked /\ pc' = [pc EXCEPT ![t] = "resume"]
    BY <1>2 DEF Take, Goto
  <2>4. HeldExist'
    <3> SUFFICES ASSUME NEW u \in Thread, pc'[u] \in HoldPlaces, pc'[u] = "resume" => ~cur'[u].cb
                 PROVE  state'[cur'[u].fiber] # "absent"
      BY DEF HeldExist
    <3>1. CASE u = t
      BY <1>0, <2>1, <2>3, <3>1 DEF QueuedExist, Built
    <3>2. CASE u # t
      <4>1. cur'[u] = cur[u] /\ pc'[u] = pc[u]
        BY <1>0, <2>1, <2>3, <3>2
      <4> QED
        BY <1>0, <4>1, InHand DEF HeldExist, Built
    <3> QED
      BY <3>1, <3>2
  <2> QED
    BY <2>2, <2>3, <2>4, <1>p, <1>f
<1>3. ASSUME NEW t \in Thread, TakeNothing(t) PROVE Exists'
  <2>1. UNCHANGED tasks /\ UNCHANGED parked /\ UNCHANGED cur
    BY <1>3 DEF TakeNothing, At, Goto
  <2>2. \A u \in Thread : pc'[u] \in HoldPlaces => pc[u] \in HoldPlaces /\ (pc[u] = "resume" => pc'[u] = "resume")
    BY <1>0, <1>3 DEF TakeNothing, At, Goto, HoldPlaces, Deep
  <2> QED
    BY <2>1, <2>2, <1>q, <1>p, <1>h, <1>f
<1>4. ASSUME NEW t \in Thread, Idle(t) PROVE Exists'
  <2>1. UNCHANGED tasks /\ UNCHANGED parked /\ UNCHANGED cur
    BY <1>4 DEF Idle, At, Goto
  <2>2. \A u \in Thread : pc'[u] \in HoldPlaces => pc[u] \in HoldPlaces /\ (pc[u] = "resume" => pc'[u] = "resume")
    BY <1>0, <1>4 DEF Idle, At, Goto, HoldPlaces, Deep
  <2> QED
    BY <2>1, <2>2, <1>q, <1>p, <1>h, <1>f
<1>5. ASSUME NEW t \in Thread, RunReturns(t) PROVE Exists'
  <2>1. UNCHANGED tasks /\ UNCHANGED parked /\ UNCHANGED cur
    BY <1>5 DEF RunReturns, At, Goto
  <2>2. \A u \in Thread : pc'[u] \in HoldPlaces => pc[u] \in HoldPlaces /\ (pc[u] = "resume" => pc'[u] = "resume")
    BY <1>0, <1>5 DEF RunReturns, At, Goto, HoldPlaces, Deep
  <2> QED
    BY <2>1, <2>2, <1>q, <1>p, <1>h, <1>f
<1>6. ASSUME NEW t \in Thread, Resume(t) PROVE Exists'
  <2>1. UNCHANGED tasks /\ UNCHANGED parked /\ UNCHANGED cur
    BY <1>6 DEF Resume
  <2>2. HeldExist'
    <3> SUFFICES ASSUME NEW u \in Thread, pc'[u] \in HoldPlaces, pc'[u] = "resume" => ~cur'[u].cb
                 PROVE  state'[cur'[u].fiber] # "absent"
      BY DEF HeldExist
    <3>0. pc[t] = "resume" /\ pc[t] \in HoldPlaces
      BY <1>6 DEF Resume, At, HoldPlaces
    <3>1. CASE u = t /\ cur[t].cb
      <4>1. Construct(cur[t].fiber, TRUE) /\ cur[t].fiber \in FiberObj
        BY <1>6, <3>0, <3>1, InHand DEF Resume
      <4> QED
        BY <2>1, <3>1, <4>1 DEF Construct, Inv, TypeOK, FiberTypeOK
    <3>2. CASE u = t /\ ~cur[t].cb
      BY <1>0, <2>1, <3>0, <3>2, InHand DEF HeldExist, Built
    <3>3. CASE u # t
      <4>1. cur'[u] = cur[u] /\ pc'[u] = pc[u]
        BY <1>0, <1>6, <2>1, <3>3 DEF Resume, Goto
      <4> QED
        BY <1>0, <4>1, InHand DEF HeldExist, Built
    <3> QED
      BY <3>1, <3>2, <3>3
  <2> QED
    BY <2>1, <2>2, <1>q, <1>p, <1>f
<1>7. ASSUME NEW t \in Thread, EnterFiber(t) PROVE Exists'
  <2>1. UNCHANGED tasks /\ UNCHANGED parked /\ UNCHANGED cur
    BY <1>7, EnterEffect
  <2>2. \A u \in Thread : pc'[u] \in HoldPlaces => pc[u] \in HoldPlaces /\ (pc[u] = "resume" => pc'[u] = "resume")
    BY <1>0, <1>7, EnterEffect DEF HoldPlaces, Deep
  <2> QED
    BY <2>1, <2>2, <1>q, <1>p, <1>h, <1>f
<1>8. ASSUME NEW t \in Thread, After(t) PROVE Exists'
  <2>1. UNCHANGED tasks /\ UNCHANGED parked
    BY <1>8 DEF After
  <2>2. HeldExist'
    <3> SUFFICES ASSUME NEW u \in Thread, pc'[u] \in HoldPlaces, pc'[u] = "resume" => ~cur'[u].cb
                 PROVE  state'[cur'[u].fiber] # "absent"
      BY DEF HeldExist
    <3>1. u # t
      BY <1>0, <1>8 DEF After, Goto, HoldPlaces, Deep
    <3>2. cur'[u] = cur[u] /\ pc'[u] = pc[u]
      BY <1>0, <1>8, <3>1 DEF After, Goto
    <3> QED
      BY <1>0, <3>2, InHand DEF HeldExist, Built
  <2> QED
    BY <2>1, <2>2, <1>q, <1>p, <1>f
<1>9. ASSUME NEW t \in Thread, YieldMark(t) PROVE Exists'
  <2>1. UNCHANGED tasks /\ UNCHANGED parked /\ UNCHANGED cur
    BY <1>9 DEF YieldMark, At, Goto
  <2>2. \A u \in Thread : pc'[u] \in HoldPlaces => pc[u] \in HoldPlaces /\ (pc[u] = "resume" => pc'[u] = "resume")
    BY <1>0, <1>9 DEF YieldMark, At, Goto, HoldPlaces, Deep
  <2> QED
    BY <2>1, <2>2, <1>q, <1>p, <1>h, <1>f
<1>10. ASSUME NEW t \in Thread, YieldSwap(t) PROVE Exists'
  <2>1. UNCHANGED tasks /\ UNCHANGED parked /\ UNCHANGED cur
    BY <1>10, YieldSwapEffect
  <2>2. \A u \in Thread : pc'[u] \in HoldPlaces => pc[u] \in HoldPlaces /\ (pc[u] = "resume" => pc'[u] = "resume")
    BY <1>0, <1>10, YieldSwapEffect DEF HoldPlaces, Deep
  <2> QED
    BY <2>1, <2>2, <1>q, <1>p, <1>h, <1>f
<1>11. ASSUME NEW t \in Thread, Return(t) PROVE Exists'
  <2>1. UNCHANGED tasks /\ UNCHANGED parked /\ UNCHANGED cur
    BY <1>11, ReturnEffect
  <2>2. \A u \in Thread : pc'[u] \in HoldPlaces => pc[u] \in HoldPlaces /\ (pc[u] = "resume" => pc'[u] = "resume")
    BY <1>0, <1>11, ReturnEffect DEF HoldPlaces, Deep
  <2> QED
    BY <2>1, <2>2, <1>q, <1>p, <1>h, <1>f
<1>12. ASSUME NEW t \in Thread, Throw(t) PROVE Exists'
  <2>1. UNCHANGED tasks /\ UNCHANGED parked /\ UNCHANGED cur
    BY <1>12 DEF Throw, At, Goto
  <2>2. \A u \in Thread : pc'[u] \in HoldPlaces => pc[u] \in HoldPlaces /\ (pc[u] = "resume" => pc'[u] = "resume")
    BY <1>0, <1>12 DEF Throw, At, Goto, HoldPlaces, Deep
  <2> QED
    BY <2>1, <2>2, <1>q, <1>p, <1>h, <1>f
<1>13. ASSUME NEW t \in Thread, Park(t) PROVE Exists'
  <2>1. ParkedExist'
    BY <1>0, <1>13, OnStack DEF Park, At, ParkedExist, Built, fiberVars
  <2>2. UNCHANGED tasks /\ UNCHANGED cur /\ \A u \in Thread : pc'[u] \in HoldPlaces => pc[u] \in HoldPlaces /\ (pc[u] = "resume" => pc'[u] = "resume")
    BY <1>0, <1>13 DEF Park, At, Goto, HoldPlaces, Deep
  <2> QED
    BY <2>1, <2>2, <1>q, <1>h, <1>f
<1>14. ASSUME NEW t \in Thread, NEW thread \in {t, Null}, Requeue(t, thread) PROVE Exists'
  <2> DEFINE x == [fiber |-> this[t], cb |-> FALSE, thread |-> thread]
  <2>1. tasks' = Append(tasks, x) /\ UNCHANGED parked /\ UNCHANGED state
    BY <1>14 DEF Requeue, Push, fiberVars
  <2>2. this[t] \in UserFiber /\ state'[x.fiber] # "absent"
    BY <1>14, <2>1, OnStack DEF Requeue, At
  <2>3. x \in Task
    BY <2>2 DEF Task
  <2>4. UNCHANGED cur /\ \A u \in Thread : pc'[u] \in HoldPlaces => pc[u] \in HoldPlaces /\ (pc[u] = "resume" => pc'[u] = "resume")
    BY <1>0, <1>14 DEF Requeue, At, Goto, HoldPlaces, Deep
  <2> QED
    BY <2>1, <2>2, <2>3, <2>4, <1>x, <1>p, <1>h, <1>f
<1>15. ASSUME NEW t \in Thread, NEW fs \in Lists, Wake(t, fs) PROVE Exists'
  <2>1. PushAll(fs, FALSE) /\ ToSet(fs) \subseteq parked /\ parked' \subseteq parked /\ UNCHANGED <<state, cur, pc>>
    BY <1>15 DEF Wake, fiberVars
  <2>2. \A k \in 1..Len(fs) : fs[k] \in parked
    BY <2>1, ListParts
  <2>3. QueuedExist'
    BY <1>0, <1>l, <2>1, <2>2 DEF ParkedExist
  <2>4. ParkedExist'
    BY <1>0, <2>1 DEF ParkedExist
  <2> QED
    BY <2>1, <2>3, <2>4, <1>h, <1>f
<1>16. ASSUME NEW t \in Thread, NEW fs \in Pairs, ScheduleAll(t, fs) PROVE Exists'
  <2>1. PushAll(fs, TRUE) /\ UNCHANGED parked /\ UNCHANGED cur /\ UNCHANGED pc /\ fs \in Lists
    BY <1>16 DEF ScheduleAll, Lists
  <2>2. QueuedExist'
    BY <1>l, <2>1
  <2> QED
    BY <2>1, <2>2, <1>p, <1>h, <1>f
<1>17. ASSUME NEW t \in Thread, NEW f \in UserFiber, NEW isCb \in BOOLEAN, NEW pin \in Pins,
            Schedule(t, f, isCb, pin)
     PROVE  Exists'
  <2> DEFINE x == [fiber |-> f, cb |-> isCb, thread |-> pin]
  <2>1. tasks' = Append(tasks, x) /\ UNCHANGED parked /\ UNCHANGED cur /\ UNCHANGED pc
    BY <1>17 DEF Schedule, Push
  <2>2. x \in Task
    BY SchedulerAssumption DEF Task, Pins, Worker
  <2>3. ~isCb => state'[f] # "absent"
    <3>1. ~isCb => Construct(f, TRUE)
      BY <1>17 DEF Schedule
    <3> QED
      BY <3>1, Names DEF Construct, Inv, TypeOK, FiberTypeOK
  <2> QED
    BY <2>1, <2>2, <2>3, <1>x, <1>p, <1>h, <1>f
<1>18. CASE StartNothing
  <2>1. UNCHANGED tasks /\ UNCHANGED parked /\ UNCHANGED cur
    BY <1>18 DEF StartNothing, schedVars
  <2>2. \A u \in Thread : pc'[u] \in HoldPlaces => pc[u] \in HoldPlaces /\ (pc[u] = "resume" => pc'[u] = "resume")
    BY <1>0, <1>18 DEF StartNothing, schedVars, HoldPlaces, Deep
  <2> QED
    BY <2>1, <2>2, <1>q, <1>p, <1>h, <1>f
<1>19. CASE StartThreads
  <2>1. UNCHANGED tasks /\ UNCHANGED parked /\ UNCHANGED cur
    BY <1>19 DEF StartThreads, At, Goto
  <2>2. \A u \in Thread : pc'[u] \in HoldPlaces => pc[u] \in HoldPlaces /\ (pc[u] = "resume" => pc'[u] = "resume")
    BY <1>0, <1>19 DEF StartThreads, At, Goto, HoldPlaces, Deep
  <2> QED
    BY <2>1, <2>2, <1>q, <1>p, <1>h, <1>f
<1>20. CASE StopCheck
  <2>1. UNCHANGED tasks /\ UNCHANGED parked /\ UNCHANGED cur
    BY <1>20 DEF StopCheck, At, Goto
  <2>2. \A u \in Thread : pc'[u] \in HoldPlaces => pc[u] \in HoldPlaces /\ (pc[u] = "resume" => pc'[u] = "resume")
    BY <1>0, <1>20 DEF StopCheck, At, Goto, HoldPlaces, Deep
  <2> QED
    BY <2>1, <2>2, <1>q, <1>p, <1>h, <1>f
<1>21. CASE StopSet
  <2>1. UNCHANGED tasks /\ UNCHANGED parked /\ UNCHANGED cur
    BY <1>21, StopSetEffect, Names
  <2>2. \A u \in Thread : pc'[u] \in HoldPlaces => pc[u] \in HoldPlaces /\ (pc[u] = "resume" => pc'[u] = "resume")
    BY <1>0, <1>21, StopSetEffect, Names DEF HoldPlaces, Deep
  <2> QED
    BY <2>1, <2>2, <1>q, <1>p, <1>h, <1>f
<1>22. CASE Join
  <2>1. UNCHANGED tasks /\ UNCHANGED parked /\ UNCHANGED cur
    BY <1>22 DEF Join, At, Goto
  <2>2. \A u \in Thread : pc'[u] \in HoldPlaces => pc[u] \in HoldPlaces /\ (pc[u] = "resume" => pc'[u] = "resume")
    BY <1>0, <1>22 DEF Join, At, Goto, HoldPlaces, Deep
  <2> QED
    BY <2>1, <2>2, <1>q, <1>p, <1>h, <1>f
<1>23. CASE Destruct
  <2>1. QueuedExist'
    BY <1>23 DEF Destruct, QueuedExist
  <2>2. UNCHANGED parked /\ UNCHANGED cur /\ \A u \in Thread : pc'[u] \in HoldPlaces => pc[u] \in HoldPlaces /\ (pc[u] = "resume" => pc'[u] = "resume")
    BY <1>0, <1>23 DEF Destruct, Goto, HoldPlaces, Deep
  <2> QED
    BY <2>1, <2>2, <1>p, <1>h, <1>f
<1>24. CASE UNCHANGED vars
  <2>1. UNCHANGED tasks /\ UNCHANGED parked /\ UNCHANGED cur
    BY <1>24 DEF vars, schedVars
  <2>2. \A u \in Thread : pc'[u] \in HoldPlaces => pc[u] \in HoldPlaces /\ (pc[u] = "resume" => pc'[u] = "resume")
    BY <1>0, <1>24 DEF vars, schedVars, HoldPlaces, Deep
  <2> QED
    BY <2>1, <2>2, <1>q, <1>p, <1>h, <1>f
<1> QED
  BY <1>1, <1>2, <1>3, <1>4, <1>5, <1>6, <1>7, <1>8, <1>9, <1>10, <1>11, <1>12, <1>13, <1>14, <1>15, <1>16, <1>17, <1>18, <1>19, <1>20, <1>21, <1>22, <1>23, <1>24, StepCases

FiberTypes == FiberTypeOK /\ failed \in SchedulerFailures \cup {"none"}
LEMMA FiberTypesKept ==
  ASSUME Inv, [Next]_vars
  PROVE  FiberTypes'
<1>0. FiberTypeOK /\ failed \in SchedulerFailures \cup {"none"}
  BY DEF Inv, TypeOK
<1>1f. \A u \in Thread : ThreadFiber(u) \in FiberObj \cup {Null}
  BY Names DEF ThreadFiber
<1>2f. SwapFaults \cup {"neverReach", "resumeState", "destroyState", "startThreads", "terminate", "none"}
        \subseteq SchedulerFailures \cup {"none"}
  BY DEF SwapFaults, SchedulerFailures, Failures
<1>a. ASSUME UNCHANGED fiberVars PROVE FiberTypes'
  BY <1>0, <1>a DEF fiberVars, FiberTypes, FiberTypeOK
<1>c. ASSUME NEW f \in UserFiber, Construct(f, TRUE), UNCHANGED <<phase, cpu, this, schedFiber, failed>>
      PROVE  FiberTypes'
  <2>1. inSched' \in [Coroutine -> BOOLEAN]
    BY <1>0, <1>c DEF Construct, FiberTypeOK
  <2>2. /\ state' \in [FiberObj -> {"absent", "READY", "EXEC", "TERM", "freed"}]
        /\ ctx' \in [FiberObj -> FiberObj \cup {Stale}]
    BY <1>0, <1>c, Names DEF Construct, FiberTypeOK
  <2>3. \A t \in Thread : state'[t] # "TERM"
    BY <1>0, <1>c, Names DEF Construct, FiberTypeOK
  <2> QED
    BY <1>0, <1>c, <2>1, <2>2, <2>3 DEF FiberTypes, FiberTypeOK
<1>1. ASSUME NEW t \in Thread, Boot(t) PROVE FiberTypes'
  BY <1>0, <1>1, Names DEF Boot, GetThisFirst, SetThis, FiberTypes, FiberTypeOK
<1>2. ASSUME NEW t \in Thread, Take(t) PROVE FiberTypes'
  BY <1>a, <1>2 DEF Take
<1>3. ASSUME NEW t \in Thread, TakeNothing(t) PROVE FiberTypes'
  BY <1>a, <1>3 DEF TakeNothing
<1>4. ASSUME NEW t \in Thread, Idle(t) PROVE FiberTypes'
  BY <1>0, <1>1f, <1>4 DEF Idle, At, FiberTypes, FiberTypeOK
<1>5. ASSUME NEW t \in Thread, RunReturns(t) PROVE FiberTypes'
  <2>1. CASE t = Caller
    BY <1>0, <1>1f, <1>2f, <1>5, <2>1, RootReturnsEffect, Names DEF FiberTypes, FiberTypeOK
  <2>2. CASE t # Caller
    BY <1>0, <1>2f, <1>5, <2>2, Names DEF RunReturns, DestroyMain, Fault, FiberTypes, FiberTypeOK
  <2> QED
    BY <2>1, <2>2
<1>6. ASSUME NEW t \in Thread, Resume(t) PROVE FiberTypes'
  <2>1. cur[t].fiber \in UserFiber
    BY <1>6, InHand DEF Resume, At, HoldPlaces
  <2>2. CASE cur[t].cb
    BY <1>c, <1>6, <2>1, <2>2 DEF Resume
  <2>3. CASE ~cur[t].cb
    BY <1>0, <1>2f, <1>6, <2>3 DEF Resume, Fault, FiberTypes, FiberTypeOK
  <2> QED
    BY <2>2, <2>3
<1>7. ASSUME NEW t \in Thread, EnterFiber(t) PROVE FiberTypes'
  <2> DEFINE f == cur[t].fiber
  <2>1. /\ f \in UserFiber
        /\ this' = [this EXCEPT ![t] = f]
        /\ state' = [state EXCEPT ![f] = "EXEC"]
        /\ phase' = [phase EXCEPT ![f] = "body"] \/ UNCHANGED phase
        /\ UNCHANGED <<inSched, schedFiber>>
        /\ \/ failed' \in SwapFaults \cup {"neverReach"} /\ UNCHANGED <<ctx, cpu>>
           \/ /\ failed' = "none"
              /\ ctx' = [ctx EXCEPT ![Base(t)] = Base(t), ![f] = Stale]
              /\ cpu' = [cpu EXCEPT ![t] = f]
    BY <1>7, EnterEffect
  <2> HIDE DEF f
  <2> QED
    BY <1>0, <1>1f, <1>2f, <2>1, BaseType, Names DEF FiberTypes, FiberTypeOK
<1>8. ASSUME NEW t \in Thread, After(t) PROVE FiberTypes'
  <2>1. cur[t].fiber \in UserFiber
    BY <1>8, InHand DEF After, At, HoldPlaces
  <2> QED
    BY <1>0, <1>2f, <1>8, <2>1, Names DEF After, Destroy, Fault, FiberTypes, FiberTypeOK
<1>9. ASSUME NEW t \in Thread, YieldMark(t) PROVE FiberTypes'
  <2>1. this[t] \in UserFiber /\ state[this[t]] = "EXEC"
    BY <1>9, OnStack DEF YieldMark, At
  <2> QED
    BY <1>0, <1>1f, <1>9, <2>1, Names DEF YieldMark, MarkReady, MarkThrown, SetThis, FiberTypes, FiberTypeOK
<1>10. ASSUME NEW t \in Thread, YieldSwap(t) PROVE FiberTypes'
  <2> DEFINE f == cur[t].fiber
  <2>1. /\ f \in UserFiber
        /\ UNCHANGED this
        /\ UNCHANGED state
        /\ UNCHANGED phase
        /\ UNCHANGED <<inSched, schedFiber>>
        /\ \/ failed' \in SwapFaults /\ UNCHANGED <<ctx, cpu>>
           \/ /\ failed' = "none"
              /\ ctx' = [ctx EXCEPT ![f] = f, ![Base(t)] = Stale]
              /\ cpu' = [cpu EXCEPT ![t] = Base(t)]
    BY <1>10, YieldSwapEffect
  <2> HIDE DEF f
  <2> QED
    BY <1>0, <1>1f, <1>2f, <2>1, BaseType, Names DEF FiberTypes, FiberTypeOK
<1>11. ASSUME NEW t \in Thread, Return(t) PROVE FiberTypes'
  <2> DEFINE f == cur[t].fiber
  <2>1. /\ f \in UserFiber
        /\ this' = [this EXCEPT ![t] = ThreadFiber(t)]
        /\ state' = [state EXCEPT ![f] = "TERM"]
        /\ phase' = [phase EXCEPT ![f] = "over"]
        /\ UNCHANGED <<inSched, schedFiber>>
        /\ \/ failed' \in SwapFaults /\ UNCHANGED <<ctx, cpu>>
           \/ /\ failed' = "none"
              /\ ctx' = [ctx EXCEPT ![f] = f, ![Base(t)] = Stale]
              /\ cpu' = [cpu EXCEPT ![t] = Base(t)]
    BY <1>11, ReturnEffect
  <2> HIDE DEF f
  <2> QED
    BY <1>0, <1>1f, <1>2f, <2>1, BaseType, Names DEF FiberTypes, FiberTypeOK
<1>12. ASSUME NEW t \in Thread, Throw(t) PROVE FiberTypes'
  <2>1. this[t] \in UserFiber /\ state[this[t]] = "EXEC"
    BY <1>12, OnStack DEF Throw, At
  <2> QED
    BY <1>0, <1>1f, <1>12, <2>1, Names DEF Throw, MarkReady, MarkThrown, SetThis, FiberTypes, FiberTypeOK
<1>13. ASSUME NEW t \in Thread, Park(t) PROVE FiberTypes'
  BY <1>a, <1>13 DEF Park
<1>14. ASSUME NEW t \in Thread, NEW thread \in {t, Null}, Requeue(t, thread) PROVE FiberTypes'
  BY <1>a, <1>14 DEF Requeue
<1>15. ASSUME NEW t \in Thread, NEW fs \in Lists, Wake(t, fs) PROVE FiberTypes'
  BY <1>a, <1>15 DEF Wake
<1>16. ASSUME NEW t \in Thread, NEW fs \in Pairs, ScheduleAll(t, fs) PROVE FiberTypes'
  BY <1>a, <1>16 DEF ScheduleAll
<1>17. ASSUME NEW t \in Thread, NEW f \in UserFiber, NEW isCb \in BOOLEAN, NEW pin \in Pins,
            Schedule(t, f, isCb, pin)
     PROVE  FiberTypes'
  <2>1. CASE isCb
    BY <1>0, <1>17, <2>1 DEF Schedule, FiberTypes, FiberTypeOK
  <2>2. CASE ~isCb
    BY <1>c, <1>17, <2>2 DEF Schedule
  <2> QED
    BY <2>1, <2>2
<1>18. CASE StartNothing
  BY <1>a, <1>18 DEF StartNothing
<1>19. CASE StartThreads
  BY <1>0, <1>2f, <1>19 DEF StartThreads, Fault, FiberTypes, FiberTypeOK
<1>20. CASE StopCheck
  BY <1>a, <1>20 DEF StopCheck
<1>21. CASE StopSet
  <2>1. CASE UNCHANGED fiberVars
    BY <1>a, <2>1
  <2>2. CASE ~UNCHANGED fiberVars
    BY <1>0, <1>2f, <1>21, <2>2, StopSetEffect, Names DEF FiberTypes, FiberTypeOK
  <2> QED
    BY <2>1, <2>2
<1>22. CASE Join
  BY <1>a, <1>22 DEF Join
<1>23. CASE Destruct
  BY <1>0, <1>2f, <1>23 DEF Destruct, Fault, FiberTypes, FiberTypeOK
<1>24. CASE UNCHANGED vars
  BY <1>a, <1>24 DEF vars, schedVars
<1> QED
  BY <1>1, <1>2, <1>3, <1>4, <1>5, <1>6, <1>7, <1>8, <1>9, <1>10, <1>11, <1>12, <1>13, <1>14, <1>15, <1>16, <1>17, <1>18, <1>19, <1>20, <1>21, <1>22, <1>23, <1>24, StepCases


SchedTypes ==
  /\ tasks \in Seq(Task)
  /\ pool \in SUBSET Worker
  /\ pc \in [Thread -> Places]
  /\ cur \in [Thread -> Task \cup {NoTask}]
  /\ parked \in SUBSET UserFiber

LEMMA SchedTypesKept ==
  ASSUME Inv, [Next]_vars
  PROVE  SchedTypes'
<1>0. /\ tasks \in Seq(Task) /\ pc \in [Thread -> Places] /\ cur \in [Thread -> Task \cup {NoTask}]
      /\ \A i \in 1..Len(tasks) : tasks[i] \in Task
      /\ parked \in SUBSET UserFiber
      /\ pool \in SUBSET Worker
      /\ Caller \in Thread
  BY ElementOfSeq, Names DEF Inv, TypeOK
<1>p. {"off", "user", "stopSet", "join", "done", "boot", "loop", "idle", "resume", "enter", "body", "leaving",
       "marked", "after", "gone"} \subseteq Places
  BY DEF Places
<1>1. ASSUME NEW t \in Thread, Boot(t) PROVE SchedTypes'
  BY <1>0, <1>p, <1>1 DEF Boot, Goto, SchedTypes, schedVars
<1>2. ASSUME NEW t \in Thread, Take(t) PROVE SchedTypes'
  <2>1. PICK i \in 1..Len(tasks) : cur' = [cur EXCEPT ![t] = tasks[i]] /\ tasks' = Erase(i)
    BY <1>2 DEF Take, EligibleAt
  <2>2. tasks' \in Seq(Task)
    BY <1>0, <2>1, EraseTask
  <2> QED
    BY <1>0, <1>p, <1>2, <2>1, <2>2 DEF Take, Goto, SchedTypes
<1>3. ASSUME NEW t \in Thread, TakeNothing(t) PROVE SchedTypes'
  BY <1>0, <1>p, <1>3 DEF TakeNothing, Goto, SchedTypes, schedVars
<1>4. ASSUME NEW t \in Thread, Idle(t) PROVE SchedTypes'
  BY <1>0, <1>p, <1>4 DEF Idle, Goto, SchedTypes, schedVars
<1>5. ASSUME NEW t \in Thread, RunReturns(t) PROVE SchedTypes'
  BY <1>0, <1>p, <1>5 DEF RunReturns, Goto, SchedTypes, schedVars
<1>6. ASSUME NEW t \in Thread, Resume(t) PROVE SchedTypes'
  BY <1>0, <1>p, <1>6 DEF Resume, Goto, SchedTypes, schedVars
<1>7. ASSUME NEW t \in Thread, EnterFiber(t) PROVE SchedTypes'
  BY <1>0, <1>p, <1>7, EnterEffect DEF SchedTypes
<1>8. ASSUME NEW t \in Thread, After(t) PROVE SchedTypes'
  BY <1>0, <1>p, <1>8 DEF After, Goto, SchedTypes, schedVars
<1>9. ASSUME NEW t \in Thread, YieldMark(t) PROVE SchedTypes'
  BY <1>0, <1>p, <1>9 DEF YieldMark, Goto, SchedTypes, schedVars
<1>10. ASSUME NEW t \in Thread, YieldSwap(t) PROVE SchedTypes'
  BY <1>0, <1>p, <1>10, YieldSwapEffect DEF SchedTypes
<1>11. ASSUME NEW t \in Thread, Return(t) PROVE SchedTypes'
  BY <1>0, <1>p, <1>11, ReturnEffect DEF SchedTypes
<1>12. ASSUME NEW t \in Thread, Throw(t) PROVE SchedTypes'
  BY <1>0, <1>p, <1>12 DEF Throw, Goto, SchedTypes, schedVars
<1>13. ASSUME NEW t \in Thread, Park(t) PROVE SchedTypes'
  <2>1. this[t] \in UserFiber
    BY <1>13, OnStack DEF Park, At
  <2> QED
    BY <1>0, <1>p, <1>13, <2>1 DEF Park, Goto, SchedTypes
<1>14. ASSUME NEW t \in Thread, NEW thread \in {t, Null}, Requeue(t, thread) PROVE SchedTypes'
  <2>1. this[t] \in UserFiber
    BY <1>14, OnStack DEF Requeue, At
  <2>2. [fiber |-> this[t], cb |-> FALSE, thread |-> thread] \in Task
    BY <2>1 DEF Task
  <2>3. tasks' \in Seq(Task)
    BY <1>0, <2>2, <1>14, PushTask DEF Requeue, Push
  <2> QED
    BY <1>0, <1>p, <1>14, <2>3 DEF Requeue, Goto, SchedTypes
<1>15. ASSUME NEW t \in Thread, NEW fs \in Lists, Wake(t, fs) PROVE SchedTypes'
  <2>1. tasks' \in Seq(Task)
    BY <1>0, <1>15, PushTasks DEF Wake
  <2> QED
    BY <1>0, <1>p, <1>15, <2>1 DEF Wake, SchedTypes
<1>16. ASSUME NEW t \in Thread, NEW fs \in Pairs, ScheduleAll(t, fs) PROVE SchedTypes'
  <2>1. tasks' \in Seq(Task)
    BY <1>0, <1>16, PushTasks DEF ScheduleAll, Lists
  <2> QED
    BY <1>0, <1>p, <1>16, <2>1 DEF ScheduleAll, SchedTypes
<1>17. ASSUME NEW t \in Thread, NEW f \in UserFiber, NEW isCb \in BOOLEAN, NEW pin \in Pins,
            Schedule(t, f, isCb, pin)
     PROVE  SchedTypes'
  <2>1. [fiber |-> f, cb |-> isCb, thread |-> pin] \in Task
    BY SchedulerAssumption DEF Task, Pins, Worker
  <2>2. tasks' \in Seq(Task)
    BY <1>0, <2>1, <1>17, PushTask DEF Schedule, Push
  <2> QED
    BY <1>0, <1>p, <1>17, <2>2 DEF Schedule, SchedTypes
<1>18. CASE StartNothing
  BY <1>0, <1>p, <1>18 DEF StartNothing, Goto, SchedTypes, schedVars
<1>19. CASE StartThreads
  BY <1>0, <1>p, <1>19 DEF StartThreads, Goto, SchedTypes, schedVars
<1>20. CASE StopCheck
  BY <1>0, <1>p, <1>20 DEF StopCheck, Goto, SchedTypes, schedVars
<1>21. CASE StopSet
  BY <1>0, <1>p, <1>21, StopSetEffect DEF SchedTypes
<1>22. CASE Join
  BY <1>0, <1>p, <1>22 DEF Join, Goto, SchedTypes, schedVars
<1>23. CASE Destruct
  <2>1. <<>> \in Seq(Task)
    OBVIOUS
  <2> QED
    BY <1>0, <1>p, <1>23, <2>1 DEF Destruct, Goto, SchedTypes
<1>24. CASE UNCHANGED vars
  BY <1>0, <1>p, <1>24 DEF vars, schedVars, Goto, SchedTypes, schedVars
<1> QED
  BY <1>1, <1>2, <1>3, <1>4, <1>5, <1>6, <1>7, <1>8, <1>9, <1>10, <1>11, <1>12, <1>13, <1>14, <1>15, <1>16, <1>17, <1>18, <1>19, <1>20, <1>21, <1>22, <1>23, <1>24, StepCases


FlagTypes ==
  /\ stopping \in BOOLEAN
  /\ idleDone \in [Thread -> BOOLEAN]
  /\ started \in BOOLEAN
  /\ returned \in BOOLEAN

LEMMA FlagTypesKept ==
  ASSUME Inv, [Next]_vars
  PROVE  FlagTypes'
<1>0. /\ stopping \in BOOLEAN /\ idleDone \in [Thread -> BOOLEAN]
      /\ started \in BOOLEAN /\ returned \in BOOLEAN
  BY DEF Inv, TypeOK
<1>1. ASSUME NEW t \in Thread, Boot(t) PROVE FlagTypes'
  BY <1>0, <1>1 DEF Boot, FlagTypes, schedVars, history
<1>2. ASSUME NEW t \in Thread, Take(t) PROVE FlagTypes'
  BY <1>0, <1>2 DEF Take, FlagTypes, schedVars, history
<1>3. ASSUME NEW t \in Thread, TakeNothing(t) PROVE FlagTypes'
  BY <1>0, <1>3 DEF TakeNothing, FlagTypes, schedVars, history
<1>4. ASSUME NEW t \in Thread, Idle(t) PROVE FlagTypes'
  BY <1>0, <1>4 DEF Idle, Stopping, FlagTypes, history
<1>5. ASSUME NEW t \in Thread, RunReturns(t) PROVE FlagTypes'
  BY <1>0, <1>5 DEF RunReturns, FlagTypes, schedVars, history
<1>6. ASSUME NEW t \in Thread, Resume(t) PROVE FlagTypes'
  BY <1>0, <1>6 DEF Resume, FlagTypes, schedVars, history
<1>7. ASSUME NEW t \in Thread, EnterFiber(t) PROVE FlagTypes'
  BY <1>0, <1>7 DEF EnterFiber, FlagTypes, schedVars, history
<1>8. ASSUME NEW t \in Thread, After(t) PROVE FlagTypes'
  BY <1>0, <1>8 DEF After, FlagTypes, schedVars, history
<1>9. ASSUME NEW t \in Thread, YieldMark(t) PROVE FlagTypes'
  BY <1>0, <1>9 DEF YieldMark, FlagTypes, schedVars, history
<1>10. ASSUME NEW t \in Thread, YieldSwap(t) PROVE FlagTypes'
  BY <1>0, <1>10 DEF YieldSwap, FlagTypes, schedVars, history
<1>11. ASSUME NEW t \in Thread, Return(t) PROVE FlagTypes'
  BY <1>0, <1>11 DEF Return, FlagTypes, schedVars, history
<1>12. ASSUME NEW t \in Thread, Throw(t) PROVE FlagTypes'
  BY <1>0, <1>12 DEF Throw, FlagTypes, schedVars, history
<1>13. ASSUME NEW t \in Thread, Park(t) PROVE FlagTypes'
  BY <1>0, <1>13 DEF Park, FlagTypes, schedVars, history
<1>14. ASSUME NEW t \in Thread, NEW thread \in {t, Null}, Requeue(t, thread) PROVE FlagTypes'
  BY <1>0, <1>14 DEF Requeue, FlagTypes, schedVars, history
<1>15. ASSUME NEW t \in Thread, NEW fs \in Lists, Wake(t, fs) PROVE FlagTypes'
  BY <1>0, <1>15 DEF Wake, FlagTypes, schedVars, history
<1>16. ASSUME NEW t \in Thread, NEW fs \in Pairs, ScheduleAll(t, fs) PROVE FlagTypes'
  BY <1>0, <1>16 DEF ScheduleAll, FlagTypes, schedVars, history
<1>17. ASSUME NEW t \in Thread, NEW f \in UserFiber, NEW isCb \in BOOLEAN, NEW pin \in Pins,
            Schedule(t, f, isCb, pin)
     PROVE  FlagTypes'
  BY <1>0, <1>17 DEF Schedule, FlagTypes, schedVars, history
<1>18. CASE StartNothing
  BY <1>0, <1>18 DEF StartNothing, FlagTypes, schedVars, history
<1>19. CASE StartThreads
  BY <1>0, <1>19 DEF StartThreads, FlagTypes, schedVars, history
<1>20. CASE StopCheck
  BY <1>0, <1>20 DEF StopCheck, FlagTypes, schedVars, history
<1>21. CASE StopSet
  BY <1>0, <1>21 DEF StopSet, FlagTypes, schedVars, history
<1>22. CASE Join
  BY <1>0, <1>22 DEF Join, FlagTypes, schedVars, history
<1>23. CASE Destruct
  BY <1>0, <1>23 DEF Destruct, FlagTypes, schedVars, history
<1>24. CASE UNCHANGED vars
  BY <1>0, <1>24 DEF vars, schedVars, FlagTypes, schedVars, history
<1> QED
  BY <1>1, <1>2, <1>3, <1>4, <1>5, <1>6, <1>7, <1>8, <1>9, <1>10, <1>11, <1>12, <1>13, <1>14, <1>15, <1>16, <1>17, <1>18, <1>19, <1>20, <1>21, <1>22, <1>23, <1>24, StepCases


\* Every step keeps the types.
LEMMA TypesKept ==
  ASSUME Inv, [Next]_vars
  PROVE  TypeOK'
<1>1. active' \in Nat /\ idle' \in Nat
  <2>1. IsFiniteSet({t \in Thread : cur'[t] # NoTask}) /\ IsFiniteSet({t \in Thread : pc'[t] = "idle"})
    BY FS_Subset, SchedulerAssumption
  <2> QED
    BY <2>1, ActiveKept, IdleKept, FS_CardinalityType DEF ActiveCountsHolders, IdleCounts
<1> QED
  BY <1>1, FiberTypesKept, SchedTypesKept, FlagTypesKept DEF TypeOK, FiberTypes, SchedTypes, FlagTypes

\* While the program goes on, no two threads are on one stack.
LEMMA StacksKept ==
  ASSUME Inv, [Next]_vars
  PROVE  (Running => Stacks)'
<1> SUFFICES ASSUME failed' = "none" PROVE Stacks'
  BY DEF Running
<1>0. /\ ctx \in [FiberObj -> FiberObj \cup {Stale}]
      /\ cpu \in [Thread -> FiberObj]
      /\ this \in [Thread -> FiberObj \cup {Null}]
      /\ state \in [FiberObj -> {"absent", "READY", "EXEC", "TERM", "freed"}]
      /\ pc \in [Thread -> Places]
      /\ cur \in [Thread -> Task \cup {NoTask}]
  BY DEF Inv, TypeOK, FiberTypeOK
<1>1s. failed = "none" => Stacks
  BY DEF Inv, Running
<1>2s. Whereabouts /\ \A w \in Worker : w \in Thread /\ w # Caller
  BY DEF Inv, Worker
<1>a. ASSUME failed = "none", UNCHANGED cpu,
             \A x \in FiberObj : ctx'[x] \in {x, Stale},
             \A u \in Thread : pc[u] \in Deep => ctx'[cpu[u]] = Stale,
             \A u \in Thread : pc'[u] \in Deep <=> pc[u] \in Deep,
             \A u \in Thread : Base(u)' = Base(u),
             \A u \in Thread : pc[u] \in Deep => cur'[u] = cur[u],
             \A u \in Thread : pc'[u] \in {"body", "leaving"} =>
               pc[u] \in {"body", "leaving"} /\ this'[u] = this[u] /\ state'[this[u]] = "EXEC"
      PROVE  Stacks'
  <2>1. \A u \in Thread : pc'[u] \notin Deep => cpu'[u] = Base(u)'
    BY <1>1s, <1>a DEF Stacks
  <2>2. \A u \in Thread : pc'[u] \in Deep => cpu'[u] = cur'[u].fiber /\ ctx'[cpu'[u]] = Stale
    BY <1>1s, <1>a DEF Stacks
  <2>3. \A t, u \in Thread : pc'[t] \in Deep /\ pc'[u] \in Deep /\ cpu'[t] = cpu'[u] => t = u
    BY <1>1s, <1>a DEF Stacks
  <2>4. \A u \in Thread : pc'[u] \in {"body", "leaving"} => this'[u] = cur'[u].fiber /\ state'[this'[u]] = "EXEC"
    BY <1>1s, <1>a DEF Stacks, Deep
  <2> QED
    BY <1>a, <2>1, <2>2, <2>3, <2>4 DEF Stacks
<1>b. ASSUME failed = "none", UNCHANGED <<ctx, cpu, cur>>,
             \A u \in Thread : pc'[u] \in Deep <=> pc[u] \in Deep,
             \A u \in Thread : Base(u)' = Base(u),
             \A u \in Thread : pc'[u] \in {"body", "leaving"} =>
               pc[u] \in {"body", "leaving"} /\ this'[u] = this[u] /\ state'[this[u]] = "EXEC"
      PROVE  Stacks'
  BY <1>1s, <1>a, <1>b DEF Stacks
<1>c. ASSUME failed = "none", NEW f \in UserFiber, Construct(f, TRUE), UNCHANGED <<cpu, this, cur>>,
             \A u \in Thread : pc'[u] \in Deep <=> pc[u] \in Deep,
             \A u \in Thread : Base(u)' = Base(u),
             \A u \in Thread : pc'[u] \in {"body", "leaving"} => pc[u] \in {"body", "leaving"}
      PROVE  Stacks'
  <2>1. state[f] = "absent" /\ state' = [state EXCEPT ![f] = "READY"] /\ ctx' = [ctx EXCEPT ![f] = f]
    BY <1>c DEF Construct
  <2>2. \A u \in Thread : pc[u] \in Deep => cpu[u] # f /\ ctx[cpu[u]] = Stale
    BY <1>1s, <1>c, <2>1 DEF Stacks, Inv, Exists, HeldExist, HoldPlaces, Deep
  <2>3. \A u \in Thread : pc[u] \in {"body", "leaving"} => state'[this[u]] = "EXEC"
    BY <1>0, <1>1s, <1>c, <2>1 DEF Stacks
  <2>4. \A x \in FiberObj : ctx'[x] \in {x, Stale}
    BY <1>0, <1>1s, <1>c, <2>1 DEF Stacks
  <2>5. \A u \in Thread : pc[u] \in Deep => ctx'[cpu[u]] = Stale
    BY <1>0, <2>1, <2>2
  <2> QED
    BY <1>a, <1>c, <2>3, <2>4, <2>5
<1>1. ASSUME NEW t \in Thread, Boot(t) PROVE Stacks'
  <2>1. failed = "none" /\ UNCHANGED <<ctx, cpu, cur>>
    BY <1>1 DEF Boot, GetThisFirst, At, fiberVars, schedVars
  <2>2. \A u \in Thread : pc'[u] \in Deep <=> pc[u] \in Deep
    BY <1>0, <1>1 DEF Boot, GetThisFirst, At, Goto, fiberVars, schedVars, Deep
  <2>3. \A u \in Thread : Base(u)' = Base(u)
    BY <1>0, <1>2s, <1>1 DEF Boot, GetThisFirst, At, Goto, fiberVars, schedVars, Base, Whereabouts, Deep, HoldPlaces, RunPlaces
  <2>4. \A u \in Thread : pc'[u] \in {"body", "leaving"} =>
          pc[u] \in {"body", "leaving"} /\ this'[u] = this[u] /\ state'[this[u]] = "EXEC"
    BY <1>0, <1>1s, <2>1, <1>1, OnStack, Names DEF Boot, GetThisFirst, SetThis, At, Goto, Stacks
  <2> QED
    BY <2>1, <2>2, <2>3, <2>4, <1>b
<1>2. ASSUME NEW t \in Thread, Take(t) PROVE Stacks'
  <2>1. failed = "none" /\ pc[t] = "loop" /\ UNCHANGED fiberVars /\ pc' = [pc EXCEPT ![t] = "resume"]
    BY <1>2 DEF Take, At, Goto
  <2>2. \A u \in Thread : (pc'[u] \in Deep <=> pc[u] \in Deep) /\ (pc[u] \in Deep => u # t)
    BY <1>0, <2>1 DEF Deep
  <2>3. \A u \in Thread : Base(u)' = Base(u)
    BY <1>0, <2>1 DEF Base, RunPlaces, HoldPlaces
  <2>4. \A u \in Thread : pc[u] \in Deep => cur'[u] = cur[u]
    BY <1>0, <2>2, <1>2 DEF Take
  <2>5. \A u \in Thread : pc'[u] \in {"body", "leaving"} =>
          pc[u] \in {"body", "leaving"} /\ this'[u] = this[u] /\ state'[this[u]] = "EXEC"
    BY <1>0, <1>1s, <2>1 DEF Stacks, fiberVars
  <2>6. /\ \A x \in FiberObj : ctx'[x] \in {x, Stale}
        /\ \A u \in Thread : pc[u] \in Deep => ctx'[cpu[u]] = Stale
        /\ UNCHANGED cpu
    BY <1>1s, <2>1 DEF Stacks, fiberVars
  <2> QED
    BY <1>a, <2>1, <2>2, <2>3, <2>4, <2>5, <2>6
<1>3. ASSUME NEW t \in Thread, TakeNothing(t) PROVE Stacks'
  <2>1. failed = "none" /\ UNCHANGED <<ctx, cpu, cur>>
    BY <1>3 DEF TakeNothing, history, At, fiberVars, schedVars
  <2>2. \A u \in Thread : pc'[u] \in Deep <=> pc[u] \in Deep
    BY <1>0, <1>3 DEF TakeNothing, history, At, Goto, fiberVars, schedVars, Deep
  <2>3. \A u \in Thread : Base(u)' = Base(u)
    BY <1>0, <1>2s, <1>3 DEF TakeNothing, history, At, Goto, fiberVars, schedVars, Base, Whereabouts, Deep, HoldPlaces, RunPlaces
  <2>4. \A u \in Thread : pc'[u] \in {"body", "leaving"} =>
          pc[u] \in {"body", "leaving"} /\ this'[u] = this[u] /\ state'[this[u]] = "EXEC"
    BY <1>0, <1>1s, <2>1, <1>3 DEF TakeNothing, At, Goto, fiberVars, schedVars, Stacks
  <2> QED
    BY <2>1, <2>2, <2>3, <2>4, <1>b
<1>4. ASSUME NEW t \in Thread, Idle(t) PROVE Stacks'
  <2>1. failed = "none" /\ UNCHANGED <<ctx, cpu, cur>>
    BY <1>4 DEF Idle, history, At, fiberVars, schedVars
  <2>2. \A u \in Thread : pc'[u] \in Deep <=> pc[u] \in Deep
    BY <1>0, <1>4 DEF Idle, history, At, Goto, fiberVars, schedVars, Deep
  <2>3. \A u \in Thread : Base(u)' = Base(u)
    BY <1>0, <1>2s, <1>4 DEF Idle, history, At, Goto, fiberVars, schedVars, Base, Whereabouts, Deep, HoldPlaces, RunPlaces
  <2>4. \A u \in Thread : pc'[u] \in {"body", "leaving"} =>
          pc[u] \in {"body", "leaving"} /\ this'[u] = this[u] /\ state'[this[u]] = "EXEC"
    BY <1>0, <1>1s, <2>1, <1>4 DEF Idle, At, Goto, fiberVars, schedVars, Stacks
  <2> QED
    BY <2>1, <2>2, <2>3, <2>4, <1>b
<1>5. ASSUME NEW t \in Thread, RunReturns(t) PROVE Stacks'
  <2>1. CASE t = Caller
    <3>1. /\ pc[Caller] = "loop" /\ failed = "none" /\ pc' = [pc EXCEPT ![Caller] = "join"]
          /\ \A u \in Thread : u # Caller => this'[u] = this[u]
          /\ \A f \in UserFiber : state'[f] = state[f]
          /\ UNCHANGED cur
          /\ ctx' = [ctx EXCEPT ![Root] = Root, ![Caller] = Stale]
          /\ cpu' = [cpu EXCEPT ![Caller] = Caller]
      BY <1>0, <1>5, <2>1, RootReturnsEffect, Names DEF SwapFaults
    <3>2. \A u \in Thread : pc[u] \in Deep => cpu[u] \in UserFiber /\ u # Caller /\ ctx'[cpu[u]] = Stale
      BY <1>0, <1>1s, <3>1, InHand, Names DEF Stacks, HoldPlaces, Deep
    <3>3. \A u \in Thread : u # Caller => pc'[u] = pc[u] /\ cpu'[u] = cpu[u] /\ Base(u)' = Base(u)
      BY <1>0, <3>1 DEF Base
    <3>4. pc'[Caller] = "join" /\ cpu'[Caller] = Base(Caller)' /\ pc'[Caller] \notin Deep
          /\ pc'[Caller] \notin {"body", "leaving"}
      BY <1>0, <3>1, Names DEF Base, RunPlaces, HoldPlaces, Deep
    <3>5. \A x \in FiberObj : ctx'[x] \in {x, Stale}
      BY <1>0, <1>1s, <3>1, Names DEF Stacks
    <3>6. \A u \in Thread : pc'[u] \notin Deep => cpu'[u] = Base(u)'
      BY <1>1s, <3>1, <3>3, <3>4 DEF Stacks
    <3>7. \A u \in Thread : pc'[u] \in Deep => cpu'[u] = cur'[u].fiber /\ ctx'[cpu'[u]] = Stale
      BY <1>1s, <3>1, <3>2, <3>3, <3>4 DEF Stacks
    <3>8. \A v, u \in Thread : pc'[v] \in Deep /\ pc'[u] \in Deep /\ cpu'[v] = cpu'[u] => v = u
      BY <1>1s, <3>1, <3>3, <3>4 DEF Stacks
    <3>9. \A u \in Thread : pc'[u] \in {"body", "leaving"} => this'[u] = cur'[u].fiber /\ state'[this'[u]] = "EXEC"
      BY <1>1s, <3>1, <3>2, <3>3, <3>4 DEF Stacks, Deep
    <3> QED
      BY <3>5, <3>6, <3>7, <3>8, <3>9 DEF Stacks
  <2>2. CASE t # Caller
    <3>1. failed = "none" /\ UNCHANGED <<ctx, cpu, cur>>
      BY <1>5, <2>2 DEF RunReturns, DestroyMain, Fault, At, fiberVars, schedVars
    <3>2. \A u \in Thread : pc'[u] \in Deep <=> pc[u] \in Deep
      BY <1>0, <1>5, <2>2 DEF RunReturns, DestroyMain, Fault, At, Goto, fiberVars, schedVars, Deep
    <3>3. \A u \in Thread : Base(u)' = Base(u)
      BY <1>0, <1>2s, <1>5, <2>2 DEF RunReturns, DestroyMain, Fault, At, Goto, fiberVars, schedVars, Base, Whereabouts, Deep, HoldPlaces, RunPlaces
    <3>4. \A u \in Thread : pc'[u] \in {"body", "leaving"} =>
            pc[u] \in {"body", "leaving"} /\ this'[u] = this[u] /\ state'[this[u]] = "EXEC"
      BY <1>0, <1>1s, <3>1, <1>5, <2>2, OnStack, Names DEF RunReturns, DestroyMain, Fault, At, Goto, Stacks
    <3> QED
      BY <3>1, <3>2, <3>3, <3>4, <1>b
  <2> QED
    BY <2>1, <2>2
<1>6. ASSUME NEW t \in Thread, Resume(t) PROVE Stacks'
  <2>1. CASE cur[t].cb
    <3>1. /\ failed = "none" /\ UNCHANGED <<cpu, this, cur>> /\ cur[t].fiber \in UserFiber /\ Construct(cur[t].fiber, TRUE)
          /\ pc[t] = "resume" /\ pc' = [pc EXCEPT ![t] = "enter"]
      BY <1>6, <2>1, InHand DEF Resume, At, Goto, HoldPlaces
    <3>2. /\ \A u \in Thread : pc'[u] \in Deep <=> pc[u] \in Deep
          /\ \A u \in Thread : Base(u)' = Base(u)
          /\ \A u \in Thread : pc'[u] \in {"body", "leaving"} => pc[u] \in {"body", "leaving"}
      BY <1>0, <3>1 DEF Base, Deep, HoldPlaces, RunPlaces
    <3> QED
      BY <1>c, <3>1, <3>2
  <2>2. CASE ~cur[t].cb
    <3>1. failed = "none" /\ UNCHANGED <<ctx, cpu, cur>>
      BY <1>6, <2>2 DEF Resume, At, fiberVars, schedVars
    <3>2. \A u \in Thread : pc'[u] \in Deep <=> pc[u] \in Deep
      BY <1>0, <1>6, <2>2 DEF Resume, At, Goto, fiberVars, schedVars, Deep
    <3>3. \A u \in Thread : Base(u)' = Base(u)
      BY <1>0, <1>2s, <1>6, <2>2 DEF Resume, At, Goto, fiberVars, schedVars, Base, Whereabouts, Deep, HoldPlaces, RunPlaces
    <3>4. \A u \in Thread : pc'[u] \in {"body", "leaving"} =>
            pc[u] \in {"body", "leaving"} /\ this'[u] = this[u] /\ state'[this[u]] = "EXEC"
      BY <1>0, <1>1s, <3>1, <1>6, <2>2 DEF Resume, At, Goto, fiberVars, schedVars, Stacks
    <3> QED
      BY <3>1, <3>2, <3>3, <3>4, <1>b
  <2> QED
    BY <2>1, <2>2
<1>7. ASSUME NEW t \in Thread, EnterFiber(t) PROVE Stacks'
  <2> DEFINE f == cur[t].fiber
  <2>1. /\ pc[t] = "enter" /\ failed = "none" /\ f \in UserFiber
        /\ this' = [this EXCEPT ![t] = f]
        /\ state' = [state EXCEPT ![f] = "EXEC"]
        /\ pc' = [pc EXCEPT ![t] = "body"]
        /\ UNCHANGED cur
        /\ ctx[f] = f
        /\ ctx' = [ctx EXCEPT ![Base(t)] = Base(t), ![f] = Stale]
        /\ cpu' = [cpu EXCEPT ![t] = f]
    BY <1>7, EnterEffect DEF SwapFaults
  <2>2. Base(t) \in FiberObj \ UserFiber /\ Base(t) # f /\ f \in FiberObj /\ f # Stale
    BY <2>1, BaseType, Names
  <2>3. \A u \in Thread : pc[u] \in Deep => cpu[u] \in UserFiber /\ cpu[u] # f /\ u # t /\ ctx[cpu[u]] = Stale
    BY <1>1s, <2>1, <2>2, InHand DEF Stacks, HoldPlaces, Deep
  <2>4. \A u \in Thread : u # t => pc'[u] = pc[u] /\ cpu'[u] = cpu[u] /\ this'[u] = this[u] /\ Base(u)' = Base(u)
    BY <1>0, <2>1 DEF Base
  <2>5. pc'[t] = "body" /\ cpu'[t] = f /\ this'[t] = f /\ state'[f] = "EXEC" /\ ctx'[f] = Stale
    BY <1>0, <2>1, <2>2
  <2> HIDE DEF f
  <2>6. \A x \in FiberObj : ctx'[x] \in {x, Stale}
    BY <1>0, <1>1s, <2>1, <2>2 DEF Stacks
  <2>7. \A u \in Thread : pc'[u] \notin Deep => cpu'[u] = Base(u)'
    BY <1>1s, <2>1, <2>4, <2>5 DEF Stacks, Deep
  <2>8. \A u \in Thread : pc'[u] \in Deep => cpu'[u] = cur'[u].fiber /\ ctx'[cpu'[u]] = Stale
    <3> TAKE u \in Thread
    <3>1. CASE u = t
      BY <2>1, <2>5, <3>1 DEF f
    <3>2. CASE u # t
      BY <1>0, <1>1s, <2>1, <2>2, <2>3, <2>4, <3>2 DEF Stacks
    <3> QED
      BY <3>1, <3>2
  <2>9. \A v, u \in Thread : pc'[v] \in Deep /\ pc'[u] \in Deep /\ cpu'[v] = cpu'[u] => v = u
    BY <1>1s, <2>1, <2>3, <2>4, <2>5 DEF Stacks
  <2>10. \A u \in Thread : pc'[u] \in {"body", "leaving"} => this'[u] = cur'[u].fiber /\ state'[this'[u]] = "EXEC"
    <3> TAKE u \in Thread
    <3>1. CASE u = t
      BY <2>1, <2>5, <3>1 DEF f
    <3>2. CASE u # t
      BY <1>0, <1>1s, <2>1, <2>2, <2>4, <3>2 DEF Stacks
    <3> QED
      BY <3>1, <3>2
  <2> QED
    BY <2>6, <2>7, <2>8, <2>9, <2>10 DEF Stacks
<1>8. ASSUME NEW t \in Thread, After(t) PROVE Stacks'
  <2>1. failed = "none" /\ pc[t] = "after" /\ UNCHANGED <<ctx, cpu, this>> /\ pc' = [pc EXCEPT ![t] = "loop"]
        /\ cur' = [cur EXCEPT ![t] = NoTask]
    BY <1>8 DEF After, At, Goto
  <2>2. \A u \in Thread : (pc'[u] \in Deep <=> pc[u] \in Deep) /\ (pc[u] \in Deep => u # t)
    BY <1>0, <2>1 DEF Deep
  <2>3. \A u \in Thread : Base(u)' = Base(u)
    BY <1>0, <2>1 DEF Base, RunPlaces, HoldPlaces
  <2>4. \A u \in Thread : pc[u] \in Deep => cur'[u] = cur[u]
    BY <1>0, <2>1, <2>2
  <2>5. ASSUME NEW u \in Thread, pc'[u] \in {"body", "leaving"}
        PROVE  pc[u] \in {"body", "leaving"} /\ this'[u] = this[u] /\ state'[this[u]] = "EXEC"
    <3>1. u # t /\ pc[u] \in {"body", "leaving"}
      BY <1>0, <2>1, <2>5
    <3>2. this[u] = cur[u].fiber /\ state[this[u]] = "EXEC"
      BY <1>1s, <2>1, <3>1 DEF Stacks
    <3>3. CASE Referenced(t, cur[t].fiber)
      BY <1>8, <2>1, <3>1, <3>2, <3>3 DEF After
    <3>4. CASE ~Referenced(t, cur[t].fiber)
      <4>1. cur[u].fiber # cur[t].fiber
        BY <3>1, <3>4 DEF Referenced
      <4>2. state' = [state EXCEPT ![cur[t].fiber] = "freed"]
        BY <1>8, <3>4 DEF After, Destroy, Fault
      <4> QED
        BY <1>0, <2>1, <3>1, <3>2, <4>1, <4>2
    <3> QED
      BY <3>3, <3>4
  <2>6. /\ \A x \in FiberObj : ctx'[x] \in {x, Stale}
        /\ \A u \in Thread : pc[u] \in Deep => ctx'[cpu[u]] = Stale
        /\ UNCHANGED cpu
    BY <1>1s, <2>1 DEF Stacks
  <2> QED
    BY <1>a, <2>1, <2>2, <2>3, <2>4, <2>5, <2>6
<1>9. ASSUME NEW t \in Thread, YieldMark(t) PROVE Stacks'
  <2>1. failed = "none" /\ UNCHANGED <<ctx, cpu, cur>>
    BY <1>9 DEF YieldMark, MarkReady, MarkThrown, At, fiberVars, schedVars
  <2>2. \A u \in Thread : pc'[u] \in Deep <=> pc[u] \in Deep
    BY <1>0, <1>9 DEF YieldMark, MarkReady, MarkThrown, At, Goto, fiberVars, schedVars, Deep
  <2>3. \A u \in Thread : Base(u)' = Base(u)
    BY <1>0, <1>2s, <1>9 DEF YieldMark, MarkReady, MarkThrown, At, Goto, fiberVars, schedVars, Base, Whereabouts, Deep, HoldPlaces, RunPlaces
  <2>4. \A u \in Thread : pc'[u] \in {"body", "leaving"} =>
          pc[u] \in {"body", "leaving"} /\ this'[u] = this[u] /\ state'[this[u]] = "EXEC"
    <3> SUFFICES ASSUME NEW u \in Thread, pc'[u] \in {"body", "leaving"}
                 PROVE  pc[u] \in {"body", "leaving"} /\ this'[u] = this[u] /\ state'[this[u]] = "EXEC"
      OBVIOUS
    <3>1. u # t /\ pc[u] \in {"body", "leaving"}
      BY <1>0, <1>9 DEF YieldMark, At, Goto
    <3>2. this[u] # this[t] /\ state[this[u]] = "EXEC"
      BY <2>1, <3>1, <1>9, OnStack, <1>1s DEF YieldMark, At, Stacks
    <3> QED
      BY <1>0, <3>1, <3>2, <1>9 DEF YieldMark, MarkReady, MarkThrown, SetThis
  <2> QED
    BY <2>1, <2>2, <2>3, <2>4, <1>b
<1>10. ASSUME NEW t \in Thread, YieldSwap(t) PROVE Stacks'
  <2> DEFINE f == cur[t].fiber
  <2>1. /\ pc[t] = "marked" /\ failed = "none" /\ f \in UserFiber /\ cpu[t] = f
        /\ \A u \in Thread : u # t => this'[u] = this[u]
        /\ UNCHANGED state
        /\ pc' = [pc EXCEPT ![t] = "after"]
        /\ UNCHANGED cur
        /\ ctx' = [ctx EXCEPT ![f] = f, ![Base(t)] = Stale]
        /\ cpu' = [cpu EXCEPT ![t] = Base(t)]
    BY <1>0, <1>10, YieldSwapEffect DEF SwapFaults
  <2>2. Base(t) \in FiberObj \ UserFiber /\ Base(t) # f /\ f \in FiberObj /\ f # Stale
    BY <2>1, BaseType, Names
  <2>3. \A u \in Thread : pc[u] \in Deep /\ u # t => cpu[u] \in UserFiber /\ cpu[u] # f /\ ctx[cpu[u]] = Stale
    BY <1>1s, <2>1, <2>2, InHand DEF Stacks, HoldPlaces, Deep
  <2>4. \A u \in Thread : u # t => pc'[u] = pc[u] /\ cpu'[u] = cpu[u] /\ Base(u)' = Base(u)
    BY <1>0, <2>1 DEF Base
  <2>5. pc'[t] = "after" /\ cpu'[t] = Base(t)' /\ pc'[t] \notin Deep /\ pc'[t] \notin {"body", "leaving"}
    BY <1>0, <2>1 DEF Base, RunPlaces, HoldPlaces, Deep
  <2> HIDE DEF f
  <2>6. \A x \in FiberObj : ctx'[x] \in {x, Stale}
    BY <1>0, <1>1s, <2>1, <2>2 DEF Stacks
  <2>7. \A u \in Thread : pc'[u] \notin Deep => cpu'[u] = Base(u)'
    BY <1>1s, <2>1, <2>4, <2>5 DEF Stacks
  <2>8. \A u \in Thread : pc'[u] \in Deep => cpu'[u] = cur'[u].fiber /\ ctx'[cpu'[u]] = Stale
    BY <1>0, <1>1s, <2>1, <2>2, <2>3, <2>4, <2>5 DEF Stacks
  <2>9. \A v, u \in Thread : pc'[v] \in Deep /\ pc'[u] \in Deep /\ cpu'[v] = cpu'[u] => v = u
    BY <1>1s, <2>1, <2>3, <2>4, <2>5 DEF Stacks
  <2>10. \A u \in Thread : pc'[u] \in {"body", "leaving"} => this'[u] = cur'[u].fiber /\ state'[this'[u]] = "EXEC"
    <3> TAKE u \in Thread
    <3>1. CASE u # t /\ pc'[u] \in {"body", "leaving"}
      <4>1. pc[u] \in {"body", "leaving"} /\ this'[u] = this[u] /\ this[u] = cur[u].fiber /\ state[this[u]] = "EXEC"
        BY <1>1s, <2>1, <2>4, <3>1 DEF Stacks
      <4>2. this[u] # f
        BY <1>1s, <2>1, <2>3, <3>1, <4>1 DEF Stacks, Deep
      <4> QED
        BY <1>0, <2>1, <4>1, <4>2
    <3> QED
      BY <2>5, <3>1
  <2> QED
    BY <2>6, <2>7, <2>8, <2>9, <2>10 DEF Stacks
<1>11. ASSUME NEW t \in Thread, Return(t) PROVE Stacks'
  <2> DEFINE f == cur[t].fiber
  <2>1. /\ pc[t] = "body" /\ failed = "none" /\ f \in UserFiber /\ cpu[t] = f
        /\ \A u \in Thread : u # t => this'[u] = this[u]
        /\ state' = [state EXCEPT ![f] = "TERM"]
        /\ pc' = [pc EXCEPT ![t] = "after"]
        /\ UNCHANGED cur
        /\ ctx' = [ctx EXCEPT ![f] = f, ![Base(t)] = Stale]
        /\ cpu' = [cpu EXCEPT ![t] = Base(t)]
    BY <1>0, <1>11, ReturnEffect DEF SwapFaults
  <2>2. Base(t) \in FiberObj \ UserFiber /\ Base(t) # f /\ f \in FiberObj /\ f # Stale
    BY <2>1, BaseType, Names
  <2>3. \A u \in Thread : pc[u] \in Deep /\ u # t => cpu[u] \in UserFiber /\ cpu[u] # f /\ ctx[cpu[u]] = Stale
    BY <1>1s, <2>1, <2>2, InHand DEF Stacks, HoldPlaces, Deep
  <2>4. \A u \in Thread : u # t => pc'[u] = pc[u] /\ cpu'[u] = cpu[u] /\ Base(u)' = Base(u)
    BY <1>0, <2>1 DEF Base
  <2>5. pc'[t] = "after" /\ cpu'[t] = Base(t)' /\ pc'[t] \notin Deep /\ pc'[t] \notin {"body", "leaving"}
    BY <1>0, <2>1 DEF Base, RunPlaces, HoldPlaces, Deep
  <2> HIDE DEF f
  <2>6. \A x \in FiberObj : ctx'[x] \in {x, Stale}
    BY <1>0, <1>1s, <2>1, <2>2 DEF Stacks
  <2>7. \A u \in Thread : pc'[u] \notin Deep => cpu'[u] = Base(u)'
    BY <1>1s, <2>1, <2>4, <2>5 DEF Stacks
  <2>8. \A u \in Thread : pc'[u] \in Deep => cpu'[u] = cur'[u].fiber /\ ctx'[cpu'[u]] = Stale
    BY <1>0, <1>1s, <2>1, <2>2, <2>3, <2>4, <2>5 DEF Stacks
  <2>9. \A v, u \in Thread : pc'[v] \in Deep /\ pc'[u] \in Deep /\ cpu'[v] = cpu'[u] => v = u
    BY <1>1s, <2>1, <2>3, <2>4, <2>5 DEF Stacks
  <2>10. \A u \in Thread : pc'[u] \in {"body", "leaving"} => this'[u] = cur'[u].fiber /\ state'[this'[u]] = "EXEC"
    <3> TAKE u \in Thread
    <3>1. CASE u # t /\ pc'[u] \in {"body", "leaving"}
      <4>1. pc[u] \in {"body", "leaving"} /\ this'[u] = this[u] /\ this[u] = cur[u].fiber /\ state[this[u]] = "EXEC"
        BY <1>1s, <2>1, <2>4, <3>1 DEF Stacks
      <4>2. this[u] # f
        BY <1>1s, <2>1, <2>3, <3>1, <4>1 DEF Stacks, Deep
      <4> QED
        BY <1>0, <2>1, <4>1, <4>2
    <3> QED
      BY <2>5, <3>1
  <2> QED
    BY <2>6, <2>7, <2>8, <2>9, <2>10 DEF Stacks
<1>12. ASSUME NEW t \in Thread, Throw(t) PROVE Stacks'
  <2>1. failed = "none" /\ UNCHANGED <<ctx, cpu, cur>>
    BY <1>12 DEF Throw, MarkReady, MarkThrown, At, fiberVars, schedVars
  <2>2. \A u \in Thread : pc'[u] \in Deep <=> pc[u] \in Deep
    BY <1>0, <1>12 DEF Throw, MarkReady, MarkThrown, At, Goto, fiberVars, schedVars, Deep
  <2>3. \A u \in Thread : Base(u)' = Base(u)
    BY <1>0, <1>2s, <1>12 DEF Throw, MarkReady, MarkThrown, At, Goto, fiberVars, schedVars, Base, Whereabouts, Deep, HoldPlaces, RunPlaces
  <2>4. \A u \in Thread : pc'[u] \in {"body", "leaving"} =>
          pc[u] \in {"body", "leaving"} /\ this'[u] = this[u] /\ state'[this[u]] = "EXEC"
    <3> SUFFICES ASSUME NEW u \in Thread, pc'[u] \in {"body", "leaving"}
                 PROVE  pc[u] \in {"body", "leaving"} /\ this'[u] = this[u] /\ state'[this[u]] = "EXEC"
      OBVIOUS
    <3>1. u # t /\ pc[u] \in {"body", "leaving"}
      BY <1>0, <1>12 DEF Throw, At, Goto
    <3>2. this[u] # this[t] /\ state[this[u]] = "EXEC"
      BY <2>1, <3>1, <1>12, OnStack, <1>1s DEF Throw, At, Stacks
    <3> QED
      BY <1>0, <3>1, <3>2, <1>12 DEF Throw, MarkReady, MarkThrown, SetThis
  <2> QED
    BY <2>1, <2>2, <2>3, <2>4, <1>b
<1>13. ASSUME NEW t \in Thread, Park(t) PROVE Stacks'
  <2>1. failed = "none" /\ UNCHANGED <<ctx, cpu, cur>>
    BY <1>13 DEF Park, history, At, fiberVars, schedVars
  <2>2. \A u \in Thread : pc'[u] \in Deep <=> pc[u] \in Deep
    BY <1>0, <1>13 DEF Park, history, At, Goto, fiberVars, schedVars, Deep
  <2>3. \A u \in Thread : Base(u)' = Base(u)
    BY <1>0, <1>2s, <1>13 DEF Park, history, At, Goto, fiberVars, schedVars, Base, Whereabouts, Deep, HoldPlaces, RunPlaces
  <2>4. \A u \in Thread : pc'[u] \in {"body", "leaving"} =>
          pc[u] \in {"body", "leaving"} /\ this'[u] = this[u] /\ state'[this[u]] = "EXEC"
    BY <1>0, <1>1s, <2>1, <1>13 DEF Park, At, Goto, fiberVars, schedVars, Stacks
  <2> QED
    BY <2>1, <2>2, <2>3, <2>4, <1>b
<1>14. ASSUME NEW t \in Thread, NEW thread \in {t, Null}, Requeue(t, thread) PROVE Stacks'
  <2>1. failed = "none" /\ UNCHANGED <<ctx, cpu, cur>>
    BY <1>14 DEF Requeue, history, At, fiberVars, schedVars
  <2>2. \A u \in Thread : pc'[u] \in Deep <=> pc[u] \in Deep
    BY <1>0, <1>14 DEF Requeue, history, At, Goto, fiberVars, schedVars, Deep
  <2>3. \A u \in Thread : Base(u)' = Base(u)
    BY <1>0, <1>2s, <1>14 DEF Requeue, history, At, Goto, fiberVars, schedVars, Base, Whereabouts, Deep, HoldPlaces, RunPlaces
  <2>4. \A u \in Thread : pc'[u] \in {"body", "leaving"} =>
          pc[u] \in {"body", "leaving"} /\ this'[u] = this[u] /\ state'[this[u]] = "EXEC"
    BY <1>0, <1>1s, <2>1, <1>14 DEF Requeue, At, Goto, fiberVars, schedVars, Stacks
  <2> QED
    BY <2>1, <2>2, <2>3, <2>4, <1>b
<1>15. ASSUME NEW t \in Thread, NEW fs \in Lists, Wake(t, fs) PROVE Stacks'
  <2>1. failed = "none" /\ UNCHANGED <<ctx, cpu, cur>>
    BY <1>15 DEF Wake, history, At, fiberVars, schedVars
  <2>2. \A u \in Thread : pc'[u] \in Deep <=> pc[u] \in Deep
    BY <1>0, <1>15 DEF Wake, history, At, Goto, fiberVars, schedVars, Deep
  <2>3. \A u \in Thread : Base(u)' = Base(u)
    BY <1>0, <1>2s, <1>15 DEF Wake, history, At, Goto, fiberVars, schedVars, Base, Whereabouts, Deep, HoldPlaces, RunPlaces
  <2>4. \A u \in Thread : pc'[u] \in {"body", "leaving"} =>
          pc[u] \in {"body", "leaving"} /\ this'[u] = this[u] /\ state'[this[u]] = "EXEC"
    BY <1>0, <1>1s, <2>1, <1>15 DEF Wake, At, Goto, fiberVars, schedVars, Stacks
  <2> QED
    BY <2>1, <2>2, <2>3, <2>4, <1>b
<1>16. ASSUME NEW t \in Thread, NEW fs \in Pairs, ScheduleAll(t, fs) PROVE Stacks'
  <2>1. failed = "none" /\ UNCHANGED <<ctx, cpu, cur>>
    BY <1>16 DEF ScheduleAll, history, At, fiberVars, schedVars
  <2>2. \A u \in Thread : pc'[u] \in Deep <=> pc[u] \in Deep
    BY <1>0, <1>16 DEF ScheduleAll, history, At, Goto, fiberVars, schedVars, Deep
  <2>3. \A u \in Thread : Base(u)' = Base(u)
    BY <1>0, <1>2s, <1>16 DEF ScheduleAll, history, At, Goto, fiberVars, schedVars, Base, Whereabouts, Deep, HoldPlaces, RunPlaces
  <2>4. \A u \in Thread : pc'[u] \in {"body", "leaving"} =>
          pc[u] \in {"body", "leaving"} /\ this'[u] = this[u] /\ state'[this[u]] = "EXEC"
    BY <1>0, <1>1s, <2>1, <1>16 DEF ScheduleAll, At, Goto, fiberVars, schedVars, Stacks
  <2> QED
    BY <2>1, <2>2, <2>3, <2>4, <1>b
<1>17. ASSUME NEW t \in Thread, NEW f \in UserFiber, NEW isCb \in BOOLEAN, NEW pin \in Pins,
            Schedule(t, f, isCb, pin)
     PROVE  Stacks'
  <2>1. CASE ~isCb
    <3>1. /\ failed = "none" /\ UNCHANGED <<cpu, this, cur>> /\ f \in UserFiber /\ Construct(f, TRUE)
          /\ UNCHANGED pc
      BY <1>17, <2>1 DEF Schedule, At, Goto, MaySchedule
    <3>2. /\ \A u \in Thread : pc'[u] \in Deep <=> pc[u] \in Deep
          /\ \A u \in Thread : Base(u)' = Base(u)
          /\ \A u \in Thread : pc'[u] \in {"body", "leaving"} => pc[u] \in {"body", "leaving"}
      BY <1>0, <3>1 DEF Base, Deep, HoldPlaces, RunPlaces
    <3> QED
      BY <1>c, <3>1, <3>2
  <2>2. CASE isCb
    <3>1. failed = "none" /\ UNCHANGED <<ctx, cpu, cur>>
      BY <1>17, <2>2 DEF Schedule, MaySchedule, At, fiberVars, schedVars
    <3>2. \A u \in Thread : pc'[u] \in Deep <=> pc[u] \in Deep
      BY <1>0, <1>17, <2>2 DEF Schedule, MaySchedule, At, Goto, fiberVars, schedVars, Deep
    <3>3. \A u \in Thread : Base(u)' = Base(u)
      BY <1>0, <1>2s, <1>17, <2>2 DEF Schedule, MaySchedule, At, Goto, fiberVars, schedVars, Base, Whereabouts, Deep, HoldPlaces, RunPlaces
    <3>4. \A u \in Thread : pc'[u] \in {"body", "leaving"} =>
            pc[u] \in {"body", "leaving"} /\ this'[u] = this[u] /\ state'[this[u]] = "EXEC"
      BY <1>0, <1>1s, <3>1, <1>17, <2>2 DEF Schedule, At, Goto, fiberVars, schedVars, Stacks
    <3> QED
      BY <3>1, <3>2, <3>3, <3>4, <1>b
  <2> QED
    BY <2>1, <2>2
<1>18. CASE StartNothing
  <2>1. failed = "none" /\ UNCHANGED <<ctx, cpu, cur>>
    BY <1>18 DEF StartNothing, history, At, fiberVars, schedVars
  <2>2. \A u \in Thread : pc'[u] \in Deep <=> pc[u] \in Deep
    BY <1>0, <1>18 DEF StartNothing, history, At, Goto, fiberVars, schedVars, Deep
  <2>3. \A u \in Thread : Base(u)' = Base(u)
    BY <1>0, <1>2s, <1>18 DEF StartNothing, history, At, Goto, fiberVars, schedVars, Base, Whereabouts, Deep, HoldPlaces, RunPlaces
  <2>4. \A u \in Thread : pc'[u] \in {"body", "leaving"} =>
          pc[u] \in {"body", "leaving"} /\ this'[u] = this[u] /\ state'[this[u]] = "EXEC"
    BY <1>0, <1>1s, <2>1, <1>18 DEF StartNothing, At, Goto, fiberVars, schedVars, Stacks
  <2> QED
    BY <2>1, <2>2, <2>3, <2>4, <1>b
<1>19. CASE StartThreads
  <2>1. failed = "none" /\ UNCHANGED <<ctx, cpu, cur>>
    BY <1>19 DEF StartThreads, Fault, At, fiberVars, schedVars
  <2>2. \A u \in Thread : pc'[u] \in Deep <=> pc[u] \in Deep
    BY <1>0, <1>19 DEF StartThreads, Fault, At, Goto, fiberVars, schedVars, Deep
  <2>3. \A u \in Thread : Base(u)' = Base(u)
    BY <1>0, <1>2s, <1>19 DEF StartThreads, Fault, At, Goto, fiberVars, schedVars, Base, Whereabouts, Deep, HoldPlaces, RunPlaces
  <2>4. \A u \in Thread : pc'[u] \in {"body", "leaving"} =>
          pc[u] \in {"body", "leaving"} /\ this'[u] = this[u] /\ state'[this[u]] = "EXEC"
    BY <1>0, <1>1s, <2>1, <1>19 DEF StartThreads, At, Goto, fiberVars, schedVars, Stacks, Worker
  <2> QED
    BY <2>1, <2>2, <2>3, <2>4, <1>b
<1>20. CASE StopCheck
  <2>1. failed = "none" /\ UNCHANGED <<ctx, cpu, cur>>
    BY <1>20 DEF StopCheck, history, At, fiberVars, schedVars
  <2>2. \A u \in Thread : pc'[u] \in Deep <=> pc[u] \in Deep
    BY <1>0, <1>20 DEF StopCheck, history, At, Goto, fiberVars, schedVars, Deep
  <2>3. \A u \in Thread : Base(u)' = Base(u)
    BY <1>0, <1>2s, <1>20 DEF StopCheck, history, At, Goto, fiberVars, schedVars, Base, Whereabouts, Deep, HoldPlaces, RunPlaces
  <2>4. \A u \in Thread : pc'[u] \in {"body", "leaving"} =>
          pc[u] \in {"body", "leaving"} /\ this'[u] = this[u] /\ state'[this[u]] = "EXEC"
    BY <1>0, <1>1s, <2>1, <1>20 DEF StopCheck, At, Goto, fiberVars, schedVars, Stacks
  <2> QED
    BY <2>1, <2>2, <2>3, <2>4, <1>b
<1>21. CASE StopSet
  <2>1. CASE UseCaller
    <3>1. /\ pc[Caller] = "stopSet" /\ failed = "none" /\ pc' = [pc EXCEPT ![Caller] = "loop"]
          /\ \A u \in Thread : u # Caller => this'[u] = this[u]
          /\ \A f \in UserFiber : state'[f] = state[f]
          /\ UNCHANGED cur
          /\ ctx' = [ctx EXCEPT ![Caller] = Caller, ![Root] = Stale]
          /\ cpu' = [cpu EXCEPT ![Caller] = Root]
      BY <1>0, <1>21, <2>1, StopSetEffect, Names DEF SwapFaults
    <3>2. \A u \in Thread : pc[u] \in Deep => cpu[u] \in UserFiber /\ u # Caller /\ ctx'[cpu[u]] = Stale
      BY <1>0, <1>1s, <3>1, InHand, Names DEF Stacks, HoldPlaces, Deep
    <3>3. \A u \in Thread : u # Caller => pc'[u] = pc[u] /\ cpu'[u] = cpu[u] /\ Base(u)' = Base(u)
      BY <1>0, <3>1 DEF Base
    <3>4. pc'[Caller] = "loop" /\ cpu'[Caller] = Base(Caller)' /\ pc'[Caller] \notin Deep
          /\ pc'[Caller] \notin {"body", "leaving"}
      BY <1>0, <3>1, Names DEF Base, RunPlaces, HoldPlaces, Deep
    <3>5. \A x \in FiberObj : ctx'[x] \in {x, Stale}
      BY <1>0, <1>1s, <3>1, Names DEF Stacks
    <3>6. \A u \in Thread : pc'[u] \notin Deep => cpu'[u] = Base(u)'
      BY <1>1s, <3>1, <3>3, <3>4 DEF Stacks
    <3>7. \A u \in Thread : pc'[u] \in Deep => cpu'[u] = cur'[u].fiber /\ ctx'[cpu'[u]] = Stale
      BY <1>1s, <3>1, <3>2, <3>3, <3>4 DEF Stacks
    <3>8. \A v, u \in Thread : pc'[v] \in Deep /\ pc'[u] \in Deep /\ cpu'[v] = cpu'[u] => v = u
      BY <1>1s, <3>1, <3>3, <3>4 DEF Stacks
    <3>9. \A u \in Thread : pc'[u] \in {"body", "leaving"} => this'[u] = cur'[u].fiber /\ state'[this'[u]] = "EXEC"
      BY <1>1s, <3>1, <3>2, <3>3, <3>4 DEF Stacks, Deep
    <3> QED
      BY <3>5, <3>6, <3>7, <3>8, <3>9 DEF Stacks
  <2>2. CASE ~UseCaller
    <3>1. failed = "none" /\ UNCHANGED <<ctx, cpu, cur>>
      BY <1>21, <2>2, StopSetEffect, Names DEF history, At, fiberVars, schedVars
    <3>2. \A u \in Thread : pc'[u] \in Deep <=> pc[u] \in Deep
      BY <1>0, <1>21, <2>2, StopSetEffect, Names DEF history, At, Goto, fiberVars, schedVars, Deep
    <3>3. \A u \in Thread : Base(u)' = Base(u)
      BY <1>0, <1>2s, <1>21, <2>2, StopSetEffect, Names DEF history, At, Goto, fiberVars, schedVars, Base, Whereabouts, Deep, HoldPlaces, RunPlaces
    <3>4. \A u \in Thread : pc'[u] \in {"body", "leaving"} =>
            pc[u] \in {"body", "leaving"} /\ this'[u] = this[u] /\ state'[this[u]] = "EXEC"
      BY <1>0, <1>1s, <3>1, <1>21, <2>2, StopSetEffect, Names DEF fiberVars, Stacks
    <3> QED
      BY <3>1, <3>2, <3>3, <3>4, <1>b
  <2> QED
    BY <2>1, <2>2
<1>22. CASE Join
  <2>1. failed = "none" /\ UNCHANGED <<ctx, cpu, cur>>
    BY <1>22 DEF Join, history, At, fiberVars, schedVars
  <2>2. \A u \in Thread : pc'[u] \in Deep <=> pc[u] \in Deep
    BY <1>0, <1>22 DEF Join, history, At, Goto, fiberVars, schedVars, Deep
  <2>3. \A u \in Thread : Base(u)' = Base(u)
    BY <1>0, <1>2s, <1>22 DEF Join, history, At, Goto, fiberVars, schedVars, Base, Whereabouts, Deep, HoldPlaces, RunPlaces
  <2>4. \A u \in Thread : pc'[u] \in {"body", "leaving"} =>
          pc[u] \in {"body", "leaving"} /\ this'[u] = this[u] /\ state'[this[u]] = "EXEC"
    BY <1>0, <1>1s, <2>1, <1>22 DEF Join, At, Goto, fiberVars, schedVars, Stacks
  <2> QED
    BY <2>1, <2>2, <2>3, <2>4, <1>b
<1>23. CASE Destruct
  <2>1. failed = "none" /\ UNCHANGED <<ctx, cpu, cur>>
    BY <1>23 DEF Destruct, history, At, fiberVars, schedVars
  <2>2. \A u \in Thread : pc'[u] \in Deep <=> pc[u] \in Deep
    BY <1>0, <1>23 DEF Destruct, history, At, Goto, fiberVars, schedVars, Deep
  <2>3. \A u \in Thread : Base(u)' = Base(u)
    BY <1>0, <1>2s, <1>23 DEF Destruct, history, At, Goto, fiberVars, schedVars, Base, Whereabouts, Deep, HoldPlaces, RunPlaces
  <2>4. \A u \in Thread : pc'[u] \in {"body", "leaving"} =>
          pc[u] \in {"body", "leaving"} /\ this'[u] = this[u] /\ state'[this[u]] = "EXEC"
    BY <1>0, <1>1s, <2>1, <1>23 DEF Destruct, At, Goto, fiberVars, schedVars, Stacks
  <2> QED
    BY <2>1, <2>2, <2>3, <2>4, <1>b
<1>24. CASE UNCHANGED vars
  <2>1. failed = "none" /\ UNCHANGED <<ctx, cpu, this, state, pc, cur>>
    BY <1>24 DEF vars, fiberVars, schedVars
  <2>2. Stacks
    BY <1>1s, <2>1
  <2> QED
    BY <2>1, <2>2 DEF Stacks, Base
<1> QED
  BY <1>1, <1>2, <1>3, <1>4, <1>5, <1>6, <1>7, <1>8, <1>9, <1>10, <1>11, <1>12, <1>13, <1>14, <1>15, <1>16, <1>17, <1>18, <1>19, <1>20, <1>21, <1>22, <1>23, <1>24, StepCases

LEMMA InitInv ==
  ASSUME Init
  PROVE  Inv
<1>0. /\ Caller \in Thread /\ Caller \in FiberObj /\ Root \in FiberObj /\ Root \in Coroutine
      /\ \A t \in Thread : cur[t] = NoTask /\ pc[t] = (IF t = Caller THEN "user" ELSE "off")
      /\ \A t \in Thread : pc[t] \notin RunPlaces /\ pc[t] \notin Deep /\ pc[t] \notin HoldPlaces
  BY Names DEF Init, RunPlaces, HoldPlaces, Deep
<1>1. TypeOK
  <2>1. FiberTypeOK
    <3>1. /\ state \in [FiberObj -> {"absent", "READY", "EXEC", "TERM", "freed"}]
          /\ \A t \in Thread : state[t] # "TERM"
      BY Names DEF Init
    <3>2. /\ phase \in [Coroutine -> {"entry", "body", "over"}]
          /\ ctx \in [FiberObj -> FiberObj \cup {Stale}]
          /\ cpu \in [Thread -> FiberObj]
          /\ this \in [Thread -> FiberObj \cup {Null}]
          /\ schedFiber \in [Thread -> FiberObj \cup {Null}]
      BY Names DEF Init
    <3>3. inSched \in [Coroutine -> BOOLEAN]
      BY DEF Init
    <3> QED
      BY <3>1, <3>2, <3>3 DEF FiberTypeOK
  <2>2. tasks \in Seq(Task) /\ active \in Nat /\ idle \in Nat /\ pool \in SUBSET Worker /\ parked \in SUBSET UserFiber
    BY DEF Init
  <2>3. /\ pc \in [Thread -> Places] /\ cur \in [Thread -> Task \cup {NoTask}]
        /\ idleDone \in [Thread -> BOOLEAN]
    BY DEF Init, Places
  <2>4. stopping \in BOOLEAN /\ started \in BOOLEAN /\ returned \in BOOLEAN /\ failed = "none"
    BY DEF Init
  <2> QED
    BY <2>1, <2>2, <2>3, <2>4 DEF TypeOK
<1>2. Whereabouts
  BY <1>0 DEF Whereabouts, Worker
<1>3. Holding
  BY <1>0 DEF Holding
<1>4. Exists
  BY <1>0, Names DEF Init, Exists, QueuedExist, ParkedExist, HeldExist
<1>5. Schedulers
  BY <1>0 DEF Init, Schedulers
<1>6. Stacks
  BY <1>0, Names DEF Init, Stacks, Base, Deep
<1>7. ActiveCountsHolders
  <2>1. {t \in Thread : cur[t] # NoTask} = {}
    BY <1>0
  <2> QED
    BY <2>1, FS_EmptySet DEF Init, ActiveCountsHolders
<1>8. IdleCounts
  <2>1. {t \in Thread : pc[t] = "idle"} = {}
    BY <1>0
  <2> QED
    BY <2>1, FS_EmptySet DEF Init, IdleCounts
<1> QED
  BY <1>1, <1>2, <1>3, <1>4, <1>5, <1>6, <1>7, <1>8 DEF Inv

LEMMA InvKept ==
  ASSUME Inv, [Next]_vars
  PROVE  Inv'
BY TypesKept, WhereaboutsKept, HoldingKept, ExistsKept, SchedulersKept, StacksKept, ActiveKept, IdleKept DEF Inv

\* In every reachable state of the scheduler, whatever tasks and the client do.
THEOREM Invariance == Spec => []Inv
BY InitInv, InvKept, PTL DEF Spec

\* Every variable keeps its type: m_activeThreadCount and m_idleThreadCount, which are
\* lowered outside m_mutex, never fall below zero.
THEOREM TypeCorrect == Spec => []TypeOK
<1>1. Inv => TypeOK
  BY DEF Inv
<1> QED
  BY <1>1, Invariance, PTL

\* m_activeThreadCount is the number of threads that hold a task, in every interleaving of
\* run() on the threads: what stopping() reads is exact.
THEOREM ActiveCountIsRight == Spec => []ActiveCountsHolders
<1>1. Inv => ActiveCountsHolders
  BY DEF Inv
<1> QED
  BY <1>1, Invariance, PTL

\* Inside a callback GetThis() is the fiber of the task that run() holds on that thread, the
\* thread is on that fiber's stack and the fiber is EXEC; also with wakes that come too
\* early, fibers scheduled twice, exceptions and schedulers destroyed early, up to the fault
\* these lead to.
THEOREM TaskIsItself == Spec => []TaskKnowsItself
<1>1. Inv => TaskKnowsItself
  BY OnStack DEF TaskKnowsItself, Running
<1> QED
  BY <1>1, Invariance, PTL

-----------------------------------------------------------------------------
(* The drained scheduler.                                                  *)

\* Where m_activeThreadCount is 0 no thread holds a task.
LEMMA NobodyHolds ==
  ASSUME Inv, active = 0, NEW t \in Thread
  PROVE  cur[t] = NoTask /\ pc[t] \notin HoldPlaces
<1>1. IsFiniteSet({u \in Thread : cur[u] # NoTask})
  BY FS_Subset, SchedulerAssumption
<1>2. {u \in Thread : cur[u] # NoTask} = {}
  BY <1>1, FS_EmptySet DEF Inv, ActiveCountsHolders
<1> QED
  BY <1>2 DEF Inv, Holding

\* stopping(), once true, stays so if nothing is scheduled from outside after stop().
LEMMA StoppingStays ==
  ASSUME "late" \notin Moves, Inv, Stopping, [Next]_vars
  PROVE  Stopping'
<1>0. /\ stopping /\ tasks = <<>> /\ active = 0
      /\ \A t \in Thread : pc[t] \notin HoldPlaces
  BY NobodyHolds DEF Stopping
<1>1s. \A t \in Thread : ~At(t, "body") /\ ~At(t, "after")
  BY <1>0 DEF At, HoldPlaces, Deep
<1>1. ASSUME NEW t \in Thread, Boot(t) PROVE Stopping'
  BY <1>0, <1>1 DEF Boot, Stopping
<1>2. ASSUME NEW t \in Thread, Take(t) PROVE Stopping'
  BY <1>0, <1>2 DEF Take, EligibleAt
<1>3. ASSUME NEW t \in Thread, TakeNothing(t) PROVE Stopping'
  BY <1>0, <1>3 DEF TakeNothing, Stopping
<1>4. ASSUME NEW t \in Thread, Idle(t) PROVE Stopping'
  BY <1>0, <1>4 DEF Idle, Stopping
<1>5. ASSUME NEW t \in Thread, RunReturns(t) PROVE Stopping'
  BY <1>0, <1>5 DEF RunReturns, Stopping
<1>6. ASSUME NEW t \in Thread, Resume(t) PROVE Stopping'
  BY <1>0, <1>6 DEF Resume, Stopping
<1>7. ASSUME NEW t \in Thread, EnterFiber(t) PROVE Stopping'
  BY <1>0, <1>7, EnterEffect DEF Stopping
<1>8. ASSUME NEW t \in Thread, After(t) PROVE Stopping'
  BY <1>1s, <1>8 DEF After, MaySchedule
<1>9. ASSUME NEW t \in Thread, YieldMark(t) PROVE Stopping'
  BY <1>0, <1>9 DEF YieldMark, Stopping
<1>10. ASSUME NEW t \in Thread, YieldSwap(t) PROVE Stopping'
  BY <1>0, <1>10, YieldSwapEffect DEF Stopping
<1>11. ASSUME NEW t \in Thread, Return(t) PROVE Stopping'
  BY <1>0, <1>11, ReturnEffect DEF Stopping
<1>12. ASSUME NEW t \in Thread, Throw(t) PROVE Stopping'
  BY <1>1s, <1>12 DEF Throw, MaySchedule
<1>13. ASSUME NEW t \in Thread, Park(t) PROVE Stopping'
  BY <1>1s, <1>13 DEF Park, MaySchedule
<1>14. ASSUME NEW t \in Thread, NEW thread \in {t, Null}, Requeue(t, thread) PROVE Stopping'
  BY <1>1s, <1>14 DEF Requeue, MaySchedule
<1>15. ASSUME NEW t \in Thread, NEW fs \in Lists, Wake(t, fs) PROVE Stopping'
  BY <1>0, <1>1s, <1>15 DEF Wake, MaySchedule
<1>16. ASSUME NEW t \in Thread, NEW fs \in Pairs, ScheduleAll(t, fs) PROVE Stopping'
  BY <1>0, <1>1s, <1>16 DEF ScheduleAll, MaySchedule
<1>17. ASSUME NEW t \in Thread, NEW f \in UserFiber, NEW isCb \in BOOLEAN, NEW pin \in Pins,
            Schedule(t, f, isCb, pin)
     PROVE  Stopping'
  BY <1>0, <1>1s, <1>17 DEF Schedule, MaySchedule
<1>18. CASE StartNothing
  BY <1>0, <1>18 DEF StartNothing, schedVars, Stopping
<1>19. CASE StartThreads
  BY <1>0, <1>19 DEF StartThreads, Stopping
<1>20. CASE StopCheck
  BY <1>0, <1>20 DEF StopCheck, Stopping
<1>21. CASE StopSet
  BY <1>0, <1>21, StopSetEffect DEF Stopping
<1>22. CASE Join
  BY <1>0, <1>22 DEF Join, Stopping
<1>23. CASE Destruct
  BY <1>0, <1>23 DEF Destruct, Stopping
<1>24. CASE UNCHANGED vars
  BY <1>0, <1>24 DEF vars, schedVars, Stopping
<1> QED
  BY <1>1, <1>2, <1>3, <1>4, <1>5, <1>6, <1>7, <1>8, <1>9, <1>10, <1>11, <1>12, <1>13, <1>14, <1>15, <1>16, <1>17, <1>18, <1>19, <1>20, <1>21, <1>22, <1>23, <1>24, StepCases

Drained == (\E t \in Thread : idleDone[t]) => Stopping

LEMMA DrainedKept ==
  ASSUME "late" \notin Moves, Inv, Drained, [Next]_vars
  PROVE  Drained'
<1>1. ASSUME NEW t \in Thread, idleDone'[t], ~idleDone[t] PROVE Stopping'
  <2>1. PICK u \in Thread : Idle(u)
    <3>1. idleDone' # idleDone
      BY <1>1
    <3> QED
      BY <3>1, StepCases, StopSetEffect, Zenon
         DEF Boot, Take, TakeNothing, RunReturns, Resume, EnterFiber, After, YieldMark, YieldSwap, Return, Throw,
             Park, Requeue, Wake, ScheduleAll, Schedule, StartNothing, StartThreads, StopCheck, StopSet, Join,
             Destruct, vars, schedVars
  <2>2. idleDone' = [idleDone EXCEPT ![u] = Stopping]
    BY <2>1 DEF Idle
  <2>3. Stopping
    <3>1. idleDone'[t] = (IF t = u THEN Stopping ELSE idleDone[t])
      BY <2>2 DEF Inv, TypeOK
    <3> QED
      BY <1>1, <3>1
  <2> QED
    BY <2>3, StoppingStays
<1> QED
  BY <1>1, StoppingStays DEF Drained

\* When a thread's idle fiber has seen stopping() true, no thread takes a task ever again,
\* although m_activeThreadCount is lowered outside m_mutex - as long as the client does not
\* schedule after stop().
THEOREM NothingAfterDrained ==
  ASSUME "late" \notin Moves
  PROVE  Spec => DrainedForGood
<1>1. Init => Drained
  BY DEF Init, Drained
<1>2. ASSUME Inv, Drained, [Next]_vars, \E t \in Thread : idleDone[t]
      PROVE  active' <= active
  <2>1. Stopping' /\ Stopping
    BY <1>2, StoppingStays DEF Drained
  <2> QED
    BY <2>1 DEF Stopping
<1>3. Inv /\ Drained /\ [Next]_vars => Drained'
  BY DrainedKept
<1> QED
  BY <1>1, <1>2, <1>3, Invariance, PTL DEF Spec, DrainedForGood
=============================================================================
