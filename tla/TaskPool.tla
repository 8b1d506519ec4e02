------------------------------ MODULE TaskPool ------------------------------
(***************************************************************************)
(* What the scheduler promises to its users, without fibers, stacks or     *)
(* locks (code/common/scheduler.h, and the comments of                     *)
(* test/common/test_scheduler.cpp): jobs are submitted, a runner takes a   *)
(* waiting job and works on it alone, and leaves it finished, suspended    *)
(* with its next turn arranged, or asleep until somebody wakes it.  The    *)
(* pool closes - stop() returns - only when nothing waits and nobody works.*)
(***************************************************************************)
CONSTANTS Job, Runner, Nobody

VARIABLES
  waiting,    \* jobs to be taken
  at,         \* the job each runner works on, or Nobody
  asleep,     \* suspended jobs that wait to be woken
  finished,   \* jobs that have run to their end
  closed      \* stop() has returned

vars == <<waiting, at, asleep, finished, closed>>

TypeOK ==
  /\ waiting \subseteq Job
  /\ at \in [Runner -> Job \cup {Nobody}]
  /\ asleep \subseteq Job
  /\ finished \subseteq Job
  /\ closed \in BOOLEAN

Init ==
  /\ waiting = {}
  /\ at = [r \in Runner |-> Nobody]
  /\ asleep = {}
  /\ finished = {}
  /\ closed = FALSE

WorkedOn(j) == \E r \in Runner : at[r] = j

\* New jobs, from outside or from a job that runs; they open a closed pool.
Submit(js) ==
  /\ js \cap (waiting \cup asleep \cup finished) = {}
  /\ \A j \in js : ~WorkedOn(j)
  /\ waiting' = waiting \cup js
  /\ closed' = FALSE
  /\ UNCHANGED <<at, asleep, finished>>

\* A free runner takes a job nobody works on.
Take(r, j) ==
  /\ at[r] = Nobody
  /\ j \in waiting
  /\ ~WorkedOn(j)
  /\ at' = [at EXCEPT ![r] = j]
  /\ waiting' = waiting \ {j}
  /\ UNCHANGED <<asleep, finished, closed>>

\* A running job arranges its own next turn.
Requeue(r) ==
  /\ at[r] \in Job \ (waiting \cup asleep \cup finished)
  /\ waiting' = waiting \cup {at[r]}
  /\ UNCHANGED <<at, asleep, finished, closed>>

\* A running job goes on the list of sleepers.
FallAsleep(r) ==
  /\ at[r] \in Job \ (waiting \cup asleep \cup finished)
  /\ asleep' = asleep \cup {at[r]}
  /\ UNCHANGED <<waiting, at, finished, closed>>

\* Sleepers wait for a runner again.
Wake(js) ==
  /\ js \subseteq asleep
  /\ asleep' = asleep \ js
  /\ waiting' = waiting \cup js
  /\ closed' = FALSE
  /\ UNCHANGED <<at, finished>>

\* A running job comes to its end.
Finish(r) ==
  /\ at[r] \in Job \ (waiting \cup asleep \cup finished)
  /\ finished' = finished \cup {at[r]}
  /\ UNCHANGED <<waiting, at, asleep, closed>>

\* The runner is free again; a job that is not finished is accounted for.
Leave(r) ==
  /\ at[r] \in waiting \cup asleep \cup finished
  /\ at' = [at EXCEPT ![r] = Nobody]
  /\ UNCHANGED <<waiting, asleep, finished, closed>>

\* stop() returns.
Close ==
  /\ waiting = {}
  /\ \A r \in Runner : at[r] = Nobody
  /\ closed' = TRUE
  /\ UNCHANGED <<waiting, at, asleep, finished>>

\* The pool is started again.
Reopen == closed' = FALSE /\ UNCHANGED <<waiting, at, asleep, finished>>

Next ==
  \/ \E js \in SUBSET Job : Submit(js) \/ Wake(js)
  \/ \E r \in Runner, j \in Job : Take(r, j)
  \/ \E r \in Runner : Requeue(r) \/ FallAsleep(r) \/ Finish(r) \/ Leave(r)
  \/ Close
  \/ Reopen

Spec == Init /\ [][Next]_vars

\* Every job is in one place: never with two runners, and once finished never
\* waiting again.
OncePerJob ==
  /\ \A r, s \in Runner : at[r] = at[s] /\ at[r] # Nobody => r = s
  /\ waiting \cap finished = {}
  /\ asleep \cap finished = {}

\* After close nothing waits and nobody works.
ClosedIsQuiet == closed => waiting = {} /\ \A r \in Runner : at[r] = Nobody
=============================================================================
