# Verification of myriel: fibers, scheduler, logging, configuration

myriel (`src/code/common`) is a small C++ server library: ucontext coroutines, an
N-M scheduler that runs them on a pool of threads, a logging system with an
asynchronous file appender, and a registry of configuration variables.  This
directory holds TLA+ models of these parts, TLC configurations that check them on
small instances, and TLAPS proofs of what matters most for every instance.

Run everything from this directory:

    tlc -workers 2 -config sched_pool.cfg MCScheduler      # a model-checking run
    tlapm FiberThreads_proofs.tla                          # the proofs of a module

## 1. The system

| Component | State | Operations | Talks to |
|---|---|---|---|
| `Fiber` (fiber.h, fiber.cpp) | `m_state`, `m_ctx`, `m_runInScheduler`; per thread `t_fiber`, `t_thread_fiber` | constructors, `GetThis`, `resume`, `yield`, `MainFunc`, `reset`, destructor | `t_scheduler_fiber` of the scheduler |
| `Scheduler` (scheduler.h, .cpp) | `m_tasks`, `m_stopping`, `m_activeThreadCount`, `m_idleThreadCount`, `m_threads`, `m_rootFiber`; per thread `t_scheduler_fiber` | `schedule`, `start`, `stop`, `run`, `idle`, `stopping`, destructor | `Fiber`; tasks call back into `schedule` |
| `AsycLogAppender`, `FixBuffer` (log.h, log.cpp, fixbuffer.hpp) | current, next and filled buffers, two replacement buffers, `m_run` | `append` by any thread, `backendThread`, `stop` | a file; a mutex and a condition variable |
| `Logger`, `LoggerManager`, LOG macros | name, level, formatter, appenders, root of each logger; the map of loggers | `log`, `setFormatter`, `setLevel`, `addAppender`, `delAppender`, `clearAppender`, `getLogger`, `getFileLogger` | appenders, root logger |
| `LogFormatter` and its items | pattern, items | `init` (the parser), `format` | `Logger`, events |
| `Config`, `ConfigVar` (config.h, .cpp) | the map of variables; value and listeners of each; a counter of listener keys for each type | `Lookup`, `LoadFromYaml`, `Visit`, `setValue`, `fromString`, `toString`, `addListener`, `delListener` | listeners call back; YAML-CPP; `LaxicalCast` |
| `LaxicalCast`, `lexical_cast` (config.h, lexical_cast.h, .cpp) | none | numbers, bool, strings and containers to text and back | YAML-CPP |
| `LogLevel`, `LogEvent`, `Singleton`, utils, macros | none worth naming | data holders, assertions | everybody |

What is hard in it: stacks and contexts that several threads switch between, with
thread-local variables that say which is which; a scheduler whose counters are
partly changed outside its lock; a two-stage shutdown that polls; buffers that
change hands between an appender and a backend; notifications that may come before
the wait; callbacks run under locks; and operations split over two locked sections.
The list of hazards, each at its line, is in `PROJECT.json`.

What makes each part correct:

* a thread executes the stack that `t_fiber` names, no stack runs on two threads and
  none is re-entered at a point it has left;
* a task runs once per turn, on one thread, is never lost, and `stop()` returns when
  everything has run;
* every message reaches the file once, in the order of `append()`;
* an appender gets each event of its logger once, in one order, puts all out in the
  format its first logger had when it was added there, and none after it was removed;
  `log()` returns;
* a pattern is parsed without loss;
* what listeners were told is what a variable holds, each listener has a key of its
  own, and threads do not lock each other out;
* what `toString()` shows, `fromString()` reads as the same value, and a document
  leaves a variable at what it says last.

## 2. The modules

| Module | Models | Uses |
|---|---|---|
| `Fiber` | the state of fibers and threads, one operator per operation of class `Fiber` | |
| `FiberThreads` | threads that use fibers directly (test_fiber.cpp, test_fiber2.cpp) | extends `Fiber` |
| `Scheduler` | class `Scheduler`: caller, workers, tasks | extends `Fiber` |
| `TaskPool` | abstract: what the scheduler promises | refined by `Scheduler` |
| `AsyncLog` | `AsycLogAppender` over `FixBuffer` | |
| `LogStream` | abstract: a file that is a growing prefix of what is logged | refined by `AsyncLog` |
| `Logger` | `Logger`, `LoggerManager`, the LOG macros | |
| `LogFormatter` | `LogFormatter::init()` and the items | |
| `Config` | `Config` and `ConfigVar`, used by several threads | |
| `ConfigText` | `toString()`, `fromString()`, `LoadFromYaml()` of one variable: the conversions | |
| `MC...` | model values for the runs | extend the above |
| `..._proofs` | theorems | extend the above and TLAPS |

How state corresponds to code:

* **Fiber.** `state` is `m_state` (with "absent" and "freed" around the life of the
  object).  A `ucontext_t` is the stack it would continue (`ctx`); `cpu[t]` is the
  stack thread `t` executes; the main fiber of a thread has the thread's name.
  `SwapContext` saves and loads as `swapcontext` does, and marks every other context
  of the loaded stack `Stale`, since the stack runs on.  A jump to a stale context, a
  null context or a failed assertion ends the model in `failed`.  `phase` is where
  `MainFunc` stands.
* **Scheduler.** `pc[t]` is where a thread stands in `run()` or in the caller's code,
  `cur[t]` the task it holds.  A section under `m_mutex` is one action (`Take`,
  `TakeNothing`, `Schedule`, `StopSet`); what happens outside the lock is an action
  each, among them the two halves of `yield()` (`YieldMark`, `YieldSwap`) and the
  lowering of `m_activeThreadCount` (`After`).  `schedule(begin, end)` is `ScheduleAll`
  for functions, and `Wake` with several fibers for fibers that exist.
* **AsyncLog.** Buffers are their contents and how many there are.  `append()` is one
  action under the lock; the backend's loop is `Check`, `Wait`, `Timeout`, `Collect`,
  `WriteOut`; `stop()` is three actions, since it sets the flag, notifies and joins
  without the lock.
* **Logger.** `log()` is an action for each access: the level, the lock and the list,
  each appender, each unlock.  Changes of a logger are one action each under its lock,
  `setLevel()` and `setFormatter(string)` without it.  `formatter` is `m_formatter` of
  loggers and appenders.  `seen`, `shown` and `first` are histories: of the events that
  appenders put out, of the formats they did it in, and of the format of the logger
  each was first added to, as it was then.
* **LogFormatter.** One action per turn of the outer loop; the inner loop is told by
  where it stops (`NameEnd`, `ArgEnd`).
* **Config.** A locked section is one action unless it waits for another mutex or
  calls listeners: then each wait and each listener is an action of its own.  The two
  locked sections of `setValue()` are `Compare`...`Unlock` and `Assign`.
  `addListener()` has an action for each access to the counter its type shares:
  `AddListener` reads it, `Count` writes it, `Store` and `Hand` may read it again.
  `Visit()` stops at each variable (`VisitNext`); a variable created meanwhile is a
  race on the map, where the model ends (`torn`).
* **ConfigText.** One variable of any type.  A type is the sequence of its kinds, from the
  outermost container to the basic type; a value is a number, a string, a sequence, a set
  or a function.  A text is that of a sequence or of a map, or any other: a numeral and a
  word.  Most of the latter are scalars to YAML-CPP; the constants `Loads` and `Quoted` say
  what `YAML::Load` makes of those that are not - the empty text, words for null, texts
  with quotes or a comment, a sequence written with blanks - or that it throws, and which
  scalars are written with quotes.  They matter inside containers, where each element is
  parsed and written by itself.  Integers are modulo a size, fractions are counted in thirds of the
  last decimal `std::to_string()` writes.  `FromStr` and `ToStr` are the two halves of
  `LaxicalCast`: as the templates do, they convert the elements of a container as the type
  without its first kind, and throw as they do; `VarToString` is `ConfigVar::toString()`,
  which answers with the empty text then.  They are functions on the constants `Texts` and
  `Values`.
  `ListAllMenbers` is the list of a document's nodes; a name is the sequence of its parts
  between dots, so that two keys and one key with a dot may spell the same name.  `Height`
  says how deep each node is, which is finite in a document.

Clients are constrained by a constant `Moves` where the code leaves them free: each
run says what its clients and callbacks do.  Operators named `Mut...` are plausible
slips in the operation next to them.  No specification uses them; `PROJECT.json`
pairs each with a property that notices when it takes the operation's place.

## 3. The runs

| Run | Question | Bounds |
|---|---|---|
| `fiber_clients` | Do `t_fiber`, `m_state` and the saved contexts tell the truth, whatever the clients of fibers do? | 2 threads, 3 coroutines |
| `sched_caller` | The caller as only thread (test_scheduler.cpp): does `stop()` run everything and return; is it a `TaskPool`? | 1 thread, 3 tasks, queue of 3 |
| `sched_pool` | Two workers: does the shutdown wait for all, does every worker leave, is it a `TaskPool`, so that nothing is lost or doubled? | 2 workers and the caller, 2 tasks, queue of 2 |
| `sched_rough` | What holds whatever tasks and clients do? | the same, with symmetry |
| `async_log` | Does every message reach the file once and in order; does `stop()` return; is it a `LogStream`? | sizes 1, 2 and 3 in buffers of 3, 5 appends |
| `logger` | Who gets which event, in what order and format; does `log()` return, and when does it crash? | 2 threads, 3 loggers, 2 appenders, 2 formatters, 2 events, 3 changes |
| `log_formatter` | Does the parser keep everything, and end? | all patterns of up to 5 of the characters `%{}`, a known letter, an unknown one, a blank; and the standard pattern of `Logger` |
| `config_calls` | When do threads lock each other out; what were listeners told? | 2 threads, 1 variable, 2 types, 2 values, 2 listeners |
| `config_listeners` | Has every listener a key of its own? | 2 threads, 2 variables of one type, 3 listeners |
| `config_text` | Does what is shown read back; what number does a text give; which node of a document wins? | 20 types; integers of 2 and 3 bits (sizes 4 and 8); 9 texts that YAML-CPP does not take as they stand; containers of up to 2 elements, nested once; documents of two levels |
| `stop_leaves_tasks`, `yield_race` | what the code does against its documentation, see below | as `sched_pool` |

Why the bounds are enough to be interesting:

* Two threads are what a race needs, and the third (the caller of the scheduler)
  stops them.  Three coroutines make a nested resume, its return, and a bystander.
* A queue of two or three holds a task that is skipped (pinned elsewhere, or still in
  EXEC) in front of one that is taken.
* Buffers of three with messages of 1, 2 and 3 give every case of the strict
  comparison in `append()`: a fit, the last byte, and a message that fits nowhere.
  Five appends fill more buffers than there are in reserve.
* Three changes and two events let an appender be added, used and taken away while
  another thread delivers.
* Five characters hold a text, a placeholder with braces, and something behind it.
* One variable suffices for the mutexes of `Config`: a thread never holds two
  variables'.  The counter of keys is shared by two variables, and three listeners let
  one be added behind one that was deleted.
* Integers of 2 and 3 bits with numerals from -9 to 9 meet every case of both widths:
  in range, out of range of either, wrapping once and twice.  The fractions lie on, and
  to either side of, the last decimal.  Of the strings that are parsed again inside
  containers there is one of each kind: empty, the two words for null, with a comment,
  with quotes, with quotes that it needs, a numeral with a comment, a sequence in another
  layout, and one that is no YAML.  Documents have a key twice, a key with
  a dot beside the two keys it stands for, a key that is refused, and the variable's last
  key at the top as well.

No run checks for deadlock where the system may stop for good: a client may have
nothing more to do, and in `config_calls` threads may lock each other out, which
`KnotNeedsListener` and `CallsReturn` are about.  The cfg files say which.

### Fairness

* Scheduler: weak fairness for each thread's steps in `run()` and for the caller once
  it is in `stop()`: the operating system runs every thread, and a worker polls, so
  it never waits for a signal.  Strong fairness for the return of each task's
  callback: a task may yield as often as it likes but comes to its end.  Nothing is
  assumed of the client: it need not schedule, nor call `stop()`.
* AsyncLog: weak fairness for the backend, which includes that `wait_for` times out,
  and for `stop()` once called.
* Logger, Config: strong fairness for each thread inside a call: a mutex that is free
  again and again is obtained in the end.  `std::mutex` does not promise that, but
  the schedulers of the platforms do in practice; no thread has to start a call.
* LogFormatter: the one thread goes on.

### Findings

Two runs show where code and documentation disagree; `PROJECT.json` quotes the lines.

* `stop_leaves_tasks`: `start()` returns at once unless `m_stopping` is set, which only
  `stop()` sets, so no thread is ever created in the order the tests call them; and
  without `use_caller`, `stop()` finds no thread and no root fiber and returns with the
  queue full.
* `yield_race`: a task that schedules itself and yields is READY and queued before
  its context is saved; another worker resumes it from the context it left.

### What the code does that a reader may not expect

* A callback that throws leaves its fiber READY with a finished stack: `MainFunc`
  only logs the exception.  The next `resume()` runs into the ASSERT2 at the end of
  `MainFunc`, the destructor into its assertion.  `NeverFails` of `fiber_clients`
  excepts clients that throw.
* A nested `resume()` overwrites the way back to the native stack (test_fiber2.cpp
  warns of it).  The properties of `fiber_clients` hold until the first one.
* A task that schedules itself and returns is resumed in state TERM, which fails the
  assertion of `resume()`; the comment at scheduler.cpp:182 says the state is looked at.
  It happens in `sched_rough`.
* A worker that is not joined ends the program when the scheduler is destroyed: a
  `stop()` that finds the scheduler drained joins nobody.  It happens in `sched_rough`.
* `stop()` of the appender does not collect what was appended since the last flush;
  `LogStream` allows the file to lag.
* A logger that its user constructs, as test_log.cpp:30 does, has no root: without
  appenders, `log()` goes through a null pointer.  So does the root logger's after
  `clearAppender()`.  `FailsOnlyWithoutRoot` says that nothing else fails.
* `setFormatter()` changes nothing for appenders that have a formatter, that is, for
  all that were added: they go on in the format their first logger had then
  (`ShownAsFirstAdded`).  `LOG_TRACE` never shows: an appender's level is DEBUG and
  cannot be set (`HandedOut`).
* `LOG_FILE` of a name that exists returns the old logger, with no file.  config.cpp
  makes "system" before `main()`.
* In a pattern `%%` is a `%` and the start of a placeholder, `%dx` the unknown
  placeholder `dx`, and an unclosed brace puts its error text first (LogFormatter.tla).
* `setValue()` tells listeners and assigns in two locked sections: two setters may
  tell in one order and assign in the other.  `LastHeardIsValue` excepts the
  variables this happened to.
* Two `addListener()` on two variables of a type may use the counter of keys at a time:
  a callback is then stored under one key and another returned.  `OwnKeys` excepts the
  types this happened to.
* A bool is shown as 1 or 0, and `fromString()` accepts true and false only.  The
  unsigned types take negative numbers, and numbers that are too long, modulo their
  range; the signed ones refuse them.  A number followed by anything is accepted.
* Each string in a container is parsed as YAML of its own: the empty one and `null` come
  back as `~`, quotes and comments are gone.  If one of them is no YAML, say `[`,
  `toString()` answers with the empty text, and an empty container is read back from
  it, with no error on that side.  `RoundTrip` says for which strings nothing of this
  happens (`Exact`) and when the whole container is gone (`Garbled`).  A text that is a scalar empties a
  container, and so does the empty text.  A map of equal keys keeps the first.
* A value that text cannot tell, say with fractions behind the last decimal, changes when
  it is shown and read back, and is then shown as before.  Not so if it has sets in it:
  two elements may become equal, and the set is one shorter.

## 4. The proofs

TLAPS checks these for every value of the constants; the assumptions are the named
ASSUMEs of the modules (`FiberAssumption`, `MovesAssumption`, `SchedulerAssumption`,
`AsyncLogAssumption`, `ConfigAssumption`, `LoggerAssumption`, `PatternAssumption`, and
those of `ConfigText` below), which TLC evaluates in the runs.  They only say that names
are different, files are lists of keys and texts, sizes natural numbers, levels those of
`LogLevel`, patterns sequences of characters, and that a scheduler has finitely many
threads and at least one (the constructor asserts it).  Those of `ConfigText` say that

* the sizes of integers are even and an `int`'s divides a `long`'s, and 0.000001 is three
  grains and divides 1 (`NumbersAssumption`);
* types are finitely many, each with the types of its elements, as a program has them
  (`TypesAssumption`);
* what YAML-CPP makes of texts (`Loads`, `Quoted`): a numeral is a scalar, the empty text and
  a tilde are null, and a node is written as a text that loads as this node
  (`YamlAssumption`).  Which texts lose something, and which throw, is left open;
* texts are scalars, sequences or maps, and what the items of a container are put out as
  are texts of its elements (`TextsAssumption`); values are in the range of their type,
  and containers are finite and hold values (`ValuesAssumption`);
* documents are finitely many, each of a finite depth, and no key is empty
  (`DocumentsAssumption`);
* what a value is shown as is a text of its type, and what is read from a text is a value
  (`ClosedAssumption`): the sets that a run or a theorem is about are closed.  It does not
  say which text or which value: that is what the theorems are about.

* **FiberThreads_proofs** (any number of threads and coroutines).  `TypeCorrect` is
  inductive by itself.  The others rest on `Inv`: as long as no coroutine has resumed
  another, a live thread is either on its native stack with `t_fiber` its main fiber,
  or on the stack of a coroutine in EXEC that `t_fiber` names, with the native stack
  saved in the main fiber (`ThreadInv`); and a coroutine is READY with its own stack
  saved, or EXEC on exactly one thread, or over (`CoroutineInv`).  The strengthening
  is needed because a switch is right only if the context it loads was saved by the
  switch before.  `SwapIn`, `SwapBack` and `SwapMain` say what a switch does to the
  saved contexts of everybody else; then there is a step for each operation.  From
  `Inv` follow `ThisIsTheRunningFiber`, `ExecIsTheRunningState`, `WayBackIsKept`,
  `NoStaleSwitch` and `WellBehavedNeverFails`.
* **AsyncLog_proofs** (any messages, sizes, capacity).  The invariant is `TypeOK`,
  `Reserve` and `Conserved`.  `Reserve` counts buffers: the backend has both
  replacements except while it writes, and then it has collected as many as it gave
  away.  Without it `Conserved` is not inductive, since a null buffer would lose
  messages.  `Refinement` shows that every step is a step of `LogStream` or a stutter.
* **Scheduler_proofs** (any number of threads, fibers and tasks, with and without
  `use_caller`, whatever `Moves` tasks and the client make).  `Inv` adds to `TypeOK` what
  ties the counters and the thread-local variables to where threads stand: a thread has a
  task in `cur` exactly between `Take` and `After` (`Holding`), what is queued, suspended
  or held has been built and belongs to a scheduler (`Exists`), `t_scheduler_fiber` is the
  fiber that `run()` is on (`Schedulers`), each stack is executed by one thread, the one
  whose program counter says so, and a saved context is that of the object's own stack
  (`Stacks`), and `m_idleThreadCount` counts the threads in their idle fiber
  (`IdleCounts`).  `ActiveCountIsRight` is a counting argument: `Take` puts one thread
  into the set that is counted, `After` takes one out, and no other step moves a thread
  across its border.  It needs `Holding`, since `After` lowers the counter of whoever is
  there.  `TaskIsItself` needs `Stacks`: `GetThis()` tells the truth only if the switch
  that led there loaded the right stack.  `NothingAfterDrained` assumes that the client
  does not schedule after `stop()` (`"late"` is not among the moves): with it, a worker
  that saw `stopping()` true leaves a task behind that nobody runs.
* **SchedulerPool_proofs** (the same sizes).  Here clients and tasks respect what the
  code leaves to them, as the hypothesis `Calm` says: no task schedules itself and
  returns, which resumes a fiber in TERM; nobody schedules after `stop()`, or destroys a
  scheduler that nobody has been in `run()` for; and, unless the caller is the only
  thread, a task gives itself back to the thread it runs on only (otherwise the finding
  `yield_race`).  `sched_caller` and `sched_pool` are instances.  `PoolInv` says that each
  fiber is in one place: once in the queue or on the wait list (`QueuedOnce`), in one
  thread's hand (`HeldOnce`), in both only while its task gives itself back (`Turns`),
  and in one of them as long as it lives (`Alive`).  With what threads have seen of the
  shutdown (`Drained`, `Threads`, `ClosedQuiet`) this is inductive over `Inv`; without
  `Threads`, `Join` could close a pool that a worker is still in.  From it follow
  `StopLeavesNothing`, `CallerDrains` and `SchedulerIsTaskPool`, which shows for each
  action which step of `TaskPool` it is, or that users of the pool see nothing.  What every
  task pool has, the scheduler then has too: `JobsRunOnce`, no job is worked on twice at a
  time and none that finished waits again, and `ClosedStaysQuiet`, as long as the pool is
  closed nothing waits and nobody works.  Both are inductive in `TaskPool` by themselves.
  `Gentle` is `Calm` without exceptions, which leave a finished fiber READY, and without
  a second `start()` before the join, which fails an assertion.  Then `FiberInv` is
  inductive too: the fiber about to be resumed, and each that waits and is in nobody's
  hand, is READY with its own stack saved, and `run()` has a way back (`FibersAreSafe`,
  and `CallerNeverFails` for the caller's thread alone).  It needs `HeldOnce`: between
  `Take` and `resume()` nothing but the task being in one hand protects a fiber.
* **Config_proofs** (any threads, variables, listeners, files).  The invariant adds to
  `TypeOK` who may hold a mutex: the registry's is held at the error message of
  `Lookup()` only, a variable's while its listeners are called or one is added
  (`Holders`), and that a key that is being added is in range (`Counting`).  Without
  them nothing bounds a chain of waiting threads.  `NoKnotWithoutListener` follows:
  whoever is waited for in a set of threads that wait for each other holds a variable
  and waits, so it waits in a listener.
  `OwnKeysKept` is about a counter that every variable of a type uses under a mutex of its
  own.  The invariant (`KeyInv`) says of a type whose counter no two calls used at a time:
  one call at most is adding (`OneAdder`), it works with the number the counter has
  (`NumberIsCounter`), no listener of any variable of the type has a larger key, nor the
  key that is about to be stored (`Counted`), and each key was returned once, but for the
  one that is stored and not yet returned (`GivenOnce`).  That nothing is deleted from a
  variable while a listener is added to it takes the mutex (`Locks`). Calls that leave
  keys alone are one lemma, `AsideKeyInv`.  `ListenersKnowTheValue` is about the two
  locked sections of `setValue()`.  Its invariant (`HeardInv`) says of a variable that was
  not told in one order and assigned in another: one call at most is between its two
  sections, and what its listeners were told is the value the variable has when no call
  is, what that call is about to assign otherwise, and while listeners are being called,
  what those who had their turn were told.
* **Logger_proofs** (any threads, loggers, appenders, formatters, events).
  `OneFormatEach` rests on `FormatInv`: an appender that was added to a logger has the
  formatter that this logger had then, and one that was never added has none and has put
  nothing out; with loggers and appenders being different objects (`LoggerAssumption`), no
  step of another thread reaches the one through the other. The others rest on three
  invariants. `SafeInv`: a mutex is held by who locked it and has not unlocked it, which
  are two at most, the root's behind that of a logger without appenders (`Routes`,
  `Mutexes`); who delivers holds the mutex of the logger, so whom it still has to hand
  the event to is on that logger's list (`Attached`); and loggers, and appenders on
  lists, have formatters (`Formats`). From it follow `TypeCorrect`,
  `FailsOnlyOnBareLoggers` and `SilentOnceRemoved`. `OrderInv`: one thread at a time
  logs an event (`Events`), and what comes out of a logger now is behind, in every
  appender, what came out of it before (`Latest`); without `Latest`, `SameOrder` is not
  inductive, since an append at one appender would have to know what all others have.
  `Handed` is `HandedOut` for each thread apart: what an appender has of an event and
  what the thread has still to hand it make the times the appender was on the list. From
  them follow `AppendersAgree` and `AppendersGetTheirEvents`.

* **LogFormatter_proofs** (any patterns, any letters).  `PatternsAreParsedWithoutLoss` rests
  on `ScanInv`: the scan is inside the pattern or at its end, and (`Agrees`) what was found
  and the text that waits are what was read, or at least have each character as often, for
  every character and not only those `Lossless` speaks of.  The rest of the proof is
  about the operators: `ScannedIs` says that a placeholder, written again, is the part of the
  pattern that was scanned, `FoundAppend` and `FlattenAppend` what one more element adds to
  what was found.  `FlattenSeq` is a recursive function, whose existence and uniqueness
  are shown from a least counterexample (`LeastNumber`), as are the counts of characters
  of a sequence and its parts from bijections (`CountConcat`).

* **ConfigText_proofs** (types nested to any depth, integers of any size, any values, texts
  and documents).  The conversions are recursive functions over types, the list of a
  document is one over nodes.  `FromStrIs`, `ToStrIs` and `LeavesAre` show that they exist
  and satisfy their equations, `Listing` does for the list.  No induction theorem of the
  library can be used for that: `EveryNumber` gets induction for a set of numbers from a
  least counterexample, and types are counted by their length, nodes by their height.
  `ValueOfItsType` has the invariant (`IInv`): the value is one of its type, and the scalar
  that was read last, if any, converts to it.
  `EveryRoundTrip` is an induction on the length of the type.  `BasicTrip` is its base: what
  `std::to_string()` shows of an integer is read back, since a number in range is the one
  that the conversions to signed and unsigned give (`SignedFacts`, `UnsignedFacts`).
  `ContainerTrip` is its step: the text of a container has the texts of its elements as
  items, each as the node that YAML-CPP makes of it (`ItemsShown`), so it is read back
  exactly if each of them is (`ContainerBack`), and what is read is the element that was
  shown, but for a string, which comes back as that node is written (`ElementBack`).  Loaded
  and written once more it does not change again (`EmitLoads`).  `FailedTrip` is the case
  that a string is no YAML (`Broken`): the failure goes up through all levels, the text is
  empty, and `EmptyBack` says what that is read as.  `NumbersAreRead` is about widths:
  what goes through a `long` and an `int` is the same number modulo `IntSize`, as that
  divides `LongSize` (`ToUnsignedReads`).
  `LoadsTakeLast` compares two recursions: the list of all nodes with their names, which
  `LoadFromYaml()` loops over, and the nodes reached by the parts of the variable's name.
  A node reached by the first k parts (`Way`) contributes the same to both (`WaySame`), one
  reached in another way (`Off`) nothing, nor does what is below it (`OffSame`).  `Same` says
  of two sequences that a loop over either ends with the same value; it is kept by
  concatenation (`SameConcat`, `SameFlatten`).  `EveryNode` is the induction on the height.

Only model-checked: all liveness (`WorkersLeave`, `QueuedRuns`, `StopReturns`,
`MessagesReachFile`, `CallsReturn`, `LogReturns`, `ParseEnds`), as fairness and ENABLED are
beyond the prover.  Every invariant and action property of the passing runs, and both
refinements, are stated by a theorem, under the hypotheses named above.

## 5. What is not modelled

* A second `stop()` of the appender, which joins a joined thread.
* A key of a document that is the empty text: at the top, its name is that of the document.
* Conversions of char arrays, which no `ConfigVar` uses, and `fromString()` of an
  `unordered_set`, which does not compile; `LoadFromFile()`, which only reads the file
  that `LoadFromYaml()` is given; how YAML-CPP parses and writes text (`LoadNode`,
  `Emit` and `Items` of `ConfigText` are what it makes of it).
* The composition of `Logger` and `AsyncLog`: an appender that writes to a file is one
  step of `Logger`, as its `append()` is one locked section of `AsyncLog`.
* Data races whose outcome the language leaves undefined: one appender added to two
  loggers at once, which the clients of `Logger` do not do; and what a race does beyond
  the values read and written.  `m_level`, `m_state` and `m_formatter` are accessed as
  if atomic, the counter that the listeners of one type share by single reads and
  writes, and a `Visit()` that a variable is created under ends the model.
* The names of `LogLevel`, the text of a `LogEvent`, `Singleton`, utils and macros: data
  holders and glue.
* Fiber ids and counters, stack sizes, file names, time.

## 6. Plan

1. Done: fibers and their clients, the scheduler and the task pool, the asynchronous
   appender, the logger, the pattern parser, the configuration registry and its
   conversions; the theorems above.
2. Done: proofs about the scheduler up to its refinement of `TaskPool`, about the order
   and delivery of events in `Logger`, about what the listeners of `Config` know, and about
   the loop of `LogFormatter`.
3. Done: proofs about the conversions of `ConfigText` and the documents it loads, for types
   and documents of any depth; with them every safety property of the runs is proved.
4. Next: a composition of `Logger` and `AsyncLog`: from `log()` to the file.
