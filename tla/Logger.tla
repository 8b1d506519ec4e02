------------------------------- MODULE Logger -------------------------------
(***************************************************************************)
(* Loggers, their appenders and the manager that hands loggers out: class  *)
(* Logger, LoggerManager and the LOG_... macros of code/common/log.h and   *)
(* log.cpp, used by several threads.  A logger passes an event to its      *)
(* appenders under its mutex, or, having none, to the root logger.  What   *)
(* an appender does with an event is one step here; AsyncLog models it for *)
(* the appender that writes to a file.                                     *)
(*                                                                         *)
(* A logger is named by its name.  The loggers in Own are constructed by   *)
(* their user, not by the manager.  An appender is added to one logger at  *)
(* a time, and clients set formatters that are not null.  m_level, which   *)
(* threads read and write without lock, and m_formatter, which             *)
(* setFormatter(string) writes without lock, are accessed in one step      *)
(* each, as if atomic.                                                     *)
(*                                                                         *)
(* At "failed" a thread used a pointer that is null: the program crashes.  *)
(* Operators called Mut... are slips to try, as in Fiber.                  *)
(***************************************************************************)
EXTENDS Naturals, SequencesExt

CONSTANTS Thread, Root, Named, Own, Appender, Stdout, Null,
          Formatter, Standard, \* formatters, and the one a logger starts with
          Levels,       \* levels that loggers and events are given
          MaxEvents,    \* bound: events logged
          MaxChanges    \* bound: loggers made, levels set and appenders moved

ASSUME LoggerAssumption ==
  /\ Root \notin Named \cup Own /\ Named \cap Own = {}
  /\ Null \notin Thread \cup Named \cup Own \cup {Root}
  /\ Stdout \in Appender /\ Standard \in Formatter /\ Null \notin Formatter
  /\ Appender \cap ({Root} \cup Named \cup Own) = {}
  /\ Levels \subseteq 1..6
  /\ MaxEvents \in Nat /\ MaxChanges \in Nat

Logger == {Root} \cup Named \cup Own
DEBUG == 2
Event == 1..MaxEvents

VARIABLES
  made,        \* loggers in existence
  root,        \* m_root of each logger, or Null
  level,       \* m_level of each logger
  appenders,   \* m_appenders of each logger
  formatter,   \* m_formatter of each logger and appender, or Null
  mutex,       \* the thread that holds m_mutex of each logger, or Null
  place,       \* where each thread stands
  held,        \* the loggers whose mutexes it holds, in the order it took them
  cur,         \* the logger whose log() it is in
  event,       \* the event it logs, or 0
  todo,        \* the appenders it has still to hand the event to
  grade,       \* the level of each event
  logged,      \* counter: events
  changes,     \* counter: changes
  seen,        \* history: what each appender put out
  source,      \* history: the logger each event came out of, and its appenders then
  shown,       \* history: the formats that each appender put events out in
  first        \* history: the format of the logger each appender was added to first, then

objects == <<made, root, level, appenders, formatter, mutex>>
calls == <<place, held, cur, event, todo, grade, logged>>
history == <<seen, source>>
formats == <<shown, first>>
vars == <<objects, calls, changes, history, formats>>

TypeOK ==
  /\ {Root} \cup Own \subseteq made /\ made \subseteq Logger
  /\ root \in [Logger -> {Root, Null}]
  /\ level \in [Logger -> Levels \cup {DEBUG}]
  /\ appenders \in [Logger -> Seq(Appender)]
  /\ formatter \in [Logger \cup Appender -> Formatter \cup {Null}]
  /\ mutex \in [Logger -> Thread \cup {Null}]
  /\ place \in [Thread -> {"idle", "enter", "lock", "deliver", "return", "failed"}]
  /\ \A t \in Thread :
       /\ held[t] \in Seq(made) /\ Len(held[t]) <= 2 /\ IsInjective(held[t])
       /\ place[t] = "idle" => held[t] = <<>>
       /\ todo[t] # <<>> => place[t] \in {"deliver", "failed"}
  /\ \A l \in Logger : mutex[l] = Null \/ l \in ToSet(held[mutex[l]])

Init ==
  /\ made = {Root} \cup Own
  /\ root = [l \in Logger |-> Null]
  /\ level = [l \in Logger |-> DEBUG]
  /\ appenders = [l \in Logger |-> IF l = Root THEN <<Stdout>> ELSE <<>>]
  /\ formatter = [x \in Logger \cup Appender |->
                    IF x \in Logger \cup {Stdout} THEN Standard ELSE Null]
  /\ mutex = [l \in Logger |-> Null]
  /\ place = [t \in Thread |-> "idle"]
  /\ held = [t \in Thread |-> <<>>]
  /\ cur = [t \in Thread |-> Null]
  /\ event = [t \in Thread |-> 0]
  /\ todo = [t \in Thread |-> <<>>]
  /\ grade = [e \in Event |-> DEBUG]
  /\ logged = 0
  /\ changes = 0
  /\ seen = [a \in Appender |-> <<>>]
  /\ source = [e \in Event |-> [logger |-> Null, to |-> <<>>]]
  /\ shown = [a \in Appender |-> {}]
  /\ first = [a \in Appender |-> IF a = Stdout THEN Standard ELSE Null]

At(t, p) == place[t] = p
Goto(t, p) == place' = [place EXCEPT ![t] = p]
Failed == \E t \in Thread : At(t, "failed")

-----------------------------------------------------------------------------
(* Logging an event.                                                       *)

\* LOG_LEVEL: the logger's level admits the event, which is logged at the end of
\* the statement.
Begin(t, l, grd) ==
  /\ At(t, "idle") /\ l \in made
  /\ level[l] <= grd
  /\ logged < MaxEvents
  /\ logged' = logged + 1
  /\ grade' = [grade EXCEPT ![logged'] = grd]
  /\ event' = [event EXCEPT ![t] = logged']
  /\ cur' = [cur EXCEPT ![t] = l]
  /\ Goto(t, "enter")
  /\ UNCHANGED <<objects, held, todo, changes, history, formats>>

\* Logger::log(): the level is asked for again.
Enter(t) ==
  /\ At(t, "enter")
  /\ Goto(t, IF grade[event[t]] >= level[cur[t]] THEN "lock" ELSE "return")
  /\ UNCHANGED <<objects, held, cur, event, todo, grade, logged, changes, history, formats>>

\* Mutant: the mutex is waited for and not taken.
MutLockMutex(t, l) == mutex[l] = Null /\ UNCHANGED <<mutex, held>>

\* lock_guard: the mutex of l, when it is free.
LockMutex(t, l) ==
  /\ mutex[l] = Null
  /\ mutex' = [mutex EXCEPT ![l] = t]
  /\ held' = [held EXCEPT ![t] = Append(@, l)]

\* The logger is locked, and has appenders.
Lock(t) ==
  LET l == cur[t]
  IN /\ At(t, "lock")
     /\ appenders[l] # <<>>
     /\ LockMutex(t, l)
     /\ todo' = [todo EXCEPT ![t] = appenders[l]]
     /\ source' = [source EXCEPT ![event[t]] = [logger |-> l, to |-> appenders[l]]]
     /\ Goto(t, "deliver")
     /\ UNCHANGED <<made, root, level, appenders, formatter, cur, event, grade, logged,
                    changes, seen, formats>>

\* It is locked, and has none: the root logger's log() is called.
Fallback(t) ==
  LET l == cur[t]
  IN /\ At(t, "lock")
     /\ appenders[l] = <<>>
     /\ LockMutex(t, l)
     /\ IF root[l] = Null
        THEN Goto(t, "failed") /\ UNCHANGED cur
        ELSE Goto(t, "enter") /\ cur' = [cur EXCEPT ![t] = root[l]]
     /\ UNCHANGED <<made, root, level, appenders, formatter, event, todo, grade, logged,
                    changes, history, formats>>

\* Mutant: the loop steps on twice.
MutFollowing(s) == IF Len(s) > 1 THEN Tail(Tail(s)) ELSE <<>>

\* The appenders that follow the one whose turn it is.
Following(s) == Tail(s)

\* The next appender: it puts out what is of its level, always DEBUG, or higher.
Deliver(t) ==
  LET a == Head(todo[t])
      e == event[t]
  IN /\ At(t, "deliver") /\ todo[t] # <<>>
     /\ IF grade[e] >= DEBUG /\ formatter[a] = Null
        THEN Goto(t, "failed") /\ UNCHANGED <<todo, seen, shown>>
        ELSE /\ seen' = IF grade[e] >= DEBUG THEN [seen EXCEPT ![a] = Append(@, e)] ELSE seen
             /\ shown' = IF grade[e] >= DEBUG
                         THEN [shown EXCEPT ![a] = @ \cup {formatter[a]}] ELSE shown
             /\ todo' = [todo EXCEPT ![t] = Following(@)]
             /\ UNCHANGED place
     /\ UNCHANGED <<objects, held, cur, event, grade, logged, changes, source, first>>

\* The appenders are through.
Delivered(t) ==
  /\ At(t, "deliver") /\ todo[t] = <<>>
  /\ Goto(t, "return")
  /\ UNCHANGED <<objects, held, cur, event, todo, grade, logged, changes, history, formats>>

\* Mutant: the outer log() gives its mutex back first.
MutInnermost(t) == Head(held[t])

\* The lock_guard that leaves its scope first is that of the inner log().
Innermost(t) == Last(held[t])

\* log() returns and gives its mutex back, the root logger's before the logger's.
Return(t) ==
  /\ At(t, "return")
  /\ IF held[t] # <<>>
     THEN /\ mutex' = [mutex EXCEPT ![Innermost(t)] = Null]
          /\ held' = [held EXCEPT ![t] = Front(@)]
          /\ UNCHANGED <<place, event, cur>>
     ELSE /\ Goto(t, "idle")
          /\ event' = [event EXCEPT ![t] = 0]
          /\ cur' = [cur EXCEPT ![t] = Null]
          /\ UNCHANGED <<mutex, held>>
  /\ UNCHANGED <<made, root, level, appenders, formatter, todo, grade, logged, changes,
                 history, formats>>

-----------------------------------------------------------------------------
(* Making and changing loggers.                                            *)

\* A thread changes something.
Change(t) ==
  /\ At(t, "idle")
  /\ changes < MaxChanges
  /\ changes' = changes + 1

\* Mutant: the mutex is not waited for.
MutLocked(t, l) == Change(t)

\* It holds the mutex of l meanwhile.
Locked(t, l) == Change(t) /\ mutex[l] = Null

\* Mutant: m_root is not set.
MutRootGiven(l) == root

\* m_root of a logger that the manager makes.
RootGiven(l) == [root EXCEPT ![l] = Root]

\* Mutant: appenders that have one are given f too.
MutWithFormatter(s, f) == [x \in DOMAIN formatter |-> IF x \in s THEN f ELSE formatter[x]]

\* Those of the appenders s that have no formatter are given f.
WithFormatter(s, f) ==
  [x \in DOMAIN formatter |-> IF x \in s /\ formatter[x] = Null THEN f ELSE formatter[x]]

\* History: the appender a is added to l, for the first time or once more.
FirstOf(a, l) == [first EXCEPT ![a] = IF @ = Null THEN formatter[l] ELSE @]

\* LoggerManager::getLogger(): the name is new. An old one changes nothing, here and
\* in getFileLogger(), which then returns a logger that may have no file.
GetLogger(t, l) ==
  /\ Locked(t, l)
  /\ l \in Named \ made
  /\ made' = made \cup {l}
  /\ root' = RootGiven(l)
  /\ UNCHANGED <<level, appenders, formatter, mutex, calls, history, formats>>

\* LoggerManager::getFileLogger(): the name is new, and so is the appender a.
GetFileLogger(t, l, a) ==
  /\ Locked(t, l)
  /\ l \in Named \ made
  /\ formatter[a] = Null
  /\ made' = made \cup {l}
  /\ root' = RootGiven(l)
  /\ appenders' = [appenders EXCEPT ![l] = <<a>>]
  /\ formatter' = WithFormatter({a}, formatter[l])
  /\ first' = FirstOf(a, l)
  /\ UNCHANGED <<level, mutex, calls, history, shown>>

\* setLevel(), without lock.
SetLevel(t, l, grd) ==
  /\ Change(t)
  /\ l \in made /\ level[l] # grd
  /\ level' = [level EXCEPT ![l] = grd]
  /\ UNCHANGED <<made, root, appenders, formatter, mutex, calls, history, formats>>

\* setFormatter(ptr): of the appenders on the list only those without formatter get it.
SetFormatter(t, l, f) ==
  /\ Locked(t, l)
  /\ l \in made /\ formatter[l] # f
  /\ formatter' = [WithFormatter(ToSet(appenders[l]), f) EXCEPT ![l] = f]
  /\ UNCHANGED <<made, root, level, appenders, mutex, calls, history, formats>>

\* setFormatter(string), without lock: none of them does.
SetPattern(t, l, f) ==
  /\ Change(t)
  /\ l \in made /\ formatter[l] # f
  /\ formatter' = [formatter EXCEPT ![l] = f]
  /\ UNCHANGED <<made, root, level, appenders, mutex, calls, history, formats>>

\* addAppender(): an appender that has no formatter is given the logger's.
AddAppender(t, l, a) ==
  /\ Locked(t, l)
  /\ l \in made
  /\ formatter' = WithFormatter({a}, formatter[l])
  /\ appenders' = [appenders EXCEPT ![l] = Append(@, a)]
  /\ first' = FirstOf(a, l)
  /\ UNCHANGED <<made, root, level, mutex, calls, history, shown>>

\* delAppender(): the first of the appender's places in the list.
DelAppender(t, l, a) ==
  /\ Locked(t, l)
  /\ a \in ToSet(appenders[l])
  /\ appenders' = [appenders EXCEPT ![l] = RemoveFirst(@, a)]
  /\ UNCHANGED <<made, root, level, formatter, mutex, calls, history, formats>>

\* clearAppender().
ClearAppender(t, l) ==
  /\ Locked(t, l)
  /\ appenders[l] # <<>>
  /\ appenders' = [appenders EXCEPT ![l] = <<>>]
  /\ UNCHANGED <<made, root, level, formatter, mutex, calls, history, formats>>

-----------------------------------------------------------------------------
\* A log() under way goes on.
Step(t) ==
  \/ Enter(t) \/ Lock(t) \/ Fallback(t) \/ Deliver(t) \/ Delivered(t) \/ Return(t)

\* A thread makes a call.
Call(t) ==
  \E l \in Logger :
    \/ \E grd \in Levels : Begin(t, l, grd) \/ SetLevel(t, l, grd)
    \/ \E f \in Formatter : SetFormatter(t, l, f) \/ SetPattern(t, l, f)
    \/ GetLogger(t, l) \/ ClearAppender(t, l)
    \/ \E a \in Appender : GetFileLogger(t, l, a) \/ AddAppender(t, l, a) \/ DelAppender(t, l, a)

Next == ~Failed /\ \E t \in Thread : Step(t) \/ Call(t)

Spec == Init /\ [][Next]_vars

\* A thread in a log() goes on, and gets a mutex that is free again and again.
FairSpec == Spec /\ \A t \in Thread : SF_vars(~Failed /\ Step(t))

-----------------------------------------------------------------------------
(* Properties.                                                             *)

Times(x, s) == Cardinality({k \in DOMAIN s : s[k] = x})

Logging(e) == {t \in Thread : event[t] = e}

\* Each appender of the logger that an event came out of puts it out as often as it
\* was in the list when the logger was locked, however the lists change meanwhile;
\* an event below DEBUG is put out by none.
HandedOut ==
  \A e \in Event, a \in Appender :
    LET coming == MapThenSumSet(LAMBDA t : Times(a, todo[t]), Logging(e))
    IN IF grade[e] < DEBUG THEN Times(e, seen[a]) = 0
       ELSE Times(e, seen[a]) + coming = Times(a, source[e].to)

Before(d, e, s) == \E j, k \in DOMAIN s : j < k /\ s[j] = d /\ s[k] = e

\* The appenders of a logger agree on the order of the events that came out of it.
SameOrder ==
  \A d, e \in Event, a, b \in Appender :
    (source[d].logger = source[e].logger /\ d # e) =>
      ~(Before(d, e, seen[a]) /\ Before(e, d, seen[b]))

\* An appender that was taken off every logger is silent from then on: its user may
\* destroy it.
SilentAfterRemoval ==
  [][\A a \in Appender :
       seen'[a] # seen[a] => \E l \in Logger : a \in ToSet(appenders[l])]_vars

\* Whatever an appender puts out, and through whichever loggers, is in the format that the
\* first logger it was added to had at that time: formats that are set later, and loggers
\* it is added to later, change none of it.
ShownAsFirstAdded == \A a \in Appender : shown[a] \subseteq {first[a]}

\* Logging fails on loggers that have neither appenders nor root only: on those that
\* their users constructed, as test_log.cpp:30 does, and on the root itself.
FailsOnlyWithoutRoot ==
  \A t \in Thread : At(t, "failed") =>
    /\ Last(held[t]) \in Own \cup {Root}
    /\ appenders[Last(held[t])] = <<>>

\* Every log() returns, unless the program has crashed.
LogReturns == \A t \in Thread : ~At(t, "idle") ~> At(t, "idle") \/ Failed
=============================================================================
