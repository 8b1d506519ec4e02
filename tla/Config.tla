------------------------------- MODULE Config -------------------------------
(***************************************************************************)
(* The configuration registry: class Config (code/common/config.h and      *)
(* config.cpp) and the variables ConfigVar<T> it keeps, used by several    *)
(* threads.  The registry maps a name to a variable of some type and is    *)
(* guarded by one mutex; each variable has a value, listeners and a mutex  *)
(* of its own.  A variable is never removed, so it is named by its name.   *)
(*                                                                         *)
(* Steps.  What is done while holding no mutex or a free one is one step   *)
(* from lock to unlock; a call that keeps a mutex while it waits for       *)
(* another, or that calls listeners, has a step for each.  Calls that      *)
(* change nothing (getValue, getListener, a Lookup that finds what it      *)
(* looks for or throws for a name no variable may have) are left out, but  *)
(* for those a listener makes while its variable is locked, and Visit(),   *)
(* which walks the registry without its mutex.  A text of the              *)
(* configuration file is the value it converts to, or Bad; ConfigText has  *)
(* the conversions.                                                        *)
(*                                                                         *)
(* s_fun_id is one counter for the variables of a type, and each of them   *)
(* locks its own mutex: addListener() has a step for each access.  A       *)
(* variable created while another thread is in Visit() is a race on the    *)
(* map; the model ends there (torn).                                       *)
(*                                                                         *)
(* What listeners do beyond taking note of the new value is the constant   *)
(* Moves:                                                                  *)
(*   "lookup"   a listener calls Config::Lookup                            *)
(*   "reread"   a listener reads the variable it listens to                *)
(*   "throw"    a listener throws                                          *)
(* Operators called Mut... are slips to try, as in Fiber.                  *)
(***************************************************************************)
EXTENDS Naturals, Sequences, FiniteSetsExt

CONSTANTS Thread, Type, Value, Null, Bad,
          Name,           \* numbered in the order of the registry's map
          Default,        \* the value a variable is created with
          Files,          \* what LoadFromYaml may be given: sequences of keys and texts
          Moves,
          MaxListeners    \* bound: listeners added to the variables of one type

ASSUME ConfigAssumption ==
  /\ Name # {} /\ Name \subseteq Nat
  /\ Default \in Value
  /\ Bad \notin Value
  /\ Null \notin Thread \cup Type
  /\ Files \subseteq Seq(Name \X (Value \cup {Bad}))
  /\ Moves \subseteq {"lookup", "reread", "throw"}
  /\ MaxListeners \in Nat

VARIABLES
  registry,   \* GetDatas(): the type of the variable of each name, or Null
  regMutex,   \* the thread that holds GetMutex(), or Null
  varMutex,   \* the thread that holds m_mutex of each variable, or Null
  val,        \* m_val
  listeners,  \* the keys of m_callbacks
  funId,      \* s_fun_id of each type
  place,      \* where each thread stands
  name,       \* the variable its call is about
  value,      \* the value it sets
  todo,       \* the listeners it has still to call
  plan,       \* what is left of the file it loads
  number,     \* what addListener() makes of s_fun_id
  heard,      \* history: the value each listener was last told, or found
  apart,      \* history: variables with a setValue() or addListener() between the
              \* two locked sections of another setValue(), or a listener that threw
  given,      \* history: how often each key was returned and not deleted since
  raced,      \* history: types whose counter two addListener() used at a time
  torn        \* a variable was created during a Visit(): anything may happen

objects == <<registry, regMutex, varMutex, val, listeners, funId>>
calls == <<place, name, value, todo, plan, number>>
history == <<heard, apart, given, raced, torn>>
vars == <<objects, calls, history>>

Key == 1..MaxListeners
NoName == CHOOSE n \in Name : TRUE   \* the name of a thread in no call
Places == {"idle", "find", "set", "notify", "lookup", "reread", "assign", "describe",
           "count", "store", "hand", "visit"}

TypeOK ==
  /\ registry \in [Name -> Type \cup {Null}]
  /\ regMutex \in Thread \cup {Null}
  /\ varMutex \in [Name -> Thread \cup {Null}]
  /\ val \in [Name -> Value]
  /\ listeners \in [Name -> SUBSET Key]
  /\ funId \in [Type -> 0..MaxListeners]
  /\ place \in [Thread -> Places]
  /\ name \in [Thread -> Name]
  /\ value \in [Thread -> Value]
  /\ todo \in [Thread -> SUBSET Key]
  /\ plan \in [Thread -> Seq(Name \X (Value \cup {Bad}))]
  /\ heard \in [Name -> [Key -> Value]]
  /\ number \in [Thread -> Nat]
  /\ apart \subseteq Name
  /\ given \in [Name -> [Key -> Nat]]
  /\ raced \subseteq Type
  /\ torn \in BOOLEAN

Init ==
  /\ registry = [n \in Name |-> Null]
  /\ regMutex = Null
  /\ varMutex = [n \in Name |-> Null]
  /\ val = [n \in Name |-> Default]
  /\ listeners = [n \in Name |-> {}]
  /\ funId = [T \in Type |-> 0]
  /\ place = [t \in Thread |-> "idle"]
  /\ name = [t \in Thread |-> NoName]
  /\ value = [t \in Thread |-> Default]
  /\ todo = [t \in Thread |-> {}]
  /\ plan = [t \in Thread |-> <<>>]
  /\ heard = [n \in Name |-> [k \in Key |-> Default]]
  /\ number = [t \in Thread |-> 0]
  /\ apart = {}
  /\ given = [n \in Name |-> [k \in Key |-> 0]]
  /\ raced = {}
  /\ torn = FALSE

-----------------------------------------------------------------------------
\* Thread t stands at place p of a program with no race on the registry.
At(t, p) == ~torn /\ place[t] = p

Goto(t, p) == place' = [place EXCEPT ![t] = p]

\* Mutant: the variable stays locked.
MutUnlockVar(t) == varMutex' = varMutex

\* ~unique_lock() of the variable t holds.
UnlockVar(t) == varMutex' = [varMutex EXCEPT ![name[t]] = Null]

\* A call returns: t may make another.
Leave(t) ==
  /\ Goto(t, "idle")
  /\ name' = [name EXCEPT ![t] = NoName]
  /\ value' = [value EXCEPT ![t] = Default]
  /\ number' = [number EXCEPT ![t] = 0]

\* A call of setValue() returns: to its caller, or to the loop of LoadFromYaml().
Return(t) ==
  IF plan[t] = <<>> THEN Leave(t) ELSE Goto(t, "find") /\ UNCHANGED <<name, value, number>>

\* A setValue() on n stands between its two locked sections.
Between(n) == \E u \in Thread : At(u, "assign") /\ name[u] = n

-----------------------------------------------------------------------------
(* Config::Lookup<T>(name, value, description).                            *)

\* The name is new: the variable is created.
Create(t, n, T) ==
  /\ At(t, "idle")
  /\ regMutex = Null
  /\ registry[n] = Null
  /\ registry' = [registry EXCEPT ![n] = T]
  /\ torn' = \E u \in Thread : At(u, "visit")
  /\ UNCHANGED <<regMutex, varMutex, val, listeners, funId, calls, heard, apart, given,
                 raced>>

\* The name has a variable of another type: the error message quotes its value,
\* which toString() reads while the registry stays locked.
LookupOther(t, n, T) ==
  /\ At(t, "idle")
  /\ regMutex = Null
  /\ registry[n] \notin {Null, T}
  /\ regMutex' = t
  /\ name' = [name EXCEPT ![t] = n]
  /\ Goto(t, "describe")
  /\ UNCHANGED <<registry, varMutex, val, listeners, funId, value, todo, plan, number,
                 history>>

\* Mutant: the registry stays locked behind the error message.
MutUnlockRegistry == regMutex' = regMutex

\* ~lock_guard() of the registry.
UnlockRegistry == regMutex' = Null

\* toString() has its turn, and the Lookup returns nullptr.
Describe(t) ==
  /\ At(t, "describe")
  /\ varMutex[name[t]] = Null
  /\ UnlockRegistry
  /\ Leave(t)
  /\ UNCHANGED <<registry, varMutex, val, listeners, funId, todo, plan, history>>

-----------------------------------------------------------------------------
(* Config::Visit(), with a callback that shows the variable's toString().  *)

\* n is the first of the variables in S.
First(n, S) == n \in S /\ \A m \in S : n <= m

Registered == {n \in Name : registry[n] # Null}

\* begin().
Visit(t) ==
  /\ At(t, "idle")
  /\ \E n \in Name : First(n, Registered) /\ name' = [name EXCEPT ![t] = n]
  /\ Goto(t, "visit")
  /\ UNCHANGED <<objects, value, todo, plan, number, history>>

\* The callback's toString() has its turn, and the walk goes on or ends.
VisitNext(t) ==
  /\ At(t, "visit")
  /\ varMutex[name[t]] = Null
  /\ LET behind == {n \in Registered : n > name[t]}
     IN \/ behind = {} /\ Leave(t)
        \/ /\ \E n \in Name : First(n, behind) /\ name' = [name EXCEPT ![t] = n]
           /\ UNCHANGED <<place, value, number>>
  /\ UNCHANGED <<objects, todo, plan, history>>

-----------------------------------------------------------------------------
(* ConfigVar::setValue() and fromString(), and LoadFromYaml().             *)

\* setValue(), or fromString() of a text that converts.
SetValue(t, n, v) ==
  /\ At(t, "idle")
  /\ registry[n] # Null
  /\ name' = [name EXCEPT ![t] = n]
  /\ value' = [value EXCEPT ![t] = v]
  /\ Goto(t, "set")
  /\ UNCHANGED <<objects, todo, plan, number, history>>

\* LoadFromYaml(): its list of keys and texts is made.
Load(t, file) ==
  /\ At(t, "idle")
  /\ file # <<>>
  /\ plan' = [plan EXCEPT ![t] = file]
  /\ Goto(t, "find")
  /\ UNCHANGED <<objects, name, value, todo, number, history>>

\* Mutant: what a text that does not convert leaves behind is set all the same.
MutSettable(key, text) == registry[key] # Null

\* LookupBase() finds a variable, and its fromString() a value.
Settable(key, text) == registry[key] # Null /\ text # Bad

\* LoadFromYaml(): LookupBase() of the next key, and fromString() of its text. A
\* key without variable and a text that does not convert are passed over.
Find(t) ==
  LET key  == Head(plan[t])[1]
      text == Head(plan[t])[2]
  IN /\ At(t, "find")
     /\ regMutex = Null
     /\ plan' = [plan EXCEPT ![t] = Tail(@)]
     /\ IF Settable(key, text)
        THEN /\ name' = [name EXCEPT ![t] = key]
             /\ value' = [value EXCEPT ![t] = text]
             /\ Goto(t, "set")
             /\ UNCHANGED number
        ELSE IF plan'[t] = <<>> THEN Leave(t) ELSE UNCHANGED <<place, name, value, number>>
     /\ UNCHANGED <<objects, todo, history>>

\* setValue(): its first locked section begins, and ends if there is no change.
Compare(t) ==
  LET n == name[t]
  IN /\ At(t, "set")
     /\ varMutex[n] = Null
     /\ IF value[t] = val[n]
        THEN Return(t) /\ UNCHANGED <<varMutex, todo, apart>>
        ELSE /\ varMutex' = [varMutex EXCEPT ![n] = t]
             /\ todo' = [todo EXCEPT ![t] = listeners[n]]
             /\ Goto(t, "notify")
             /\ UNCHANGED <<name, value, number>>
             /\ apart' = IF Between(n) THEN apart \cup {n} ELSE apart
     /\ UNCHANGED <<registry, regMutex, val, listeners, funId, plan, heard, given, raced,
                    torn>>

\* Mutant: the loop over the listeners ends after the first.
MutStillToTell(t) == {}

\* ++ of the loop over m_callbacks.
StillToTell(t) == todo[t] \ {Min(todo[t])}

\* The next listener is called, in the order of the keys, with the variable locked.
\* One that reads its own variable waits for its own thread: it never returns.
Notify(t) ==
  /\ At(t, "notify")
  /\ todo[t] # {}
  /\ heard' = [heard EXCEPT ![name[t]][Min(todo[t])] = value[t]]
  /\ todo' = [todo EXCEPT ![t] = StillToTell(t)]
  /\ \E p \in {"notify"} \cup (Moves \ {"throw"}) : Goto(t, p)
  /\ UNCHANGED <<objects, name, value, plan, number, apart, given, raced, torn>>

\* The next listener throws: setValue() is left with nothing assigned, to its caller
\* or to fromString(), which catches the exception.
NotifyThrow(t) ==
  /\ "throw" \in Moves
  /\ At(t, "notify")
  /\ todo[t] # {}
  /\ UnlockVar(t)
  /\ todo' = [todo EXCEPT ![t] = {}]
  /\ apart' = apart \cup {name[t]}
  /\ Return(t)
  /\ UNCHANGED <<registry, regMutex, val, listeners, funId, plan, heard, given, raced,
                 torn>>

\* A listener's Config::Lookup() returns.
ListenerLookup(t) ==
  /\ At(t, "lookup")
  /\ regMutex = Null
  /\ Goto(t, "notify")
  /\ UNCHANGED <<objects, name, value, todo, plan, number, history>>

\* setValue(): its first locked section ends.
Unlock(t) ==
  /\ At(t, "notify")
  /\ todo[t] = {}
  /\ UnlockVar(t)
  /\ Goto(t, "assign")
  /\ UNCHANGED <<registry, regMutex, val, listeners, funId, name, value, todo, plan,
                 number, history>>

\* setValue(): its second locked section.
Assign(t) ==
  /\ At(t, "assign")
  /\ varMutex[name[t]] = Null
  /\ val' = [val EXCEPT ![name[t]] = value[t]]
  /\ Return(t)
  /\ UNCHANGED <<registry, regMutex, varMutex, listeners, funId, todo, plan, history>>

-----------------------------------------------------------------------------
(* Listeners come and go.                                                  *)

\* t is between reading and handing out the counter of type T.
Adding(t, T) == place[t] \in {"count", "store", "hand"} /\ registry[name[t]] = T

\* addListener(): the variable is locked, and s_fun_id read.
AddListener(t, n) ==
  LET T == registry[n]
  IN /\ At(t, "idle")
     /\ T # Null
     /\ varMutex[n] = Null
     /\ funId[T] < MaxListeners
     /\ varMutex' = [varMutex EXCEPT ![n] = t]
     /\ name' = [name EXCEPT ![t] = n]
     /\ number' = [number EXCEPT ![t] = funId[T]]
     /\ Goto(t, "count")
     /\ raced' = IF \E u \in Thread : Adding(u, T) THEN raced \cup {T} ELSE raced
     /\ UNCHANGED <<registry, regMutex, val, listeners, funId, value, todo, plan, heard,
                    apart, given, torn>>

\* Mutant: the variable's listeners are counted instead.
MutIncrement(t) == Cardinality(listeners[name[t]]) + 1

\* s_fun_id++.
Increment(t) == number[t] + 1

\* addListener(): the counter is written.
Count(t) ==
  /\ At(t, "count")
  /\ number' = [number EXCEPT ![t] = Increment(t)]
  /\ funId' = [funId EXCEPT ![registry[name[t]]] = Increment(t)]
  /\ Goto(t, "store")
  /\ UNCHANGED <<registry, regMutex, varMutex, val, listeners, name, value, todo, plan,
                 history>>

\* What a use of s_fun_id yields after the increment: the compiler may keep the number
\* or read the counter again.
Number(t) == {number[t], funId[registry[name[t]]]}

\* addListener(): the callback is stored; it starts from the value it finds.
Store(t) ==
  LET n == name[t]
  IN /\ At(t, "store")
     /\ \E key \in Number(t) :
          /\ listeners' = [listeners EXCEPT ![n] = @ \cup {key}]
          /\ heard' = [heard EXCEPT ![n][key] = val[n]]
     /\ apart' = IF Between(n) THEN apart \cup {n} ELSE apart
     /\ Goto(t, "hand")
     /\ UNCHANGED <<registry, regMutex, varMutex, val, funId, name, value, todo, plan,
                    number, given, raced, torn>>

\* addListener(): the key is returned.
Hand(t) ==
  /\ At(t, "hand")
  /\ \E key \in Number(t) : given' = [given EXCEPT ![name[t]][key] = @ + 1]
  /\ UnlockVar(t)
  /\ Leave(t)
  /\ UNCHANGED <<registry, regMutex, val, listeners, funId, todo, plan, heard, apart,
                 raced, torn>>

\* delListener(key), and clearListener() of all of them.
DelListeners(t, n, keys) ==
  /\ At(t, "idle")
  /\ varMutex[n] = Null
  /\ keys = listeners[n] \/ \E k \in listeners[n] : keys = {k}
  /\ keys # {}
  /\ listeners' = [listeners EXCEPT ![n] = @ \ keys]
  /\ given' = [given EXCEPT ![n] = [k \in Key |-> IF k \in keys THEN 0 ELSE @[k]]]
  /\ heard' = [heard EXCEPT ![n] = [k \in Key |-> IF k \in keys THEN Default ELSE @[k]]]
  /\ UNCHANGED <<registry, regMutex, varMutex, val, funId, calls, apart, raced, torn>>

-----------------------------------------------------------------------------
\* A call under way goes on.
Step(t) ==
  \/ Describe(t) \/ Find(t) \/ Compare(t) \/ Notify(t) \/ NotifyThrow(t)
  \/ ListenerLookup(t) \/ Unlock(t) \/ Assign(t)
  \/ Count(t) \/ Store(t) \/ Hand(t) \/ VisitNext(t)

\* A thread makes a call.
Call(t) ==
  \/ \E n \in Name, T \in Type : Create(t, n, T) \/ LookupOther(t, n, T)
  \/ \E n \in Name, v \in Value : SetValue(t, n, v)
  \/ \E file \in Files : Load(t, file)
  \/ \E n \in Name : AddListener(t, n)
  \/ Visit(t)
  \/ \E n \in Name, keys \in SUBSET Key : DelListeners(t, n, keys)

Next == \E t \in Thread : Step(t) \/ Call(t)

Spec == Init /\ [][Next]_vars

\* A thread in a call goes on, and gets a mutex that is free again and again.
FairSpec == Spec /\ \A t \in Thread : SF_vars(Step(t))

-----------------------------------------------------------------------------
(* Properties.                                                             *)

\* The thread that holds the mutex t waits for, or Null.
WaitsFor(t) ==
  IF place[t] \in {"set", "assign", "reread", "describe", "visit"} THEN varMutex[name[t]]
  ELSE IF place[t] \in {"find", "lookup"} THEN regMutex
  ELSE Null

\* Threads that wait for each other for ever.
Knot(S) == S # {} /\ \A t \in S : WaitsFor(t) \in S

\* The library's own calls never deadlock, although Lookup() under a wrong type
\* takes both mutexes: there is a listener that calls back in every knot.
KnotNeedsListener ==
  \A S \in SUBSET Thread :
    Knot(S) => \E t \in S : place[t] \in {"lookup", "reread"}

\* Every call returns, unless threads are caught in a knot: a listener that reads
\* its own variable, or one that looks something up while a Lookup() under a
\* wrong type waits for its variable.  A race on the registry may end them all.
CallsReturn ==
  \A t \in Thread :
    place[t] # "idle" ~> place[t] = "idle" \/ torn \/ \E S \in SUBSET Thread : Knot(S)

\* While nobody sets a variable, each of its listeners was last told the value it
\* has - but for a variable where another call came between the two locked
\* sections of a setValue(), which unlocks between the listeners and the
\* assignment, or where a listener threw.
LastHeardIsValue ==
  \A n \in Name \ apart :
    (\A t \in Thread : name[t] = n => place[t] \notin {"notify", "lookup", "reread", "assign"})
      => \A k \in listeners[n] : heard[n][k] = val[n]

\* A key that addListener() returns is the key of its callback, and no other listener
\* of the variable has it or loses it to this one, whatever was added to other variables
\* of the type and deleted in between - but where two calls used the counter at a time.
OwnKeys ==
  \A n \in Name :
    registry[n] \notin raced /\ (\A t \in Thread : name[t] = n => place[t] # "hand")
      => \A k \in Key : given[n][k] = IF k \in listeners[n] THEN 1 ELSE 0
=============================================================================
