--------------------------- MODULE Config_proofs ---------------------------
(***************************************************************************)
(* Proofs about Config, for any number of threads, variables, types and    *)
(* listeners: who waits for whom, the keys of listeners and what they are  *)
(* told.                                                                   *)
(***************************************************************************)
EXTENDS Config, TLAPS

\* Who holds a mutex stands where the code holds it; what a load looks for next is
\* there.
Holders ==
  /\ \A t \in Thread : place[t] = "find" => plan[t] # <<>>
  /\ \A t \in Thread : regMutex = t => place[t] = "describe"
  /\ \A n \in Name, t \in Thread :
       varMutex[n] = t =>
         name[t] = n /\ place[t] \in {"notify", "lookup", "reread", "count", "store", "hand"}

\* The numbers addListener() works with, and the counter it may read again, are keys.
Counting ==
  \A t \in Thread :
    /\ place[t] = "count" => registry[name[t]] \in Type /\ number[t] + 1 \in Key
    /\ place[t] \in {"store", "hand"} =>
         registry[name[t]] \in Type /\ number[t] \in Key /\ funId[registry[name[t]]] \in Key

IInv == TypeOK /\ Holders /\ Counting

-----------------------------------------------------------------------------
LEMMA InitIInv == Init => IInv
<1> SUFFICES ASSUME Init PROVE IInv
  OBVIOUS
<1>1. NoName \in Name
  BY ConfigAssumption DEF NoName
<1>2. TypeOK
  <2>1. torn \in BOOLEAN /\ raced \subseteq Type /\ given \in [Name -> [Key -> Nat]]
    BY <1>1 DEF Init
  <2>2. number \in [Thread -> Nat] /\ place \in [Thread -> Places] /\ name \in [Thread -> Name]
    BY <1>1 DEF Init, Places
  <2> QED
    BY <2>1, <2>2, ConfigAssumption DEF Init, TypeOK
<1>3. Holders /\ Counting
  BY ConfigAssumption DEF Init, Holders, Counting
<1> QED
  BY <1>2, <1>3 DEF IInv

\* What is left of a file is a file.
LEMMA PlanTail ==
  ASSUME TypeOK, NEW t \in Thread, plan[t] # <<>>
  PROVE  /\ Head(plan[t])[1] \in Name
         /\ Head(plan[t])[2] \in Value \cup {Bad}
         /\ Tail(plan[t]) \in Seq(Name \X (Value \cup {Bad}))
<1>1. plan[t] \in Seq(Name \X (Value \cup {Bad}))
  BY DEF TypeOK
<1>2. Head(plan[t]) \in Name \X (Value \cup {Bad}) /\ Tail(plan[t]) \in Seq(Name \X (Value \cup {Bad}))
  BY <1>1
<1> QED
  BY <1>2

LEMMA LeaveTypeOK ==
  ASSUME TypeOK, NEW t \in Thread, Leave(t)
  PROVE  /\ place' \in [Thread -> Places]
         /\ name' \in [Thread -> Name]
         /\ value' \in [Thread -> Value]
         /\ number' \in [Thread -> Nat]
BY ConfigAssumption DEF Leave, Goto, TypeOK, Places, NoName

LEMMA ReturnTypeOK ==
  ASSUME TypeOK, NEW t \in Thread, Return(t)
  PROVE  /\ place' \in [Thread -> Places]
         /\ name' \in [Thread -> Name]
         /\ value' \in [Thread -> Value]
         /\ number' \in [Thread -> Nat]
<1>1. CASE Leave(t)
  BY <1>1, LeaveTypeOK
<1>2. CASE Goto(t, "find") /\ UNCHANGED <<name, value, number>>
  BY <1>2 DEF Goto, TypeOK, Places
<1> QED
  BY <1>1, <1>2 DEF Return

LEMMA NextTypeOK == IInv /\ [Next]_vars => TypeOK'
<1> SUFFICES ASSUME IInv, [Next]_vars PROVE TypeOK'
  OBVIOUS
<1> USE ConfigAssumption DEF IInv, TypeOK, Places
<1>1. ASSUME NEW t \in Thread, Describe(t) PROVE TypeOK'
  BY <1>1, LeaveTypeOK DEF Describe, UnlockRegistry, history
<1>2. ASSUME NEW t \in Thread, Find(t) PROVE TypeOK'
  <2>1. plan[t] # <<>>
    BY <1>2 DEF Find, Holders, At
  <2>2. Head(plan[t])[2] # Bad => Head(plan[t])[2] \in Value
    BY <2>1, PlanTail
  <2>3. plan' \in [Thread -> Seq(Name \X (Value \cup {Bad}))]
    BY <1>2, <2>1, PlanTail DEF Find
  <2>4. CASE Settable(Head(plan[t])[1], Head(plan[t])[2])
    <3>1. place' \in [Thread -> Places] /\ name' \in [Thread -> Name] /\ value' \in [Thread -> Value]
      BY <1>2, <2>1, <2>2, <2>4, PlanTail DEF Find, Goto, Settable
    <3> QED
      BY <1>2, <2>3, <2>4, <3>1 DEF Find, objects, history
  <2>5. CASE ~Settable(Head(plan[t])[1], Head(plan[t])[2])
    <3>1. /\ place' \in [Thread -> Places]
          /\ name' \in [Thread -> Name]
          /\ value' \in [Thread -> Value]
          /\ number' \in [Thread -> Nat]
      BY <1>2, <2>5, LeaveTypeOK DEF Find
    <3> QED
      BY <1>2, <2>3, <3>1 DEF Find, objects, history
  <2> QED
    BY <2>4, <2>5
<1>3. ASSUME NEW t \in Thread, Compare(t) PROVE TypeOK'
  <2>1. /\ place' \in [Thread -> Places]
        /\ name' \in [Thread -> Name]
        /\ value' \in [Thread -> Value]
        /\ number' \in [Thread -> Nat]
    <3>1. CASE value[t] = val[name[t]]
      BY <1>3, <3>1, ReturnTypeOK DEF Compare
    <3>2. CASE value[t] # val[name[t]]
      BY <1>3, <3>2 DEF Compare, Goto
    <3> QED
      BY <3>1, <3>2
  <2>2. name[t] \in Name /\ listeners[name[t]] \in SUBSET Key
    BY DEF TypeOK
  <2>3. varMutex' \in [Name -> Thread \cup {Null}]
    <3>1. varMutex' = varMutex \/ varMutex' = [varMutex EXCEPT ![name[t]] = t]
      BY <1>3 DEF Compare
    <3> QED
      BY <3>1
  <2>4. todo' \in [Thread -> SUBSET Key]
    <3>1. todo' = todo \/ todo' = [todo EXCEPT ![t] = listeners[name[t]]]
      BY <1>3 DEF Compare
    <3> QED
      BY <2>2, <3>1
  <2>5. apart' \subseteq Name
    <3>1. apart' = apart \/ apart' = apart \cup {name[t]}
      BY <1>3 DEF Compare
    <3> QED
      BY <2>2, <3>1
  <2> QED
    BY <1>3, <2>1, <2>3, <2>4, <2>5 DEF Compare
<1>4. ASSUME NEW t \in Thread, Notify(t) PROVE TypeOK'
  <2>1. place' \in [Thread -> Places]
    BY <1>4 DEF Notify, Goto
  <2>2. heard' \in [Name -> [Key -> Value]] /\ todo' \in [Thread -> SUBSET Key]
    BY <1>4 DEF Notify, StillToTell
  <2> QED
    BY <1>4, <2>1, <2>2 DEF Notify, objects
<1>5. ASSUME NEW t \in Thread, NotifyThrow(t) PROVE TypeOK'
  BY <1>5, ReturnTypeOK DEF NotifyThrow, UnlockVar
<1>6. ASSUME NEW t \in Thread, ListenerLookup(t) PROVE TypeOK'
  BY <1>6 DEF ListenerLookup, Goto, objects, history
<1>7. ASSUME NEW t \in Thread, Unlock(t) PROVE TypeOK'
  BY <1>7 DEF Unlock, UnlockVar, Goto, history
<1>8. ASSUME NEW t \in Thread, Assign(t) PROVE TypeOK'
  BY <1>8, ReturnTypeOK DEF Assign, history
<1>9. ASSUME NEW t \in Thread, NEW n \in Name, NEW T \in Type, Create(t, n, T) PROVE TypeOK'
  BY <1>9 DEF Create, calls, history
<1>10. ASSUME NEW t \in Thread, NEW n \in Name, NEW T \in Type, LookupOther(t, n, T)
       PROVE  TypeOK'
  BY <1>10 DEF LookupOther, Goto, history
<1>11. ASSUME NEW t \in Thread, NEW n \in Name, NEW v \in Value, SetValue(t, n, v)
       PROVE  TypeOK'
  BY <1>11 DEF SetValue, Goto, objects, history
<1>12. ASSUME NEW t \in Thread, NEW file \in Files, Load(t, file) PROVE TypeOK'
  BY <1>12 DEF Load, Goto, objects, history
<1>13. ASSUME NEW t \in Thread, NEW n \in Name, AddListener(t, n) PROVE TypeOK'
  <2>1. registry[n] \in Type /\ funId[registry[n]] \in Nat
    BY <1>13 DEF AddListener
  <2>2. number' \in [Thread -> Nat] /\ raced' \subseteq Type
    BY <1>13, <2>1 DEF AddListener
  <2>3. /\ place' \in [Thread -> Places]
        /\ name' \in [Thread -> Name]
        /\ varMutex' \in [Name -> Thread \cup {Null}]
    BY <1>13 DEF AddListener, Goto
  <2> QED
    BY <1>13, <2>2, <2>3 DEF AddListener
<1>14. ASSUME NEW t \in Thread, NEW n \in Name, NEW keys \in SUBSET Key,
              DelListeners(t, n, keys)
       PROVE  TypeOK'
  <2>1. listeners' \in [Name -> SUBSET Key] /\ heard' \in [Name -> [Key -> Value]]
    BY <1>14 DEF DelListeners
  <2>2. given' \in [Name -> [Key -> Nat]]
    BY <1>14 DEF DelListeners
  <2> QED
    BY <1>14, <2>1, <2>2 DEF DelListeners, calls
<1>15. ASSUME NEW t \in Thread, Count(t) PROVE TypeOK'
  <2>1. At(t, "count") /\ registry[name[t]] \in Type /\ number[t] + 1 \in Key
    BY <1>15 DEF Count, Counting, At
  <2>2. number' \in [Thread -> Nat] /\ funId' \in [Type -> 0..MaxListeners]
    BY <1>15, <2>1 DEF Count, Increment, Key
  <2> QED
    BY <1>15, <2>2 DEF Count, Goto, history
<1>16. ASSUME NEW t \in Thread, Store(t) PROVE TypeOK'
  <2>1. Number(t) \subseteq Key
    BY <1>16 DEF Store, Number, Counting, At
  <2>2. PICK key \in Number(t) :
          /\ listeners' = [listeners EXCEPT ![name[t]] = @ \cup {key}]
          /\ heard' = [heard EXCEPT ![name[t]][key] = val[name[t]]]
    BY <1>16 DEF Store
  <2>3. name[t] \in Name /\ key \in Key
    BY <2>1
  <2>4. listeners' \in [Name -> SUBSET Key]
    BY <2>2, <2>3
  <2>5. heard' \in [Name -> [Key -> Value]]
    BY <2>2, <2>3
  <2>6. apart' \subseteq Name
    <3>1. apart' = apart \/ apart' = apart \cup {name[t]}
      BY <1>16 DEF Store
    <3> QED
      BY <2>3, <3>1
  <2> QED
    BY <1>16, <2>4, <2>5, <2>6 DEF Store, Goto
<1>17. ASSUME NEW t \in Thread, Hand(t) PROVE TypeOK'
  <2>1. given' \in [Name -> [Key -> Nat]]
    <3>1. PICK key \in Number(t) : given' = [given EXCEPT ![name[t]][key] = @ + 1]
      BY <1>17 DEF Hand
    <3>2. key \in Key /\ name[t] \in Name
      BY <1>17, <3>1 DEF Hand, Number, Counting, At
    <3> DEFINE row == given[name[t]]
    <3>3. [row EXCEPT ![key] = @ + 1] \in [Key -> Nat]
      <4>1. row \in [Key -> Nat]
        BY <3>2
      <4>2. row[key] + 1 \in Nat
        BY <3>2, <4>1
      <4> HIDE DEF row
      <4> QED
        BY <3>2, <4>1, <4>2
    <3>4. given' = [given EXCEPT ![name[t]] = [given[name[t]] EXCEPT ![key] = @ + 1]]
      BY <3>1, <3>2
    <3> QED
      BY <3>2, <3>3, <3>4
  <2> QED
    BY <1>17, <2>1, LeaveTypeOK DEF Hand, UnlockVar
<1>18. ASSUME NEW t \in Thread, Visit(t) PROVE TypeOK'
  BY <1>18 DEF Visit, Goto, objects, history
<1>19. ASSUME NEW t \in Thread, VisitNext(t) PROVE TypeOK'
  <2>1. CASE Leave(t)
    BY <1>19, <2>1, LeaveTypeOK DEF VisitNext, objects, history
  <2>2. ASSUME NEW n \in Name, name' = [name EXCEPT ![t] = n],
               UNCHANGED <<place, value, number>>
        PROVE  TypeOK'
    BY <1>19, <2>2 DEF VisitNext, objects, history
  <2> QED
    BY <1>19, <2>1, <2>2 DEF VisitNext
<1>20. CASE UNCHANGED vars
  BY <1>20 DEF vars, objects, calls, history
<1> QED
  BY <1>1, <1>2, <1>3, <1>4, <1>5, <1>6, <1>7, <1>8, <1>9, <1>10, <1>11, <1>12, <1>13,
     <1>14, <1>15, <1>16, <1>17, <1>18, <1>19, <1>20
  DEF Next, Step, Call

LEMMA NextHolders == IInv /\ [Next]_vars => Holders'
<1> SUFFICES ASSUME IInv, [Next]_vars PROVE Holders'
  OBVIOUS
<1>0. /\ varMutex \in [Name -> Thread \cup {Null}]
      /\ name \in [Thread -> Name]
      /\ DOMAIN place = Thread /\ DOMAIN plan = Thread
      /\ Null \notin Thread
      /\ Holders
  BY ConfigAssumption DEF IInv, TypeOK
<1> USE <1>0 DEF Holders, At, Goto, UnlockVar, Leave
<1>1. ASSUME NEW t \in Thread, Describe(t) PROVE Holders'
  BY <1>1 DEF Describe, UnlockRegistry, history
<1>2. ASSUME NEW t \in Thread, Find(t) PROVE Holders'
  <2>1. /\ UNCHANGED <<regMutex, varMutex>> /\ At(t, "find")
        /\ plan' = [plan EXCEPT ![t] = Tail(plan[t])]
        /\ \A u \in Thread \ {t} : place'[u] = place[u] /\ name'[u] = name[u]
        /\ place'[t] \in {"set", "idle", "find"}
        /\ place'[t] = "find" => plan'[t] # <<>>
    BY <1>2 DEF Find, objects
  <2>2. (\A n \in Name : varMutex[n] # t) /\ regMutex # t
    BY <2>1
  <2>3. \A u \in Thread : place'[u] = "find" => plan'[u] # <<>>
    BY <2>1
  <2>4. \A u \in Thread : regMutex' = u => place'[u] = "describe"
    BY <2>1, <2>2
  <2>5. \A n \in Name, u \in Thread :
          varMutex'[n] = u =>
            name'[u] = n /\ place'[u] \in {"notify", "lookup", "reread", "count", "store", "hand"}
    BY <2>1, <2>2
  <2> QED
    BY <2>3, <2>4, <2>5
<1>3. ASSUME NEW t \in Thread, Compare(t) PROVE Holders'
  <2>1. CASE value[t] = val[name[t]]
    <3>1. /\ UNCHANGED <<regMutex, varMutex, plan>> /\ place[t] = "set"
          /\ \A u \in Thread \ {t} : place'[u] = place[u] /\ name'[u] = name[u]
          /\ place'[t] \in {"idle", "find"} /\ (place'[t] = "find" => plan[t] # <<>>)
      BY <1>3, <2>1 DEF Compare, Return
    <3> QED
      BY <3>1
  <2>2. CASE value[t] # val[name[t]]
    <3>1. /\ UNCHANGED <<regMutex, plan, name>> /\ place[t] = "set"
          /\ varMutex' = [varMutex EXCEPT ![name[t]] = t]
          /\ place' = [place EXCEPT ![t] = "notify"]
      BY <1>3, <2>2 DEF Compare
    <3> QED
      BY <3>1
  <2> QED
    BY <2>1, <2>2
<1>4. ASSUME NEW t \in Thread, Notify(t) PROVE Holders'
  BY <1>4, ConfigAssumption DEF Notify, objects
<1>5. ASSUME NEW t \in Thread, NotifyThrow(t) PROVE Holders'
  <2>1. /\ UNCHANGED <<regMutex, plan>> /\ place[t] = "notify"
        /\ varMutex' = [varMutex EXCEPT ![name[t]] = Null]
        /\ \A u \in Thread \ {t} : place'[u] = place[u] /\ name'[u] = name[u]
        /\ place'[t] \in {"idle", "find"} /\ (place'[t] = "find" => plan[t] # <<>>)
    BY <1>5 DEF NotifyThrow, Return
  <2>2. \A n \in Name : varMutex'[n] # t
    BY <2>1
  <2>3. \A u \in Thread : place'[u] = "find" => plan'[u] # <<>>
    BY <2>1
  <2>4. \A u \in Thread : regMutex' = u => place'[u] = "describe"
    BY <2>1
  <2>5. ASSUME NEW n \in Name, NEW u \in Thread, varMutex'[n] = u
        PROVE  name'[u] = n
               /\ place'[u] \in {"notify", "lookup", "reread", "count", "store", "hand"}
    <3>1. u # t
      BY <2>2, <2>5
    <3>2. varMutex[n] = u
      BY <2>1, <2>5
    <3>3. name[u] = n /\ place[u] \in {"notify", "lookup", "reread", "count", "store", "hand"}
      BY <3>2
    <3> QED
      BY <2>1, <3>1, <3>3
  <2> QED
    BY <2>3, <2>4, <2>5 DEF Holders
<1>6. ASSUME NEW t \in Thread, ListenerLookup(t) PROVE Holders'
  BY <1>6 DEF ListenerLookup, objects, history
<1>7. ASSUME NEW t \in Thread, Unlock(t) PROVE Holders'
  BY <1>7 DEF Unlock, history
<1>8. ASSUME NEW t \in Thread, Assign(t) PROVE Holders'
  <2>1. /\ UNCHANGED <<regMutex, varMutex, plan>> /\ place[t] = "assign"
        /\ \A u \in Thread \ {t} : place'[u] = place[u] /\ name'[u] = name[u]
        /\ place'[t] \in {"idle", "find"} /\ (place'[t] = "find" => plan[t] # <<>>)
    BY <1>8 DEF Assign, Return
  <2> QED
    BY <2>1
<1>9. ASSUME NEW t \in Thread, NEW n \in Name, NEW T \in Type, Create(t, n, T) PROVE Holders'
  BY <1>9 DEF Create, calls, history
<1>10. ASSUME NEW t \in Thread, NEW n \in Name, NEW T \in Type, LookupOther(t, n, T)
       PROVE  Holders'
  BY <1>10 DEF LookupOther, history
<1>11. ASSUME NEW t \in Thread, NEW n \in Name, NEW v \in Value, SetValue(t, n, v)
       PROVE  Holders'
  BY <1>11 DEF SetValue, objects, history
<1>12. ASSUME NEW t \in Thread, NEW file \in Files, Load(t, file) PROVE Holders'
  BY <1>12 DEF Load, objects, history
<1>13. ASSUME NEW t \in Thread, NEW n \in Name, AddListener(t, n) PROVE Holders'
  <2>1. /\ UNCHANGED <<regMutex, plan>> /\ place[t] = "idle" /\ varMutex[n] = Null
        /\ varMutex' = [varMutex EXCEPT ![n] = t]
        /\ place' = [place EXCEPT ![t] = "count"] /\ name' = [name EXCEPT ![t] = n]
    BY <1>13 DEF AddListener
  <2>2. \A m \in Name, u \in Thread :
          varMutex'[m] = u => name'[u] = m /\ place'[u] \in {"notify", "lookup", "reread", "count", "store", "hand"}
    <3> SUFFICES ASSUME NEW m \in Name, NEW u \in Thread, varMutex'[m] = u
                 PROVE  name'[u] = m /\ place'[u] \in {"notify", "lookup", "reread", "count", "store", "hand"}
      OBVIOUS
    <3>1. CASE m = n
      BY <2>1, <3>1
    <3>2. CASE m # n
      <4>1. varMutex[m] = u /\ u # t
        BY <2>1, <3>2
      <4> QED
        BY <2>1, <4>1
    <3> QED
      BY <3>1, <3>2
  <2> QED
    BY <2>1, <2>2
<1>14. ASSUME NEW t \in Thread, NEW n \in Name, NEW keys \in SUBSET Key,
              DelListeners(t, n, keys)
       PROVE  Holders'
  BY <1>14 DEF DelListeners, calls, history
<1>15. ASSUME NEW t \in Thread, Count(t) PROVE Holders'
  BY <1>15 DEF Count, history
<1>16. ASSUME NEW t \in Thread, Store(t) PROVE Holders'
  BY <1>16 DEF Store
<1>17. ASSUME NEW t \in Thread, Hand(t) PROVE Holders'
  BY <1>17 DEF Hand
<1>18. ASSUME NEW t \in Thread, Visit(t) PROVE Holders'
  BY <1>18 DEF Visit, objects, history
<1>19. ASSUME NEW t \in Thread, VisitNext(t) PROVE Holders'
  <2>1. /\ UNCHANGED <<regMutex, varMutex, plan>> /\ place[t] = "visit"
        /\ \A u \in Thread \ {t} : place'[u] = place[u] /\ name'[u] = name[u]
        /\ place'[t] \in {"idle", "visit"}
    <3>1. CASE Leave(t)
      BY <1>19, <3>1 DEF VisitNext, objects
    <3>2. ASSUME NEW n \in Name, name' = [name EXCEPT ![t] = n], UNCHANGED place
          PROVE  \A u \in Thread \ {t} : place'[u] = place[u] /\ name'[u] = name[u]
      BY <3>2
    <3>3. UNCHANGED <<regMutex, varMutex, plan>> /\ place[t] = "visit"
      BY <1>19 DEF VisitNext, objects
    <3> QED
      BY <1>19, <3>1, <3>2, <3>3 DEF VisitNext
  <2>2. \A n \in Name : varMutex[n] # t
    BY <2>1
  <2>3. regMutex # t
    BY <2>1
  <2> QED
    BY <2>1, <2>2, <2>3
<1>20. CASE UNCHANGED vars
  BY <1>20 DEF vars, objects, calls, history
<1> QED
  BY <1>1, <1>2, <1>3, <1>4, <1>5, <1>6, <1>7, <1>8, <1>9, <1>10, <1>11, <1>12, <1>13,
     <1>14, <1>15, <1>16, <1>17, <1>18, <1>19, <1>20
  DEF Next, Step, Call

\* A thread in addListener() keeps its variable's type and its number, and the counter
\* goes from key to key.
LEMMA KeepsCounting ==
  ASSUME IInv, TypeOK',
         \A n \in Name : registry[n] \in Type => registry'[n] = registry[n],
         \A T \in Type : funId[T] \in Key => funId'[T] \in Key,
         NEW t \in Thread, place'[t] \notin {"count", "store", "hand"},
         \A u \in Thread \ {t} : place'[u] = place[u] /\ name'[u] = name[u] /\ number'[u] = number[u]
  PROVE  Counting'
<1> SUFFICES ASSUME NEW u \in Thread, place'[u] \in {"count", "store", "hand"}
             PROVE  /\ place'[u] = "count" => registry'[name'[u]] \in Type /\ number'[u] + 1 \in Key
                    /\ place'[u] \in {"store", "hand"} =>
                         /\ registry'[name'[u]] \in Type /\ number'[u] \in Key
                         /\ funId'[registry'[name'[u]]] \in Key
  BY DEF Counting
<1>1. u # t /\ name[u] \in Name
  BY DEF IInv, TypeOK
<1> QED
  BY <1>1 DEF IInv, Counting

LEMMA NextCounting == IInv /\ TypeOK' /\ [Next]_vars => Counting'
<1> SUFFICES ASSUME IInv, TypeOK', [Next]_vars PROVE Counting'
  OBVIOUS
<1> USE ConfigAssumption DEF IInv, At, Goto
<1> DEFINE Same == UNCHANGED <<registry, funId>>
           Others(t) == \A u \in Thread \ {t} :
                          place'[u] = place[u] /\ name'[u] = name[u] /\ number'[u] = number[u]
           Out(t) == place'[t] \notin {"count", "store", "hand"}
<1>0. ASSUME NEW t \in Thread, Same, Others(t), Out(t) PROVE Counting'
  BY <1>0, KeepsCounting
<1>1. ASSUME NEW t \in Thread,
             \/ Describe(t) \/ Notify(t) \/ NotifyThrow(t) \/ ListenerLookup(t)
             \/ Unlock(t) \/ Assign(t) \/ Visit(t) \/ VisitNext(t)
      PROVE  Counting'
  <2>1. Same
    BY <1>1 DEF Describe, Notify, NotifyThrow, ListenerLookup, Unlock, Assign, Visit,
                VisitNext, objects
  <2>2. DOMAIN place = Thread /\ DOMAIN name = Thread /\ DOMAIN number = Thread
    BY DEF TypeOK
  <2> HIDE DEF IInv
  <2>3. Others(t) /\ Out(t)
    <3>1. CASE Leave(t)
      BY <2>2, <3>1 DEF Leave
    <3>2. CASE Return(t)
      BY <2>2, <3>1, <3>2 DEF Return
    <3>3. CASE Notify(t)
      BY <2>2, <3>3 DEF Notify
    <3>4. CASE ListenerLookup(t) \/ Unlock(t)
      BY <2>2, <3>4 DEF ListenerLookup, Unlock
    <3>5. CASE Visit(t)
      BY <2>2, <3>5 DEF Visit
    <3>6. CASE VisitNext(t)
      BY <2>2, <3>1, <3>6 DEF VisitNext
    <3> QED
      BY <1>1, <3>1, <3>2, <3>3, <3>4, <3>5, <3>6 DEF Describe, NotifyThrow, Assign
  <2> QED
    BY <2>1, <2>3, <1>0
<1>2. ASSUME NEW t \in Thread, Find(t) \/ Compare(t) PROVE Counting'
  <2>1. Same
    BY <1>2 DEF Find, Compare, objects
  <2>2. Others(t) /\ Out(t)
    <3>1. CASE Find(t)
      BY <3>1 DEF Find, Leave, TypeOK
    <3>2. CASE Compare(t)
      BY <3>2 DEF Compare, Return, Leave, TypeOK
    <3> QED
      BY <1>2, <3>1, <3>2
  <2> QED
    BY <2>1, <2>2, <1>0
<1>3. ASSUME NEW t \in Thread, NEW n \in Name, NEW T \in Type, Create(t, n, T)
      PROVE  Counting'
  BY <1>3, KeepsCounting DEF Create, calls, TypeOK
<1>4. ASSUME NEW t \in Thread, NEW n \in Name, NEW T \in Type, LookupOther(t, n, T)
      PROVE  Counting'
  BY <1>4, <1>0 DEF LookupOther, TypeOK
<1>5. ASSUME NEW t \in Thread, NEW n \in Name, NEW v \in Value, SetValue(t, n, v)
      PROVE  Counting'
  BY <1>5, <1>0 DEF SetValue, TypeOK, objects
<1>6. ASSUME NEW t \in Thread, NEW file \in Files, Load(t, file) PROVE Counting'
  BY <1>6, <1>0 DEF Load, TypeOK, objects
<1>7. ASSUME NEW t \in Thread, NEW n \in Name, NEW keys \in SUBSET Key,
             DelListeners(t, n, keys)
      PROVE  Counting'
  BY <1>7, <1>0 DEF DelListeners, calls, TypeOK
<1>8. ASSUME NEW t \in Thread, NEW n \in Name, AddListener(t, n) PROVE Counting'
  <2>1. /\ registry[n] \in Type /\ funId[registry[n]] + 1 \in Key
        /\ UNCHANGED <<registry, funId>>
        /\ place' = [place EXCEPT ![t] = "count"]
        /\ name' = [name EXCEPT ![t] = n]
        /\ number' = [number EXCEPT ![t] = funId[registry[n]]]
    BY <1>8 DEF AddListener, TypeOK, Key
  <2> QED
    BY <2>1 DEF Counting, TypeOK
<1>9. ASSUME NEW t \in Thread, Count(t) PROVE Counting'
  <2>1. registry[name[t]] \in Type /\ number[t] + 1 \in Key
    BY <1>9 DEF Count, Counting
  <2>2. /\ UNCHANGED <<registry, name>>
        /\ place' = [place EXCEPT ![t] = "store"]
        /\ number' = [number EXCEPT ![t] = number[t] + 1]
        /\ funId' = [funId EXCEPT ![registry[name[t]]] = number[t] + 1]
    BY <1>9 DEF Count, Increment
  <2> QED
    BY <2>1, <2>2 DEF Counting, TypeOK
<1>10. ASSUME NEW t \in Thread, Store(t) PROVE Counting'
  <2>1. /\ UNCHANGED <<registry, funId, name, number>> /\ place[t] = "store"
        /\ place' = [place EXCEPT ![t] = "hand"]
    BY <1>10 DEF Store
  <2> QED
    BY <2>1 DEF Counting, TypeOK
<1>11. ASSUME NEW t \in Thread, Hand(t) PROVE Counting'
  BY <1>11, <1>0 DEF Hand, Leave, TypeOK
<1>12. CASE UNCHANGED vars
  BY <1>12 DEF vars, objects, calls, Counting
<1> QED
  BY <1>1, <1>2, <1>3, <1>4, <1>5, <1>6, <1>7, <1>8, <1>9, <1>10, <1>11, <1>12
  DEF Next, Step, Call

LEMMA Invariance == Spec => []IInv
<1>1. IInv /\ [Next]_vars => IInv'
  BY NextTypeOK, NextHolders, NextCounting DEF IInv
<1> QED
  BY InitIInv, <1>1, PTL DEF Spec

\* Registry, variables and calls stay typed whatever threads, listeners and files do:
\* a load never looks for a key beyond its list, nor sets a text that did not convert.
THEOREM TypeCorrect == Spec => []TypeOK
<1>1. IInv => TypeOK
  BY DEF IInv
<1> QED
  BY Invariance, <1>1, PTL

\* Threads that wait for nobody but each other hold variables only, since who holds
\* the registry waits for a variable; and who holds a variable waits in a listener.
LEMMA HoldersNoKnot == IInv => KnotNeedsListener
<1> SUFFICES ASSUME IInv, NEW S \in SUBSET Thread, Knot(S),
                    \A t \in S : place[t] \notin {"lookup", "reread"}
             PROVE  FALSE
  BY DEF KnotNeedsListener
<1> USE ConfigAssumption DEF IInv
<1>1. PICK t \in S : WaitsFor(t) \in S
  BY DEF Knot
<1>2. \A u \in S : place[u] \notin {"notify", "count", "store", "hand"}
  BY DEF Knot, WaitsFor
<1>3. \A u \in S, n \in Name : varMutex[n] # u
  BY <1>2 DEF Holders
<1>4. \A u \in S : name[u] \in Name
  BY DEF TypeOK
<1>5. \A u \in S : place[u] \notin {"set", "assign", "describe", "visit"}
  BY <1>3, <1>4 DEF Knot, WaitsFor
<1>6. WaitsFor(t) = regMutex /\ place[t] = "find"
  BY <1>1, <1>5 DEF WaitsFor
<1>7. place[regMutex] = "describe"
  BY <1>1, <1>6 DEF Holders
<1> QED
  BY <1>1, <1>5, <1>6, <1>7

\* For any number of threads and variables: Lookup(), setValue(), LoadFromYaml() and
\* the calls about listeners never deadlock, whatever mutexes they hold together,
\* unless a listener calls back into the registry or its own variable.
THEOREM NoKnotWithoutListener == Spec => []KnotNeedsListener
BY Invariance, HoldersNoKnot, PTL

-----------------------------------------------------------------------------
(* The keys of listeners: OwnKeys.                                         *)


AddPlaces == {"count", "store", "hand"}
LockPlaces == {"notify", "lookup", "reread"} \cup AddPlaces

\* Who stands where the code holds a variable's mutex holds it.
Locks == \A t \in Thread : place[t] \in LockPlaces => varMutex[name[t]] = t

\* The counter of a type that no two calls used at a time is used by one at most.
OneAdder ==
  \A T \in Type \ raced, t, u \in Thread : Adding(t, T) /\ Adding(u, T) => t = u

\* That call works with the number the counter has.
NumberIsCounter ==
  \A t \in Thread :
    place[t] \in AddPlaces /\ registry[name[t]] \notin raced =>
      number[t] = funId[registry[name[t]]]

\* The keys of a variable's listeners have been counted, and that of the listener that
\* is being stored is none of them.
Counted ==
  \A n \in Name :
    /\ registry[n] = Null => listeners[n] = {}
    /\ registry[n] \in Type \ raced =>
         /\ \A k \in listeners[n] : k <= funId[registry[n]]
         /\ \A t \in Thread : place[t] = "store" /\ name[t] = n => number[t] \notin listeners[n]

\* The key of the listener that is stored and not yet returned.
Pending(n, k) == \E t \in Thread : place[t] = "hand" /\ name[t] = n /\ number[t] = k

\* Every other listener's key was returned once.
GivenOnce ==
  \A n \in Name : registry[n] \notin raced =>
    /\ \A k \in Key : Pending(n, k) => k \in listeners[n]
    /\ \A k \in Key : given[n][k] = IF k \in listeners[n] /\ ~Pending(n, k) THEN 1 ELSE 0

KeyInv == Locks /\ OneAdder /\ NumberIsCounter /\ Counted /\ GivenOnce

-----------------------------------------------------------------------------
LEMMA InitKeyInv == Init => KeyInv
<1> SUFFICES ASSUME Init PROVE KeyInv
  OBVIOUS
<1>1. \A t \in Thread : place[t] = "idle"
  BY DEF Init
<1>2. Locks /\ OneAdder /\ NumberIsCounter
  BY <1>1 DEF Locks, OneAdder, NumberIsCounter, Adding, LockPlaces, AddPlaces
<1>3. Counted
  BY ConfigAssumption DEF Init, Counted
<1>4. GivenOnce
  <2>1. \A n \in Name, k \in Key : ~Pending(n, k)
    BY <1>1 DEF Pending
  <2> QED
    BY <2>1 DEF Init, GivenOnce
<1> QED
  BY <1>2, <1>3, <1>4 DEF KeyInv

\* A step of a thread outside addListener() that leaves the keys alone, and that locks
\* free variables only and unlocks its own.
Aside(t) ==
  /\ UNCHANGED <<registry, listeners, funId, given, raced>>
  /\ place[t] \notin AddPlaces /\ place'[t] \notin AddPlaces
  /\ \A u \in Thread \ {t} : place'[u] = place[u] /\ name'[u] = name[u] /\ number'[u] = number[u]
  /\ \A n \in Name : varMutex[n] \notin {Null, t} => varMutex'[n] = varMutex[n]
  /\ place'[t] \in LockPlaces => varMutex'[name'[t]] = t

LEMMA LocksAside ==
  ASSUME IInv, Locks, NEW t \in Thread,
         \A u \in Thread \ {t} : place'[u] = place[u] /\ name'[u] = name[u],
         \A n \in Name : varMutex[n] \notin {Null, t} => varMutex'[n] = varMutex[n],
         place'[t] \in LockPlaces => varMutex'[name'[t]] = t
  PROVE  Locks'
<1> SUFFICES ASSUME NEW u \in Thread \ {t}, place'[u] \in LockPlaces
             PROVE  varMutex'[name'[u]] = u
  BY DEF Locks, LockPlaces, AddPlaces
<1>1. varMutex[name[u]] = u /\ name[u] \in Name
  BY DEF Locks, IInv, TypeOK
<1>2. u \notin {Null, t}
  BY ConfigAssumption
<1> QED
  BY <1>1, <1>2

LEMMA AsideKeyInv ==
  ASSUME IInv, KeyInv, NEW t \in Thread, Aside(t)
  PROVE  KeyInv'
<1> USE DEF KeyInv, Aside
<1>1. Locks'
  BY LocksAside
<1>2. \A u \in Thread : place'[u] \in AddPlaces =>
        u # t /\ place'[u] = place[u] /\ name'[u] = name[u] /\ number'[u] = number[u]
  OBVIOUS
<1>3. \A u \in Thread : place[u] \in AddPlaces =>
        u # t /\ place'[u] = place[u] /\ name'[u] = name[u] /\ number'[u] = number[u]
  OBVIOUS
<1> HIDE DEF KeyInv, Aside
<1>4. UNCHANGED <<registry, listeners, funId, given, raced>>
  BY DEF Aside
<1>5. OneAdder'
  BY <1>2, <1>4 DEF KeyInv, OneAdder, Adding, AddPlaces
<1>6. NumberIsCounter'
  BY <1>2, <1>4 DEF KeyInv, NumberIsCounter
<1>7. Counted'
  <2>1. \A u \in Thread : place'[u] = "store" =>
          place[u] = "store" /\ name'[u] = name[u] /\ number'[u] = number[u]
    BY <1>2 DEF AddPlaces
  <2> QED
    BY <2>1, <1>4 DEF KeyInv, Counted
<1>8. GivenOnce'
  <2>1. \A n \in Name, k \in Key : Pending(n, k)' <=> Pending(n, k)
    <3>1. \A u \in Thread : place'[u] = "hand" =>
            place[u] = "hand" /\ name'[u] = name[u] /\ number'[u] = number[u]
      BY <1>2 DEF AddPlaces
    <3>2. \A u \in Thread : place[u] = "hand" =>
            place'[u] = "hand" /\ name'[u] = name[u] /\ number'[u] = number[u]
      BY <1>3 DEF AddPlaces
    <3> QED
      BY <3>1, <3>2 DEF Pending
  <2> QED
    BY <2>1, <1>4 DEF KeyInv, GivenOnce
<1> QED
  BY <1>1, <1>5, <1>6, <1>7, <1>8 DEF KeyInv

-----------------------------------------------------------------------------
(* The calls that have nothing to do with keys.                            *)

LEMMA ReturnLeavesOthers ==
  ASSUME IInv, NEW t \in Thread, Leave(t) \/ Return(t)
  PROVE  /\ place'[t] \in {"idle", "find"}
         /\ \A u \in Thread \ {t} : place'[u] = place[u] /\ name'[u] = name[u] /\ number'[u] = number[u]
<1>1. place \in [Thread -> Places] /\ name \in [Thread -> Name] /\ number \in [Thread -> Nat]
  BY DEF IInv, TypeOK
<1>2. CASE Leave(t)
  BY <1>1, <1>2 DEF Leave, Goto
<1>3. CASE Goto(t, "find") /\ UNCHANGED <<name, number>>
  BY <1>1, <1>3 DEF Goto
<1> QED
  BY <1>2, <1>3 DEF Return

LEMMA CallAside ==
  ASSUME IInv, Locks, NEW t \in Thread,
         \/ \E n \in Name, T \in Type : LookupOther(t, n, T)
         \/ \E n \in Name, v \in Value : SetValue(t, n, v)
         \/ \E file \in Files : Load(t, file)
         \/ Visit(t)
  PROVE  Aside(t)
<1> DEFINE Typed == place \in [Thread -> Places] /\ name \in [Thread -> Name]
<1>1. Typed
  BY DEF IInv, TypeOK
<1>2. CASE \E n \in Name, T \in Type : LookupOther(t, n, T)
  BY <1>1, <1>2 DEF LookupOther, Aside, At, Goto, AddPlaces, LockPlaces, history
<1>3. CASE \E n \in Name, v \in Value : SetValue(t, n, v)
  BY <1>1, <1>3 DEF SetValue, Aside, At, Goto, AddPlaces, LockPlaces, history, objects
<1>4. CASE \E file \in Files : Load(t, file)
  BY <1>1, <1>4 DEF Load, Aside, At, Goto, AddPlaces, LockPlaces, history, objects
<1>5. CASE Visit(t)
  BY <1>1, <1>5 DEF Visit, Aside, At, Goto, AddPlaces, LockPlaces, history, objects
<1> QED
  BY <1>2, <1>3, <1>4, <1>5

LEMMA StepAside ==
  ASSUME IInv, Locks, NEW t \in Thread,
         \/ Describe(t) \/ Find(t) \/ Compare(t) \/ Notify(t) \/ NotifyThrow(t)
         \/ ListenerLookup(t) \/ Unlock(t) \/ Assign(t) \/ VisitNext(t)
  PROVE  Aside(t)
<1>1. /\ place \in [Thread -> Places] /\ name \in [Thread -> Name]
      /\ varMutex \in [Name -> Thread \cup {Null}]
  BY DEF IInv, TypeOK
<1>2. Null \notin Thread
  BY ConfigAssumption
<1>3. place[t] \in LockPlaces => varMutex[name[t]] = t
  BY DEF Locks
<1>4. CASE Describe(t)
  BY <1>4, ReturnLeavesOthers DEF Describe, Aside, At, AddPlaces, LockPlaces, history
<1>5. CASE Find(t)
  <2>1. CASE Leave(t)
    BY <1>5, <2>1, ReturnLeavesOthers
       DEF Find, Aside, At, AddPlaces, LockPlaces, history, objects
  <2>2. CASE ~Leave(t)
    <3>1. /\ place'[t] \in {"set", "find"}
          /\ \A u \in Thread \ {t} : place'[u] = place[u] /\ name'[u] = name[u] /\ number'[u] = number[u]
      BY <1>1, <1>5, <2>2 DEF Find, At, Goto
    <3> QED
      BY <1>5, <3>1 DEF Find, Aside, At, AddPlaces, LockPlaces, history, objects
  <2> QED
    BY <2>1, <2>2
<1>6. CASE Compare(t)
  <2>1. CASE Return(t) /\ UNCHANGED varMutex
    BY <1>6, <2>1, ReturnLeavesOthers DEF Compare, Aside, At, AddPlaces, LockPlaces
  <2>2. CASE ~(Return(t) /\ UNCHANGED varMutex)
    BY <1>1, <1>6, <2>2 DEF Compare, Aside, At, Goto, AddPlaces, LockPlaces
  <2> QED
    BY <2>1, <2>2
<1>7. CASE Notify(t)
  <2>1. place'[t] \in {"notify", "lookup", "reread"}
    BY <1>1, <1>7, ConfigAssumption DEF Notify, Goto
  <2>2. \A u \in Thread \ {t} : place'[u] = place[u]
    BY <1>1, <1>7 DEF Notify, Goto
  <2> QED
    BY <1>3, <1>7, <2>1, <2>2 DEF Notify, Aside, At, AddPlaces, LockPlaces, objects
<1>8. CASE NotifyThrow(t)
  <2>1. \A n \in Name : varMutex[n] \notin {Null, t} => varMutex'[n] = varMutex[n]
    BY <1>1, <1>3, <1>8 DEF NotifyThrow, UnlockVar, At, LockPlaces
  <2> QED
    BY <1>8, <2>1, ReturnLeavesOthers DEF NotifyThrow, Aside, At, AddPlaces, LockPlaces
<1>9. CASE ListenerLookup(t)
  BY <1>1, <1>3, <1>9
     DEF ListenerLookup, Aside, At, Goto, AddPlaces, LockPlaces, history, objects
<1>10. CASE Unlock(t)
  <2>1. \A n \in Name : varMutex[n] \notin {Null, t} => varMutex'[n] = varMutex[n]
    BY <1>1, <1>3, <1>10 DEF Unlock, UnlockVar, At, LockPlaces
  <2> QED
    BY <1>1, <1>10, <2>1 DEF Unlock, Aside, At, Goto, AddPlaces, LockPlaces, history
<1>11. CASE Assign(t)
  BY <1>11, ReturnLeavesOthers DEF Assign, Aside, At, AddPlaces, LockPlaces, history
<1>12. CASE VisitNext(t)
  <2>1. CASE Leave(t)
    BY <1>12, <2>1, ReturnLeavesOthers
       DEF VisitNext, Aside, At, AddPlaces, LockPlaces, history, objects
  <2>2. CASE ~Leave(t)
    BY <1>1, <1>12, <2>2 DEF VisitNext, Aside, At, AddPlaces, LockPlaces, history, objects
  <2> QED
    BY <2>1, <2>2
<1> QED
  BY <1>4, <1>5, <1>6, <1>7, <1>8, <1>9, <1>10, <1>11, <1>12

-----------------------------------------------------------------------------
(* The calls that create variables, and those that add and delete          *)
(* listeners.                                                              *)

LEMMA CreateKeyInv ==
  ASSUME IInv, KeyInv, NEW t \in Thread, NEW n \in Name, NEW T \in Type, Create(t, n, T)
  PROVE  KeyInv'
<1> DEFINE Typed == /\ registry \in [Name -> Type \cup {Null}]
                    /\ name \in [Thread -> Name]
                    /\ raced \subseteq Type
                    /\ Null \notin Type
<1>1. Typed
  BY ConfigAssumption DEF IInv, TypeOK
<1>2. /\ registry[n] = Null /\ registry' = [registry EXCEPT ![n] = T]
      /\ UNCHANGED <<varMutex, listeners, funId, place, name, number, given, raced>>
  BY DEF Create, calls
<1>3. \A u \in Thread : place[u] \in AddPlaces => name[u] # n
  BY <1>1, <1>2 DEF IInv, Counting, AddPlaces
<1>4. \A u \in Thread : place[u] \in AddPlaces => registry'[name[u]] = registry[name[u]]
  BY <1>1, <1>2, <1>3
<1>5. Locks'
  BY <1>2 DEF KeyInv, Locks
<1>6. OneAdder'
  BY <1>2, <1>4 DEF KeyInv, OneAdder, Adding, AddPlaces
<1>7. NumberIsCounter'
  BY <1>2, <1>4 DEF KeyInv, NumberIsCounter
<1>8. \A m \in Name \ {n} : registry'[m] = registry[m]
  BY <1>1, <1>2
<1>9. listeners[n] = {} /\ registry'[n] = T
  BY <1>1, <1>2 DEF KeyInv, Counted
<1>10. Counted'
  BY <1>2, <1>8, <1>9, <1>1 DEF KeyInv, Counted
<1>11. GivenOnce'
  <2>1. \A m \in Name, k \in Key : Pending(m, k)' <=> Pending(m, k)
    BY <1>2 DEF Pending
  <2>2. registry[n] \notin raced
    BY <1>1, <1>2
  <2> QED
    BY <1>2, <1>8, <2>1, <2>2 DEF KeyInv, GivenOnce
<1> QED
  BY <1>5, <1>6, <1>7, <1>10, <1>11 DEF KeyInv

LEMMA AddListenerKeyInv ==
  ASSUME IInv, KeyInv, NEW t \in Thread, NEW n \in Name, AddListener(t, n)
  PROVE  KeyInv'
<1> DEFINE T == registry[n]
<1>1. /\ place \in [Thread -> Places] /\ name \in [Thread -> Name] /\ number \in [Thread -> Nat]
      /\ varMutex \in [Name -> Thread \cup {Null}]
      /\ T \in Type
  BY DEF IInv, TypeOK, AddListener
<1>2. /\ place[t] = "idle" /\ varMutex[n] = Null
      /\ UNCHANGED <<registry, listeners, funId, given>>
      /\ varMutex' = [varMutex EXCEPT ![n] = t]
      /\ place'[t] = "count" /\ name'[t] = n /\ number'[t] = funId[T]
      /\ \A u \in Thread \ {t} : place'[u] = place[u] /\ name'[u] = name[u] /\ number'[u] = number[u]
  BY <1>1 DEF AddListener, At, Goto
<1>3. /\ raced \subseteq raced'
      /\ T \notin raced' => \A u \in Thread : ~Adding(u, T)
      /\ raced' \subseteq raced \cup {T}
  BY DEF AddListener
<1>4. Locks'
  <2>1. /\ \A m \in Name : varMutex[m] \notin {Null, t} => varMutex'[m] = varMutex[m]
        /\ varMutex'[name'[t]] = t
    BY <1>1, <1>2
  <2> QED
    BY <1>2, <2>1, LocksAside DEF KeyInv
<1>5. \A u \in Thread \ {t}, S \in Type : Adding(u, S)' <=> Adding(u, S)
  BY <1>2 DEF Adding
<1>6. \A S \in Type : Adding(t, S)' => S = T
  BY <1>2 DEF Adding
<1>7. OneAdder'
  <2> SUFFICES ASSUME NEW S \in Type \ raced', NEW u \in Thread, NEW w \in Thread,
                      Adding(u, S)', Adding(w, S)'
               PROVE  u = w
    BY DEF OneAdder
  <2>1. CASE S = T
    BY <1>3, <1>5, <2>1
  <2>2. CASE S # T
    BY <1>3, <1>5, <1>6, <2>2 DEF KeyInv, OneAdder
  <2> QED
    BY <2>1, <2>2
<1>8. NumberIsCounter'
  <2>1. \A u \in Thread \ {t} : place[u] \in AddPlaces /\ registry[name[u]] \notin raced' =>
          number[u] = funId[registry[name[u]]]
    BY <1>3 DEF KeyInv, NumberIsCounter
  <2> QED
    BY <1>2, <2>1 DEF NumberIsCounter
<1>9. Counted'
  <2>1. \A u \in Thread : place'[u] = "store" =>
          place[u] = "store" /\ name'[u] = name[u] /\ number'[u] = number[u]
    BY <1>2
  <2> QED
    BY <1>2, <1>3, <2>1 DEF KeyInv, Counted
<1>10. GivenOnce'
  <2>1. \A m \in Name, k \in Key : Pending(m, k)' <=> Pending(m, k)
    BY <1>2 DEF Pending
  <2> QED
    BY <1>2, <1>3, <2>1 DEF KeyInv, GivenOnce
<1> QED
  BY <1>4, <1>7, <1>8, <1>9, <1>10 DEF KeyInv

\* Where nobody but t may be adding to the variables of its type.
LEMMA Alone ==
  ASSUME IInv, KeyInv, NEW t \in Thread, place[t] \in AddPlaces,
         NEW u \in Thread \ {t}, place[u] \in AddPlaces,
         registry[name[u]] = registry[name[t]]
  PROVE  registry[name[t]] \in raced
<1>1. registry[name[t]] \in Type
  BY DEF IInv, Counting, AddPlaces
<1>2. Adding(t, registry[name[t]]) /\ Adding(u, registry[name[t]])
  BY DEF Adding, AddPlaces
<1> QED
  BY <1>1, <1>2 DEF KeyInv, OneAdder

LEMMA CountKeyInv ==
  ASSUME IInv, KeyInv, NEW t \in Thread, Count(t)
  PROVE  KeyInv'
<1> DEFINE T == registry[name[t]]
<1>1. /\ place \in [Thread -> Places] /\ number \in [Thread -> Nat]
      /\ funId \in [Type -> 0..MaxListeners] /\ registry \in [Name -> Type \cup {Null}]
      /\ name \in [Thread -> Name] /\ listeners \in [Name -> SUBSET Key] /\ raced \subseteq Type
  BY DEF IInv, TypeOK
<1>2. /\ place[t] = "count"
      /\ UNCHANGED <<registry, listeners, varMutex, name, given, raced>>
      /\ number'[t] = number[t] + 1
      /\ place'[t] = "store"
      /\ \A u \in Thread \ {t} : place'[u] = place[u] /\ number'[u] = number[u]
  BY <1>1 DEF Count, At, Goto, history, Increment
<1>3. T \in Type
  BY <1>2 DEF IInv, Counting
<1>4. /\ funId'[T] = number[t] + 1
      /\ \A S \in Type \ {T} : funId'[S] = funId[S]
  BY <1>1, <1>3 DEF Count, Increment
<1>5. place[t] \in AddPlaces
  BY <1>2 DEF AddPlaces
<1>6. T \notin raced => number[t] = funId[T]
  BY <1>5 DEF KeyInv, NumberIsCounter
<1>7. Locks'
  BY <1>2 DEF KeyInv, Locks, LockPlaces, AddPlaces
<1>8. OneAdder'
  BY <1>2 DEF KeyInv, OneAdder, Adding
<1>9. NumberIsCounter'
  <2> SUFFICES ASSUME NEW u \in Thread, place'[u] \in AddPlaces, registry[name[u]] \notin raced
               PROVE  number'[u] = funId'[registry[name[u]]]
    BY <1>2 DEF NumberIsCounter
  <2>1. CASE u = t
    BY <1>2, <1>4, <2>1
  <2>2. CASE u # t
    <3>1. place[u] \in AddPlaces
      BY <1>2, <2>2
    <3>2. registry[name[u]] \in Type \ {T}
      BY <1>5, <2>2, <3>1, Alone DEF IInv, Counting, AddPlaces
    <3> QED
      BY <1>2, <1>4, <2>2, <3>1, <3>2 DEF KeyInv, NumberIsCounter
  <2> QED
    BY <2>1, <2>2
<1>10. Counted'
  <2>1. \A n \in Name : registry[n] = Null => listeners[n] = {}
    BY DEF KeyInv, Counted
  <2> SUFFICES ASSUME NEW n \in Name, registry[n] \in Type \ raced
               PROVE  /\ \A k \in listeners[n] : k <= funId'[registry[n]]
                      /\ \A u \in Thread : place'[u] = "store" /\ name[u] = n =>
                           number'[u] \notin listeners[n]
    BY <1>2, <2>1 DEF Counted
  <2>2. /\ \A k \in listeners[n] : k <= funId[registry[n]]
        /\ \A u \in Thread : place[u] = "store" /\ name[u] = n => number[u] \notin listeners[n]
    BY DEF KeyInv, Counted
  <2>3. \A k \in listeners[n] : k \in Nat
    BY <1>1 DEF Key
  <2>4. \A k \in listeners[n] : k <= funId'[registry[n]]
    <3>1. CASE registry[n] = T
      <4>1. funId'[T] = funId[T] + 1 /\ funId[T] \in Nat
        BY <1>1, <1>3, <1>4, <1>6, <3>1
      <4> QED
        BY <2>2, <2>3, <3>1, <4>1
    <3>2. CASE registry[n] # T
      BY <1>4, <2>2, <3>2
    <3> QED
      BY <3>1, <3>2
  <2>5. ASSUME name[t] = n PROVE number'[t] \notin listeners[n]
    <3>1. number'[t] = funId[T] + 1 /\ funId[T] \in Nat
      BY <1>1, <1>2, <1>3, <1>6, <2>5
    <3> QED
      BY <2>2, <2>3, <2>5, <3>1
  <2> QED
    BY <1>2, <2>2, <2>4, <2>5
<1>11. GivenOnce'
  <2>1. \A m \in Name, k \in Key : Pending(m, k)' <=> Pending(m, k)
    BY <1>2 DEF Pending
  <2> QED
    BY <1>2, <2>1 DEF KeyInv, GivenOnce
<1> QED
  BY <1>7, <1>8, <1>9, <1>10, <1>11 DEF KeyInv

LEMMA StoreKeyInv ==
  ASSUME IInv, KeyInv, NEW t \in Thread, Store(t)
  PROVE  KeyInv'
<1> DEFINE n == name[t]
           T == registry[n]
<1>1. /\ place \in [Thread -> Places] /\ number \in [Thread -> Nat]
      /\ listeners \in [Name -> SUBSET Key] /\ given \in [Name -> [Key -> Nat]]
      /\ n \in Name
  BY DEF IInv, TypeOK
<1>2. /\ place[t] = "store"
      /\ UNCHANGED <<registry, varMutex, funId, name, number, given, raced>>
      /\ place'[t] = "hand"
      /\ \A u \in Thread \ {t} : place'[u] = place[u]
      /\ \A m \in Name \ {n} : listeners'[m] = listeners[m]
  BY <1>1 DEF Store, At, Goto
<1>3. T \in Type /\ number[t] \in Key
  BY <1>2 DEF IInv, Counting
<1>4. place[t] \in AddPlaces
  BY <1>2 DEF AddPlaces
<1>5. ASSUME T \notin raced
      PROVE  /\ number[t] = funId[T]
             /\ listeners'[n] = listeners[n] \cup {number[t]}
             /\ number[t] \notin listeners[n]
  <2>1. number[t] = funId[T]
    BY <1>4, <1>5 DEF KeyInv, NumberIsCounter
  <2>2. listeners'[n] = listeners[n] \cup {number[t]}
    BY <1>1, <2>1 DEF Store, Number
  <2>3. number[t] \notin listeners[n]
    BY <1>1, <1>2, <1>3, <1>5 DEF KeyInv, Counted
  <2> QED
    BY <2>1, <2>2, <2>3
<1>6. Locks'
  BY <1>2 DEF KeyInv, Locks, LockPlaces, AddPlaces
<1>7. OneAdder'
  BY <1>2 DEF KeyInv, OneAdder, Adding
<1>8. NumberIsCounter'
  BY <1>2 DEF KeyInv, NumberIsCounter, AddPlaces
<1>9. \A u \in Thread \ {t} : place[u] \in AddPlaces /\ T \notin raced => registry[name[u]] # T
  BY <1>4, Alone
<1>10. Counted'
  <2> SUFFICES ASSUME NEW m \in Name
               PROVE  /\ registry[m] = Null => listeners'[m] = {}
                      /\ registry[m] \in Type \ raced =>
                           /\ \A k \in listeners'[m] : k <= funId[registry[m]]
                           /\ \A u \in Thread : place'[u] = "store" /\ name[u] = m =>
                                number[u] \notin listeners'[m]
    BY <1>2 DEF Counted
  <2>1. CASE m # n
    <3>1. \A u \in Thread : place'[u] = "store" => place[u] = "store"
      BY <1>2
    <3> QED
      BY <1>2, <2>1, <3>1 DEF KeyInv, Counted
  <2>2. CASE m = n /\ T \notin raced
    <3>1. \A u \in Thread : place'[u] = "store" => name[u] # n
      BY <1>2, <1>9, <2>2 DEF AddPlaces
    <3>2. \A k \in listeners[n] : k <= funId[T]
      BY <1>1, <1>3, <2>2 DEF KeyInv, Counted
    <3>3. funId[T] <= funId[T]
      BY <1>1, <1>3, <1>5, <2>2
    <3>4. T # Null
      BY <1>3, ConfigAssumption
    <3> QED
      BY <1>5, <2>2, <3>1, <3>2, <3>3, <3>4
  <2>3. CASE m = n /\ T \in raced
    BY <1>3, <2>3, ConfigAssumption
  <2> QED
    BY <2>1, <2>2, <2>3
<1>11. GivenOnce'
  <2> SUFFICES ASSUME NEW m \in Name, registry[m] \notin raced, NEW k \in Key
               PROVE  /\ Pending(m, k)' => k \in listeners'[m]
                      /\ given[m][k] = IF k \in listeners'[m] /\ ~Pending(m, k)' THEN 1 ELSE 0
    BY <1>2 DEF GivenOnce
  <2>1. /\ Pending(m, k) => k \in listeners[m]
        /\ given[m][k] = IF k \in listeners[m] /\ ~Pending(m, k) THEN 1 ELSE 0
    BY DEF KeyInv, GivenOnce
  <2>2. CASE m # n
    <3>1. Pending(m, k)' <=> Pending(m, k)
      BY <1>2, <2>2 DEF Pending
    <3> QED
      BY <1>2, <2>1, <2>2, <3>1
  <2>3. CASE m = n
    <3>1. ~Pending(m, k)
      BY <1>2, <1>9, <2>3 DEF Pending, AddPlaces
    <3>2. Pending(m, k)' <=> k = number[t]
      BY <1>2, <1>9, <2>3 DEF Pending, AddPlaces
    <3> QED
      BY <1>5, <2>1, <2>3, <3>1, <3>2
  <2> QED
    BY <2>2, <2>3
<1> QED
  BY <1>6, <1>7, <1>8, <1>10, <1>11 DEF KeyInv

LEMMA HandKeyInv ==
  ASSUME IInv, KeyInv, NEW t \in Thread, Hand(t)
  PROVE  KeyInv'
<1> DEFINE n == name[t]
           T == registry[n]
<1>1. /\ place \in [Thread -> Places] /\ number \in [Thread -> Nat]
      /\ varMutex \in [Name -> Thread \cup {Null}] /\ given \in [Name -> [Key -> Nat]]
      /\ n \in Name
  BY DEF IInv, TypeOK
<1>2. /\ place[t] = "hand"
      /\ UNCHANGED <<registry, listeners, funId, raced>>
      /\ varMutex' = [varMutex EXCEPT ![n] = Null]
      /\ place'[t] = "idle"
      /\ \A u \in Thread \ {t} : place'[u] = place[u] /\ name'[u] = name[u] /\ number'[u] = number[u]
      /\ \A m \in Name \ {n} : given'[m] = given[m]
  <2>1. place'[t] = "idle"
    BY <1>1 DEF Hand, Leave, Goto
  <2>2. \A u \in Thread \ {t} : place'[u] = place[u] /\ name'[u] = name[u] /\ number'[u] = number[u]
    BY ReturnLeavesOthers DEF Hand
  <2>3. \A m \in Name \ {n} : given'[m] = given[m]
    BY <1>1 DEF Hand
  <2> QED
    BY <2>1, <2>2, <2>3 DEF Hand, At, UnlockVar
<1>3. T \in Type /\ number[t] \in Key
  BY <1>2 DEF IInv, Counting
<1>4. place[t] \in AddPlaces /\ place[t] \in LockPlaces
  BY <1>2 DEF AddPlaces, LockPlaces
<1>5. Locks'
  <2>1. \A m \in Name : varMutex[m] \notin {Null, t} => varMutex'[m] = varMutex[m]
    BY <1>1, <1>2, <1>4 DEF KeyInv, Locks
  <2>2. place'[t] \notin LockPlaces
    BY <1>2 DEF LockPlaces, AddPlaces
  <2> QED
    BY <1>2, <2>1, <2>2, LocksAside DEF KeyInv
<1>6. \A u \in Thread : place'[u] \in AddPlaces =>
        place[u] \in AddPlaces /\ place'[u] = place[u] /\ name'[u] = name[u] /\ number'[u] = number[u]
  BY <1>2 DEF AddPlaces
<1>7. OneAdder'
  BY <1>2, <1>6 DEF KeyInv, OneAdder, Adding, AddPlaces
<1>8. NumberIsCounter'
  BY <1>2, <1>6 DEF KeyInv, NumberIsCounter
<1>9. Counted'
  BY <1>2, <1>6 DEF KeyInv, Counted, AddPlaces
<1>10. GivenOnce'
  <2> SUFFICES ASSUME NEW m \in Name, registry[m] \notin raced, NEW k \in Key
               PROVE  /\ Pending(m, k)' => k \in listeners[m]
                      /\ given'[m][k] = IF k \in listeners[m] /\ ~Pending(m, k)' THEN 1 ELSE 0
    BY <1>2 DEF GivenOnce
  <2>1. /\ Pending(m, k) => k \in listeners[m]
        /\ given[m][k] = IF k \in listeners[m] /\ ~Pending(m, k) THEN 1 ELSE 0
    BY DEF KeyInv, GivenOnce
  <2>2. CASE m # n
    <3>1. Pending(m, k)' <=> Pending(m, k)
      BY <1>2, <2>2 DEF Pending
    <3> QED
      BY <1>2, <2>1, <2>2, <3>1
  <2>3. CASE m = n
    <3>1. \A u \in Thread \ {t} : place[u] = "hand" => name[u] # n
      BY <1>4, <2>3, Alone DEF AddPlaces
    <3>2. Pending(m, k) <=> k = number[t]
      BY <1>2, <2>3, <3>1 DEF Pending
    <3>3. ~Pending(m, k)'
      BY <1>2, <2>3, <3>1 DEF Pending
    <3>4. number[t] = funId[T]
      BY <1>4, <2>3 DEF KeyInv, NumberIsCounter
    <3>5. given' = [given EXCEPT ![n][number[t]] = @ + 1]
      BY <3>4 DEF Hand, Number
    <3>6. given'[n][k] = IF k = number[t] THEN given[n][k] + 1 ELSE given[n][k]
      BY <1>1, <1>3, <3>5
    <3> QED
      BY <2>1, <2>3, <3>2, <3>3, <3>6
  <2> QED
    BY <2>2, <2>3
<1> QED
  BY <1>5, <1>7, <1>8, <1>9, <1>10 DEF KeyInv

LEMMA DelListenersKeyInv ==
  ASSUME IInv, KeyInv, NEW t \in Thread, NEW n \in Name, NEW keys \in SUBSET Key,
         DelListeners(t, n, keys)
  PROVE  KeyInv'
<1>1. listeners \in [Name -> SUBSET Key] /\ given \in [Name -> [Key -> Nat]]
  BY DEF IInv, TypeOK
<1>2. /\ varMutex[n] = Null
      /\ UNCHANGED <<registry, varMutex, funId, place, name, number, raced>>
      /\ listeners'[n] = listeners[n] \ keys
      /\ \A k \in Key : given'[n][k] = IF k \in keys THEN 0 ELSE given[n][k]
      /\ \A m \in Name \ {n} : listeners'[m] = listeners[m] /\ given'[m] = given[m]
  BY <1>1 DEF DelListeners, calls
<1>3. \A u \in Thread : place[u] \in LockPlaces => name[u] # n
  BY <1>2, ConfigAssumption DEF KeyInv, Locks
<1>4. Locks' /\ OneAdder' /\ NumberIsCounter'
  BY <1>2 DEF KeyInv, Locks, OneAdder, Adding, NumberIsCounter
<1>5. \A m \in Name : listeners'[m] \subseteq listeners[m]
  BY <1>2
<1>6. Counted'
  BY <1>2, <1>5 DEF KeyInv, Counted
<1>7. GivenOnce'
  <2>1. \A m \in Name, k \in Key : Pending(m, k)' <=> Pending(m, k)
    BY <1>2 DEF Pending
  <2>2. \A k \in Key : ~Pending(n, k)
    BY <1>3 DEF Pending, LockPlaces, AddPlaces
  <2> QED
    BY <1>2, <2>1, <2>2 DEF KeyInv, GivenOnce
<1> QED
  BY <1>4, <1>6, <1>7 DEF KeyInv

-----------------------------------------------------------------------------
LEMMA NextKeyInv == IInv /\ KeyInv /\ [Next]_vars => KeyInv'
<1> SUFFICES ASSUME IInv, KeyInv, [Next]_vars PROVE KeyInv'
  OBVIOUS
<1>1. Locks
  BY DEF KeyInv
<1>2. CASE Next
  <2> SUFFICES ASSUME NEW t \in Thread, Step(t) \/ Call(t) PROVE KeyInv'
    BY <1>2 DEF Next
  <2>1. CASE Step(t)
    <3>1. CASE Count(t) \/ Store(t) \/ Hand(t)
      BY <3>1, CountKeyInv, StoreKeyInv, HandKeyInv
    <3>2. CASE ~(Count(t) \/ Store(t) \/ Hand(t))
      BY <1>1, <2>1, <3>2, StepAside, AsideKeyInv DEF Step
    <3> QED
      BY <3>1, <3>2
  <2>2. CASE Call(t)
    <3>1. CASE \E n \in Name, T \in Type : Create(t, n, T)
      BY <3>1, CreateKeyInv
    <3>2. CASE \E n \in Name : AddListener(t, n)
      BY <3>2, AddListenerKeyInv
    <3>3. CASE \E n \in Name, keys \in SUBSET Key : DelListeners(t, n, keys)
      BY <3>3, DelListenersKeyInv
    <3>4. CASE \/ \E n \in Name, T \in Type : LookupOther(t, n, T)
               \/ \E n \in Name, v \in Value : SetValue(t, n, v)
               \/ \E file \in Files : Load(t, file)
               \/ Visit(t)
      BY <1>1, <3>4, CallAside, AsideKeyInv
    <3> QED
      BY <2>2, <3>1, <3>2, <3>3, <3>4 DEF Call
  <2> QED
    BY <2>1, <2>2
<1>3. CASE UNCHANGED vars
  <2> USE <1>3 DEF vars, objects, calls, history
  <2>1. Locks' /\ OneAdder' /\ NumberIsCounter'
    BY DEF KeyInv, Locks, OneAdder, Adding, NumberIsCounter
  <2>2. Counted'
    BY DEF KeyInv, Counted
  <2>3. GivenOnce'
    BY DEF KeyInv, GivenOnce, Pending
  <2> QED
    BY <2>1, <2>2, <2>3 DEF KeyInv
<1> QED
  BY <1>2, <1>3

\* The keys of a variable's listeners are those that were returned and not deleted,
\* each once, where no listener is about to be returned.
LEMMA KeyInvOwnKeys == KeyInv => OwnKeys
<1> SUFFICES ASSUME KeyInv, NEW n \in Name, registry[n] \notin raced,
                    \A t \in Thread : name[t] = n => place[t] # "hand",
                    NEW k \in Key
             PROVE  given[n][k] = IF k \in listeners[n] THEN 1 ELSE 0
  BY DEF OwnKeys
<1>1. ~Pending(n, k)
  BY DEF Pending
<1> QED
  BY <1>1 DEF KeyInv, GivenOnce

\* ConfigVar::addListener() with a counter for all variables of a type: a key it returns
\* is its own listener's, and stays so until that is deleted, where no two calls used the
\* counter at a time - for any number of threads, variables and listeners.
THEOREM OwnKeysKept == Spec => []OwnKeys
<1>1. IInv /\ KeyInv /\ IInv' /\ [Next]_vars => KeyInv'
  BY NextKeyInv
<1> QED
  BY Invariance, InitKeyInv, <1>1, KeyInvOwnKeys, PTL DEF Spec

-----------------------------------------------------------------------------
(* What listeners were told: LastHeardIsValue.                             *)

TellPlaces == {"notify", "lookup", "reread"}

\* t is telling the listeners of n; it told them, and is to assign.
Telling(t, n) == place[t] \in TellPlaces /\ name[t] = n
Assigning(t, n) == place[t] = "assign" /\ name[t] = n

\* The listeners of n but for those in S were last told v.
Told(n, S, v) == \A k \in listeners[n] \ S : heard[n][k] = v

\* What the listeners of n were told is the value n has or is about to be given, by one
\* call at most.
Hears(n) ==
  /\ (\A t \in Thread : ~Telling(t, n) /\ ~Assigning(t, n)) => Told(n, {}, val[n])
  /\ \A t \in Thread : Telling(t, n) => Told(n, todo[t], value[t])
  /\ \A t \in Thread : Assigning(t, n) => Told(n, {}, value[t])
  /\ \A t, u \in Thread : Assigning(t, n) /\ (Assigning(u, n) \/ Telling(u, n)) => t = u

HeardInv == \A n \in Name \ apart : Hears(n)

LEMMA InitHeardInv == Init => HeardInv
BY DEF Init, HeardInv, Hears, Telling, Assigning, TellPlaces, Told

\* A step that has nothing to do with what the listeners of n are told.
LEMMA HearsStill ==
  ASSUME NEW n \in Name, Hears(n),
         listeners'[n] = listeners[n], heard'[n] = heard[n], val'[n] = val[n],
         \A u \in Thread :
           /\ Telling(u, n)' <=> Telling(u, n)
           /\ Assigning(u, n)' <=> Assigning(u, n)
           /\ Telling(u, n) => todo'[u] = todo[u] /\ value'[u] = value[u]
           /\ Assigning(u, n) => value'[u] = value[u]
  PROVE  Hears(n)'
<1>1. (\A t \in Thread : ~Telling(t, n)' /\ ~Assigning(t, n)') => Told(n, {}, val[n])'
  BY DEF Hears, Told
<1>2. ASSUME NEW t \in Thread, Telling(t, n)' PROVE Told(n, todo[t], value[t])'
  BY <1>2 DEF Hears, Told
<1>3. ASSUME NEW t \in Thread, Assigning(t, n)' PROVE Told(n, {}, value[t])'
  BY <1>3 DEF Hears, Told
<1>4. \A t, u \in Thread :
        Assigning(t, n)' /\ (Assigning(u, n)' \/ Telling(u, n)') => t = u
  BY DEF Hears
<1> QED
  BY <1>1, <1>2, <1>3, <1>4 DEF Hears

\* The others stand where they stood, in the calls they were in.
Others(t) ==
  \A u \in Thread \ {t} :
    place'[u] = place[u] /\ name'[u] = name[u] /\ value'[u] = value[u] /\ todo'[u] = todo[u]

\* Thread t neither tells nor assigns the variable n, before the step or after it.
Stays(t, n) ==
  /\ ~Telling(t, n) /\ ~Telling(t, n)'
  /\ ~Assigning(t, n) /\ ~Assigning(t, n)'

LEMMA HearsOthers ==
  ASSUME NEW t \in Thread, NEW n \in Name, Hears(n), Others(t), Stays(t, n),
         listeners'[n] = listeners[n], heard'[n] = heard[n], val'[n] = val[n]
  PROVE  Hears(n)'
<1>1. \A u \in Thread :
        /\ Telling(u, n)' <=> Telling(u, n)
        /\ Assigning(u, n)' <=> Assigning(u, n)
        /\ Telling(u, n) => todo'[u] = todo[u] /\ value'[u] = value[u]
        /\ Assigning(u, n) => value'[u] = value[u]
  BY DEF Others, Stays, Telling, Assigning
<1> QED
  BY <1>1, HearsStill

\* A step of a thread that tells nobody.
LEMMA QuietHeardInv ==
  ASSUME HeardInv, NEW t \in Thread, Others(t),
         UNCHANGED <<val, listeners, heard, apart>>,
         place[t] \notin TellPlaces \cup {"assign"},
         place'[t] \notin TellPlaces \cup {"assign"}
  PROVE  HeardInv'
<1> SUFFICES ASSUME NEW n \in Name \ apart PROVE Hears(n)'
  BY DEF HeardInv
<1>1. Hears(n)
  BY DEF HeardInv
<1>2. Stays(t, n)
  BY DEF Stays, Telling, Assigning
<1> QED
  BY <1>1, <1>2, HearsOthers

LEMMA LeaveKeepsOthers ==
  ASSUME IInv, NEW t \in Thread, Leave(t) \/ Return(t),
         \A u \in Thread \ {t} : todo'[u] = todo[u]
  PROVE  Others(t) /\ place'[t] \in {"idle", "find"}
<1>1. value \in [Thread -> Value]
  BY DEF IInv, TypeOK
<1>2. \A u \in Thread \ {t} : value'[u] = value[u]
  BY <1>1 DEF Leave, Return
<1> QED
  BY <1>2, ReturnLeavesOthers DEF Others

LEMMA CallHeardInv ==
  ASSUME IInv, HeardInv, NEW t \in Thread,
         \/ \E n \in Name, T \in Type : Create(t, n, T) \/ LookupOther(t, n, T)
         \/ \E n \in Name, v \in Value : SetValue(t, n, v)
         \/ \E file \in Files : Load(t, file)
         \/ \E n \in Name : AddListener(t, n)
         \/ Visit(t)
  PROVE  HeardInv'
<1>1. /\ place \in [Thread -> Places] /\ name \in [Thread -> Name]
      /\ value \in [Thread -> Value] /\ todo \in [Thread -> SUBSET Key]
  BY DEF IInv, TypeOK
<1> USE <1>1 DEF At, Goto, Others, TellPlaces, objects, history
<1>2. ASSUME NEW n \in Name, NEW T \in Type, Create(t, n, T)
      PROVE  HeardInv'
  BY <1>2, QuietHeardInv DEF Create, calls
<1>3. ASSUME NEW n \in Name, NEW T \in Type, LookupOther(t, n, T)
      PROVE  HeardInv'
  BY <1>3, QuietHeardInv DEF LookupOther
<1>4. ASSUME NEW n \in Name, NEW v \in Value, SetValue(t, n, v)
      PROVE  HeardInv'
  BY <1>4, QuietHeardInv DEF SetValue
<1>5. ASSUME NEW file \in Files, Load(t, file)
      PROVE  HeardInv'
  BY <1>5, QuietHeardInv DEF Load
<1>6. ASSUME NEW n \in Name, AddListener(t, n)
      PROVE  HeardInv'
  BY <1>6, QuietHeardInv DEF AddListener
<1>7. CASE Visit(t)
  BY <1>7, QuietHeardInv DEF Visit
<1> QED
  BY <1>2, <1>3, <1>4, <1>5, <1>6, <1>7

LEMMA AsideHeardInv ==
  ASSUME IInv, HeardInv, NEW t \in Thread,
         Describe(t) \/ Find(t) \/ Count(t) \/ Hand(t) \/ VisitNext(t)
  PROVE  HeardInv'
<1>1. /\ place \in [Thread -> Places] /\ name \in [Thread -> Name]
      /\ value \in [Thread -> Value] /\ todo \in [Thread -> SUBSET Key]
  BY DEF IInv, TypeOK
<1> USE <1>1
<1>2. CASE Describe(t)
  BY <1>2, LeaveKeepsOthers, QuietHeardInv DEF Describe, At, TellPlaces, history
<1>3. CASE Find(t)
  <2>1. UNCHANGED <<val, listeners, heard, apart, todo>> /\ place[t] = "find"
    BY <1>3 DEF Find, At, objects, history
  <2>2. CASE Leave(t)
    BY <2>1, <2>2, LeaveKeepsOthers, QuietHeardInv DEF TellPlaces
  <2>3. CASE ~Leave(t)
    <3>1. Others(t) /\ place'[t] \in {"set", "find"}
      BY <1>3, <2>1, <2>3 DEF Find, At, Goto, Others
    <3> QED
      BY <2>1, <3>1, QuietHeardInv DEF TellPlaces
  <2> QED
    BY <2>2, <2>3
<1>4. CASE Count(t)
  BY <1>4, QuietHeardInv DEF Count, At, Goto, Others, TellPlaces, history
<1>5. CASE Hand(t)
  BY <1>5, LeaveKeepsOthers, QuietHeardInv DEF Hand, At, TellPlaces
<1>6. CASE VisitNext(t)
  <2>1. UNCHANGED <<val, listeners, heard, apart, todo>> /\ place[t] = "visit"
    BY <1>6 DEF VisitNext, At, objects, history
  <2>2. CASE Leave(t)
    BY <2>1, <2>2, LeaveKeepsOthers, QuietHeardInv DEF TellPlaces
  <2>3. CASE ~Leave(t)
    <3>1. Others(t) /\ place'[t] = "visit"
      BY <1>6, <2>1, <2>3 DEF VisitNext, At, Others
    <3> QED
      BY <2>1, <3>1, QuietHeardInv DEF TellPlaces
  <2> QED
    BY <2>2, <2>3
<1> QED
  BY <1>2, <1>3, <1>4, <1>5, <1>6

\* setValue() finds another value: nobody is telling the listeners, and if a call told
\* them and has not assigned, the variable is apart from now on.
LEMMA CompareHeardInv ==
  ASSUME IInv, Locks, HeardInv, NEW t \in Thread, Compare(t)
  PROVE  HeardInv'
<1>1. /\ place \in [Thread -> Places] /\ name \in [Thread -> Name]
      /\ value \in [Thread -> Value] /\ todo \in [Thread -> SUBSET Key]
  BY DEF IInv, TypeOK
<1>2. UNCHANGED <<val, listeners, heard>> /\ At(t, "set") /\ varMutex[name[t]] = Null
  BY DEF Compare
<1>3. CASE value[t] = val[name[t]]
  BY <1>2, <1>3, LeaveKeepsOthers, QuietHeardInv DEF Compare, At, TellPlaces
<1>4. CASE value[t] # val[name[t]]
  <2>1. /\ todo' = [todo EXCEPT ![t] = listeners[name[t]]]
        /\ place' = [place EXCEPT ![t] = "notify"]
        /\ UNCHANGED <<name, value>>
        /\ apart' = IF Between(name[t]) THEN apart \cup {name[t]} ELSE apart
    BY <1>4 DEF Compare, Goto
  <2>2. Others(t)
    BY <1>1, <2>1 DEF Others
  <2> SUFFICES ASSUME NEW n \in Name \ apart' PROVE Hears(n)'
    BY DEF HeardInv
  <2>3. Hears(n)
    BY <2>1 DEF HeardInv
  <2>4. CASE n # name[t]
    <3>1. Stays(t, n)
      BY <2>1, <2>4 DEF Stays, Telling, Assigning
    <3> QED
      BY <1>2, <2>2, <2>3, <3>1, HearsOthers
  <2>5. CASE n = name[t]
    <3>1. \A u \in Thread : ~Assigning(u, n)
      BY <1>2, <2>1, <2>5 DEF Between, Assigning, At
    <3>2. \A u \in Thread : ~Telling(u, n)
      BY <1>2, <2>5, ConfigAssumption DEF Locks, Telling, TellPlaces, LockPlaces
    <3>3. \A u \in Thread : ~Assigning(u, n)' /\ (Telling(u, n)' => u = t)
      BY <1>1, <2>1, <2>2, <3>1, <3>2 DEF Others, Assigning, Telling
    <3>4. Telling(t, n)' /\ todo'[t] = listeners'[n]
      BY <1>1, <1>2, <2>1, <2>5 DEF Telling, TellPlaces
    <3>5. Told(n, todo[t], value[t])'
      BY <3>4 DEF Told
    <3> QED
      BY <3>3, <3>4, <3>5 DEF Hears
  <2> QED
    BY <2>4, <2>5
<1> QED
  BY <1>3, <1>4

LEMMA NotifyHeardInv ==
  ASSUME IInv, Locks, HeardInv, NEW t \in Thread, Notify(t)
  PROVE  HeardInv'
<1>1. /\ place \in [Thread -> Places] /\ name \in [Thread -> Name]
      /\ value \in [Thread -> Value] /\ todo \in [Thread -> SUBSET Key]
      /\ heard \in [Name -> [Key -> Value]] /\ listeners \in [Name -> SUBSET Key]
  BY DEF IInv, TypeOK
<1> DEFINE m == Min(todo[t])
<1>2. /\ UNCHANGED <<val, listeners, name, value, apart>>
      /\ place[t] = "notify"
      /\ heard' = [heard EXCEPT ![name[t]][m] = value[t]]
      /\ todo' = [todo EXCEPT ![t] = todo[t] \ {m}]
      /\ place'[t] \in TellPlaces
      /\ \A u \in Thread \ {t} : place'[u] = place[u]
  BY <1>1, ConfigAssumption DEF Notify, At, Goto, StillToTell, TellPlaces, objects
<1>3. Others(t)
  BY <1>1, <1>2 DEF Others
<1> SUFFICES ASSUME NEW n \in Name \ apart PROVE Hears(n)'
  BY <1>2 DEF HeardInv
<1>4. Hears(n)
  BY DEF HeardInv
<1>5. CASE n # name[t]
  <2>1. Stays(t, n) /\ heard'[n] = heard[n]
    BY <1>1, <1>2, <1>5 DEF Stays, Telling, Assigning
  <2> QED
    BY <1>2, <1>3, <1>4, <2>1, HearsOthers
<1>6. CASE n = name[t]
  <2>1. Telling(t, n) /\ Telling(t, n)'
    BY <1>2, <1>6 DEF Telling, TellPlaces
  <2>2. \A u \in Thread : ~Assigning(u, n)
    BY <1>2, <1>4, <2>1 DEF Hears, Assigning
  <2>3. \A u \in Thread : ~Assigning(u, n)'
    BY <1>2, <1>3, <2>2 DEF Others, Assigning, TellPlaces
  <2>4. \A u \in Thread : Telling(u, n)' => u = t
    <3> SUFFICES ASSUME NEW u \in Thread, Telling(u, n)', u # t PROVE FALSE
      OBVIOUS
    <3>1. Telling(u, n)
      BY <1>2, <1>3 DEF Others, Telling
    <3> QED
      BY <2>1, <3>1 DEF Locks, Telling, TellPlaces, LockPlaces
  <2>5. ASSUME NEW k \in listeners[n] \ todo'[t] PROVE heard'[n][k] = value[t]
    <3>1. k \in Key
      BY <1>1
    <3>2. CASE k = m
      BY <1>1, <1>2, <1>6, <3>1, <3>2
    <3>3. CASE k # m
      <4>1. k \notin todo[t]
        BY <1>1, <1>2, <3>3
      <4>2. heard[n][k] = value[t]
        BY <1>4, <2>1, <4>1 DEF Hears, Told
      <4>3. heard'[n] = [heard[n] EXCEPT ![m] = value[t]]
        BY <1>1, <1>2, <1>6
      <4> QED
        BY <1>1, <3>1, <3>3, <4>2, <4>3
    <3> QED
      BY <3>2, <3>3
  <2> QED
    BY <1>2, <2>1, <2>3, <2>4, <2>5 DEF Hears, Told
<1> QED
  BY <1>5, <1>6


LEMMA NotifyThrowHeardInv ==
  ASSUME IInv, HeardInv, NEW t \in Thread, NotifyThrow(t)
  PROVE  HeardInv'
<1>1. /\ name \in [Thread -> Name] /\ todo \in [Thread -> SUBSET Key]
      /\ place \in [Thread -> Places]
  BY DEF IInv, TypeOK
<1>2. /\ UNCHANGED <<val, listeners, heard>> /\ apart' = apart \cup {name[t]}
      /\ place[t] = "notify"
  BY DEF NotifyThrow, At
<1>3. Others(t) /\ place'[t] \in {"idle", "find"}
  BY <1>1, LeaveKeepsOthers DEF NotifyThrow
<1> SUFFICES ASSUME NEW n \in Name \ apart' PROVE Hears(n)'
  BY DEF HeardInv
<1>4. Hears(n)
  BY <1>2 DEF HeardInv
<1>5. Stays(t, n)
  BY <1>2, <1>3 DEF Stays, Telling, Assigning, TellPlaces
<1> QED
  BY <1>2, <1>3, <1>4, <1>5, HearsOthers

LEMMA ListenerLookupHeardInv ==
  ASSUME IInv, HeardInv, NEW t \in Thread, ListenerLookup(t)
  PROVE  HeardInv'
<1>1. place \in [Thread -> Places]
  BY DEF IInv, TypeOK
<1>2. /\ UNCHANGED <<val, listeners, heard, apart, name, value, todo>>
      /\ place[t] = "lookup" /\ place' = [place EXCEPT ![t] = "notify"]
  BY DEF ListenerLookup, At, Goto, objects, history
<1> SUFFICES ASSUME NEW n \in Name \ apart PROVE Hears(n)'
  BY <1>2 DEF HeardInv
<1>3. Hears(n)
  BY DEF HeardInv
<1>4. \A u \in Thread : (Telling(u, n)' <=> Telling(u, n)) /\ (Assigning(u, n)' <=> Assigning(u, n))
  BY <1>1, <1>2 DEF Telling, Assigning, TellPlaces
<1> QED
  BY <1>2, <1>3, <1>4, HearsStill

\* All are told: the call is the only one that may assign.
LEMMA UnlockHeardInv ==
  ASSUME IInv, Locks, HeardInv, NEW t \in Thread, Unlock(t)
  PROVE  HeardInv'
<1>1. place \in [Thread -> Places]
  BY DEF IInv, TypeOK
<1>2. /\ UNCHANGED <<val, listeners, heard, apart, name, value, todo>>
      /\ place[t] = "notify" /\ todo[t] = {}
      /\ place' = [place EXCEPT ![t] = "assign"]
  BY DEF Unlock, At, Goto, history
<1>3. Others(t)
  BY <1>1, <1>2 DEF Others
<1> SUFFICES ASSUME NEW n \in Name \ apart PROVE Hears(n)'
  BY <1>2 DEF HeardInv
<1>4. Hears(n)
  BY DEF HeardInv
<1>5. CASE n # name[t]
  <2>1. Stays(t, n)
    BY <1>2, <1>5 DEF Stays, Telling, Assigning
  <2> QED
    BY <1>2, <1>3, <1>4, <2>1, HearsOthers
<1>6. CASE n = name[t]
  <2>1. Telling(t, n)
    BY <1>2, <1>6 DEF Telling, TellPlaces
  <2>2. \A u \in Thread : Telling(u, n) => u = t
    BY <2>1 DEF Locks, Telling, TellPlaces, LockPlaces
  <2>3. \A u \in Thread : ~Assigning(u, n)
    BY <1>2, <1>4, <2>1 DEF Hears, Assigning
  <2>4. \A u \in Thread : ~Telling(u, n)' /\ (Assigning(u, n)' => u = t)
    BY <1>1, <1>2, <2>2, <2>3 DEF Telling, Assigning, TellPlaces
  <2>5. Assigning(t, n)'
    BY <1>1, <1>2, <1>6 DEF Assigning
  <2>6. Told(n, {}, value[t])'
    BY <1>2, <1>4, <2>1 DEF Hears, Told
  <2> QED
    BY <2>4, <2>5, <2>6 DEF Hears
<1> QED
  BY <1>5, <1>6

LEMMA AssignHeardInv ==
  ASSUME IInv, HeardInv, NEW t \in Thread, Assign(t)
  PROVE  HeardInv'
<1>1. /\ place \in [Thread -> Places] /\ name \in [Thread -> Name]
      /\ val \in [Name -> Value]
  BY DEF IInv, TypeOK
<1>2. /\ UNCHANGED <<listeners, heard, apart, todo>> /\ place[t] = "assign"
      /\ val' = [val EXCEPT ![name[t]] = value[t]]
  BY DEF Assign, At, history
<1>3. Others(t) /\ place'[t] \in {"idle", "find"}
  BY <1>2, LeaveKeepsOthers DEF Assign
<1> SUFFICES ASSUME NEW n \in Name \ apart PROVE Hears(n)'
  BY <1>2 DEF HeardInv
<1>4. Hears(n)
  BY DEF HeardInv
<1>5. CASE n # name[t]
  <2>1. Stays(t, n)
    BY <1>2, <1>3, <1>5 DEF Stays, Telling, Assigning, TellPlaces
  <2>2. val'[n] = val[n]
    BY <1>1, <1>2, <1>5
  <2> QED
    BY <1>2, <1>3, <1>4, <2>1, <2>2, HearsOthers
<1>6. CASE n = name[t]
  <2>1. Assigning(t, n)
    BY <1>2, <1>6 DEF Assigning
  <2>2. \A u \in Thread : Assigning(u, n) \/ Telling(u, n) => u = t
    BY <1>4, <2>1 DEF Hears
  <2>3. \A u \in Thread : ~Assigning(u, n)' /\ ~Telling(u, n)'
    BY <1>3, <2>2 DEF Others, Assigning, Telling, TellPlaces
  <2>4. Told(n, {}, value[t])
    BY <1>4, <2>1 DEF Hears
  <2>5. val'[n] = value[t]
    BY <1>1, <1>2, <1>6
  <2>6. Told(n, {}, val[n])'
    BY <1>2, <2>4, <2>5 DEF Told
  <2> QED
    BY <2>3, <2>6 DEF Hears
<1> QED
  BY <1>5, <1>6

\* addListener(): the new listener starts from the value it finds, while nobody tells; if
\* a call is about to assign another, the variable is apart from now on.
LEMMA StoreHeardInv ==
  ASSUME IInv, Locks, HeardInv, TypeOK', NEW t \in Thread, Store(t)
  PROVE  HeardInv'
<1>1. /\ place \in [Thread -> Places] /\ name \in [Thread -> Name]
      /\ heard \in [Name -> [Key -> Value]] /\ listeners \in [Name -> SUBSET Key]
      /\ listeners' \in [Name -> SUBSET Key]
  BY DEF IInv, TypeOK
<1>2. PICK key \in Number(t) :
        /\ listeners' = [listeners EXCEPT ![name[t]] = @ \cup {key}]
        /\ heard' = [heard EXCEPT ![name[t]][key] = val[name[t]]]
  BY DEF Store
<1>3. /\ UNCHANGED <<val, name, value, todo>> /\ At(t, "store")
      /\ place' = [place EXCEPT ![t] = "hand"]
      /\ apart' = IF Between(name[t]) THEN apart \cup {name[t]} ELSE apart
  BY DEF Store, Goto
<1>4. Others(t)
  BY <1>1, <1>3 DEF Others
<1> SUFFICES ASSUME NEW n \in Name \ apart' PROVE Hears(n)'
  BY DEF HeardInv
<1>5. Hears(n)
  BY <1>3 DEF HeardInv
<1>6. Stays(t, n)
  BY <1>1, <1>3 DEF Stays, Telling, Assigning, TellPlaces, At
<1>7. CASE n # name[t]
  <2>1. listeners'[n] = listeners[n] /\ heard'[n] = heard[n]
    BY <1>1, <1>2, <1>7
  <2> QED
    BY <1>3, <1>4, <1>5, <1>6, <2>1, HearsOthers
<1>8. CASE n = name[t]
  <2>1. \A u \in Thread : ~Assigning(u, n)
    BY <1>3, <1>8 DEF Between, Assigning, At
  <2>2. \A u \in Thread : ~Telling(u, n)
    <3>1. varMutex[n] = t
      BY <1>3, <1>8 DEF Locks, LockPlaces, AddPlaces, At
    <3> QED
      BY <1>6, <3>1 DEF Locks, LockPlaces, Telling, TellPlaces, Stays
  <2>3. \A u \in Thread : ~Assigning(u, n)' /\ ~Telling(u, n)'
    BY <1>4, <1>6, <2>1, <2>2 DEF Others, Stays, Assigning, Telling
  <2>4. Told(n, {}, val[n])
    BY <1>5, <2>1, <2>2 DEF Hears
  <2>5. ASSUME NEW k \in listeners'[n] PROVE heard'[n][k] = val[n]
    <3>1. k \in Key /\ k \in listeners[n] \cup {key}
      BY <1>1, <1>2, <1>8
    <3>2. heard'[n] = [heard[n] EXCEPT ![key] = val[n]] /\ heard[n] \in [Key -> Value]
      BY <1>1, <1>2, <1>8
    <3> QED
      BY <2>4, <3>1, <3>2 DEF Told
  <2>6. Told(n, {}, val[n])'
    BY <1>3, <2>5 DEF Told
  <2> QED
    BY <2>3, <2>6 DEF Hears
<1> QED
  BY <1>7, <1>8

LEMMA DelListenersHeardInv ==
  ASSUME IInv, Locks, HeardInv, NEW t \in Thread, NEW n \in Name, NEW keys \in SUBSET Key,
         DelListeners(t, n, keys)
  PROVE  HeardInv'
<1>1. heard \in [Name -> [Key -> Value]] /\ listeners \in [Name -> SUBSET Key]
  BY DEF IInv, TypeOK
<1>2. /\ UNCHANGED <<place, name, value, todo, val, apart>> /\ varMutex[n] = Null
      /\ listeners'[n] = listeners[n] \ keys
      /\ \A k \in Key \ keys : heard'[n][k] = heard[n][k]
      /\ \A m \in Name \ {n} : listeners'[m] = listeners[m] /\ heard'[m] = heard[m]
  BY <1>1 DEF DelListeners, calls
<1> SUFFICES ASSUME NEW m \in Name \ apart PROVE Hears(m)'
  BY <1>2 DEF HeardInv
<1>3. Hears(m)
  BY DEF HeardInv
<1>4. \A u \in Thread : (Telling(u, m)' <=> Telling(u, m)) /\ (Assigning(u, m)' <=> Assigning(u, m))
  BY <1>2 DEF Telling, Assigning
<1>5. CASE m # n
  BY <1>2, <1>3, <1>4, <1>5, HearsStill
<1>6. CASE m = n
  <2>1. \A u \in Thread : ~Telling(u, m)
    BY <1>2, <1>6, ConfigAssumption DEF Locks, LockPlaces, Telling, TellPlaces
  <2>2. \A v : Told(m, {}, v) => \A k \in listeners'[m] : heard'[m][k] = v
    BY <1>1, <1>2, <1>6 DEF Told
  <2>3. (\A u \in Thread : ~Telling(u, m)' /\ ~Assigning(u, m)') => Told(m, {}, val[m])'
    BY <1>2, <1>3, <1>4, <2>2 DEF Hears, Told
  <2>4. ASSUME NEW u \in Thread, Assigning(u, m)' PROVE Told(m, {}, value[u])'
    <3>1. Told(m, {}, value[u])
      BY <1>3, <1>4, <2>4 DEF Hears
    <3> QED
      BY <1>2, <2>2, <3>1 DEF Told
  <2>5. \A u, w \in Thread : Assigning(u, m)' /\ (Assigning(w, m)' \/ Telling(w, m)') => u = w
    BY <1>3, <1>4 DEF Hears
  <2> QED
    BY <1>4, <2>1, <2>3, <2>4, <2>5 DEF Hears
<1> QED
  BY <1>5, <1>6

LEMMA NextHeardInv == IInv /\ Locks /\ HeardInv /\ TypeOK' /\ [Next]_vars => HeardInv'
<1> SUFFICES ASSUME IInv, Locks, HeardInv, TypeOK', [Next]_vars PROVE HeardInv'
  OBVIOUS
<1>1. CASE Next
  <2> SUFFICES ASSUME NEW t \in Thread, Step(t) \/ Call(t) PROVE HeardInv'
    BY <1>1 DEF Next
  <2>1. CASE Step(t)
    BY <2>1, AsideHeardInv, CompareHeardInv, NotifyHeardInv, NotifyThrowHeardInv,
       ListenerLookupHeardInv, UnlockHeardInv, AssignHeardInv, StoreHeardInv DEF Step
  <2>2. CASE Call(t)
    BY <2>2, CallHeardInv, DelListenersHeardInv DEF Call
  <2> QED
    BY <2>1, <2>2
<1>2. CASE UNCHANGED vars
  BY <1>2 DEF vars, objects, calls, history, HeardInv, Hears, Telling, Assigning, Told
<1> QED
  BY <1>1, <1>2

LEMMA HeardInvLastHeard == HeardInv => LastHeardIsValue
BY DEF HeardInv, Hears, Telling, Assigning, TellPlaces, Told, LastHeardIsValue

\* ConfigVar::setValue() tells the listeners under the mutex and assigns under it again:
\* where no other call came between the two and no listener threw, each listener was last
\* told the value the variable has - for any number of threads, variables and listeners,
\* who add, delete, load and look up meanwhile.
THEOREM ListenersKnowTheValue == Spec => []LastHeardIsValue
<1>1. IInv /\ KeyInv /\ IInv' /\ [Next]_vars => KeyInv'
  BY NextKeyInv
<1>2. IInv => TypeOK
  BY DEF IInv
<1>3. KeyInv => Locks
  BY DEF KeyInv
<1> QED
  BY Invariance, InitKeyInv, InitHeardInv, <1>1, <1>2, <1>3, NextHeardInv, HeardInvLastHeard,
     PTL DEF Spec
=============================================================================
