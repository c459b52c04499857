-------------------------- MODULE ConditionProofs --------------------------
(***************************************************************************)
(* Theorems about Condition, for every finite set of waiters and every set *)
(* of notifiers.                                                           *)
(***************************************************************************)
EXTENDS Condition, FiniteSetTheorems, TLAPS

Threads == Waiters \cup Notifiers

Places == {"out", "locked", "unlock", "asleep", "leave", "reset", "relock", "signal", "broadcast"}

\* The inductive invariant: the count is that of the waiters it stands for, and a signal()
\* that has counted anyone is on its way or in the event.
IInv ==
    /\ TypeOK
    /\ pc \in [Threads -> Places]
    /\ waitersCount = Cardinality(Counted)
    /\ asked # {} => signalEvent \/ \E n \in Notifiers : pc[n] = "signal"
    /\ owed # {} => broadcastEvent \/ \E n \in Notifiers : pc[n] = "broadcast"
    /\ \A w \in Waiters : pc[w] = "reset" => inside[w] = {}

-----------------------------------------------------------------------------
(* The waiters that are counted *)

LEMMA WaitersFinite ==
    ASSUME NEW S \in SUBSET Waiters
    PROVE  IsFiniteSet(S) /\ Cardinality(S) \in 0..Cardinality(Waiters)
<1>1. IsFiniteSet(S) /\ Cardinality(S) <= Cardinality(Waiters)
  BY ConditionAssumption, FS_Subset
<1> QED BY <1>1, ConditionAssumption, FS_CardinalityType

\* One is added or taken off.
LEMMA CountedAfter ==
    ASSUME NEW w \in Waiters, pc \in [Threads -> Places], NEW place \in Places,
           pc' = [pc EXCEPT ![w] = place]
    PROVE  LET counted(p) == p \in {"unlock", "asleep", "leave"}
           IN  /\ ~counted(pc[w]) /\ counted(place) =>
                      Cardinality(Counted') = Cardinality(Counted) + 1
               /\ counted(pc[w]) /\ ~counted(place) =>
                      Cardinality(Counted') = Cardinality(Counted) - 1
               /\ (counted(pc[w]) <=> counted(place)) => Counted' = Counted
<1> DEFINE counted(p) == p \in {"unlock", "asleep", "leave"}
<1>1. /\ ~counted(pc[w]) /\ counted(place) => w \notin Counted /\ Counted' = Counted \cup {w}
      /\ counted(pc[w]) /\ ~counted(place) => w \in Counted /\ Counted' = Counted \ {w}
      /\ (counted(pc[w]) <=> counted(place)) => Counted' = Counted
  BY DEF Counted, Threads, Places
<1>2. IsFiniteSet(Counted) /\ Cardinality(Counted) \in Int
  BY WaitersFinite DEF Counted
<1> QED BY <1>1, <1>2, FS_AddElement, FS_RemoveElement

-----------------------------------------------------------------------------

\* Which of its steps a thread takes
LEMMA Steps ==
    ASSUME [Next]_vars
    PROVE  \/ \E a \in Threads : LockMutex(a) \/ UnlockMutex(a)
           \/ \E w \in Waiters :
                 \/ CallWait(w) \/ ReleaseMutex(w) \/ WakesBySignal(w) \/ WakesByBroadcast(w)
                 \/ TimesOut(w) \/ Leave(w) \/ Reset(w) \/ Relock(w)
           \/ \E n \in Notifiers :
                 \/ CallSignal(n) \/ CallBroadcast(n) \/ SetSignal(n) \/ SetBroadcast(n)
           \/ UNCHANGED vars
BY DEF Next, Wakened, Goes, Sets, Threads

\* The place of a thread is one of its own.
LEMMA PlaceStep ==
    IInv /\ [Next]_vars =>
        /\ pc' \in [Threads -> Places]
        /\ \A w \in Waiters : pc'[w] \in {"out", "locked", "unlock", "asleep", "leave", "reset",
                                          "relock"}
        /\ \A n \in Notifiers : pc'[n] \in {"out", "signal", "broadcast"}
<1> SUFFICES ASSUME IInv, [Next]_vars
             PROVE  /\ pc' \in [Threads -> Places]
                    /\ \A w \in Waiters : pc'[w] \in {"out", "locked", "unlock", "asleep", "leave",
                                                      "reset", "relock"}
                    /\ \A n \in Notifiers : pc'[n] \in {"out", "signal", "broadcast"}
  OBVIOUS
<1> USE ConditionAssumption DEF IInv, TypeOK, Threads, Places, Goto
<1>1. CASE \E a \in Threads : LockMutex(a) \/ UnlockMutex(a)
  BY <1>1 DEF LockMutex, UnlockMutex
<1>2. CASE \E w \in Waiters :
                 \/ CallWait(w) \/ ReleaseMutex(w) \/ WakesBySignal(w) \/ WakesByBroadcast(w)
                 \/ TimesOut(w) \/ Leave(w) \/ Reset(w) \/ Relock(w)
  BY <1>2 DEF CallWait, ReleaseMutex, WakesBySignal, WakesByBroadcast, TimesOut, Wakes, Leave,
     Reset, Relock
<1>3. CASE \E n \in Notifiers :
                 \/ CallSignal(n) \/ CallBroadcast(n) \/ SetSignal(n) \/ SetBroadcast(n)
  BY <1>3 DEF CallSignal, CallBroadcast, SetSignal, SetBroadcast
<1>4. CASE UNCHANGED vars
  BY <1>4 DEF vars
<1> QED BY <1>1, <1>2, <1>3, <1>4, Steps

\* Who comes is added to the count, who leaves is taken off it.
LEMMA CountStep == IInv /\ [Next]_vars => waitersCount' = Cardinality(Counted')
<1> SUFFICES ASSUME IInv, [Next]_vars PROVE waitersCount' = Cardinality(Counted')
  OBVIOUS
<1>0. TypeOK /\ pc \in [Threads -> Places] /\ waitersCount = Cardinality(Counted)
  BY DEF IInv
<1> USE <1>0, ConditionAssumption DEF Goto, Places
<1>1. CASE \E w \in Waiters : CallWait(w) \/ Leave(w)
  <2>1. PICK w \in Waiters : CallWait(w) \/ Leave(w)
    BY <1>1
  <2>2. CASE CallWait(w)
    BY <2>2, CountedAfter DEF CallWait
  <2>3. CASE Leave(w)
    <3>1. /\ pc[w] = "leave" /\ waitersCount' = waitersCount - 1
          /\ pc' = [pc EXCEPT ![w] = "reset"] \/ pc' = [pc EXCEPT ![w] = "relock"]
      BY <2>3 DEF Leave
    <3> QED BY <3>1, CountedAfter
  <2> QED BY <2>1, <2>2, <2>3
<1>2. CASE \E w \in Waiters :
              \/ ReleaseMutex(w) \/ WakesBySignal(w) \/ WakesByBroadcast(w) \/ TimesOut(w)
              \/ Reset(w) \/ Relock(w)
  <2>1. PICK w \in Waiters :
              \/ ReleaseMutex(w) \/ WakesBySignal(w) \/ WakesByBroadcast(w) \/ TimesOut(w)
              \/ Reset(w) \/ Relock(w)
    BY <1>2
  <2>2. \/ pc[w] = "unlock" /\ pc' = [pc EXCEPT ![w] = "asleep"]
        \/ pc[w] = "asleep" /\ pc' = [pc EXCEPT ![w] = "leave"]
        \/ pc[w] = "reset" /\ pc' = [pc EXCEPT ![w] = "relock"]
        \/ pc[w] = "relock" /\ pc' = [pc EXCEPT ![w] = "locked"]
    BY <2>1 DEF ReleaseMutex, WakesBySignal, WakesByBroadcast, TimesOut, Wakes, Reset, Relock
  <2>3. waitersCount' = waitersCount
    BY <2>1 DEF ReleaseMutex, WakesBySignal, WakesByBroadcast, TimesOut, Wakes, Reset, Relock
  <2> QED BY <2>2, <2>3, CountedAfter
<1>3. CASE \/ \E a \in Threads : LockMutex(a) \/ UnlockMutex(a)
           \/ \E n \in Notifiers :
                 \/ CallSignal(n) \/ CallBroadcast(n) \/ SetSignal(n) \/ SetBroadcast(n)
           \/ UNCHANGED vars
  <2>1. waitersCount' = waitersCount
    BY <1>3 DEF LockMutex, UnlockMutex, CallSignal, CallBroadcast, SetSignal, SetBroadcast, vars
  <2>2. Counted' = Counted
    <3>1. CASE \E a \in Threads : LockMutex(a) \/ UnlockMutex(a)
      BY <3>1 DEF LockMutex, UnlockMutex, Counted, Threads
    <3>2. CASE \E n \in Notifiers :
                 \/ CallSignal(n) \/ CallBroadcast(n) \/ SetSignal(n) \/ SetBroadcast(n)
      BY <3>2 DEF CallSignal, CallBroadcast, SetSignal, SetBroadcast, Counted, Threads
    <3>3. CASE UNCHANGED vars
      BY <3>3 DEF vars, Counted
    <3> QED BY <1>3, <3>1, <3>2, <3>3
  <2> QED BY <2>1, <2>2
<1> QED BY <1>1, <1>2, <1>3, Steps

\* Only a thread that is woken takes the event, and with it what signal() owes.
LEMMA SignalStep ==
    IInv /\ [Next]_vars =>
        (asked' # {} => signalEvent' \/ \E n \in Notifiers : pc'[n] = "signal")
<1> SUFFICES ASSUME IInv, [Next]_vars, asked' # {}
             PROVE  signalEvent' \/ \E n \in Notifiers : pc'[n] = "signal"
  OBVIOUS
<1> USE ConditionAssumption DEF IInv, TypeOK, Threads, Places, Goto, events, history
<1>1. CASE \E a \in Threads : LockMutex(a) \/ UnlockMutex(a)
  BY <1>1 DEF LockMutex, UnlockMutex
<1>2. CASE \E w \in Waiters :
                 \/ CallWait(w) \/ ReleaseMutex(w) \/ WakesBySignal(w) \/ WakesByBroadcast(w)
                 \/ TimesOut(w) \/ Leave(w) \/ Reset(w) \/ Relock(w)
  BY <1>2 DEF CallWait, ReleaseMutex, WakesBySignal, WakesByBroadcast, TimesOut, Wakes, Leave,
     Reset, Relock
<1>3. CASE \E n \in Notifiers :
                 \/ CallSignal(n) \/ CallBroadcast(n) \/ SetSignal(n) \/ SetBroadcast(n)
  BY <1>3 DEF CallSignal, CallBroadcast, SetSignal, SetBroadcast
<1>4. CASE UNCHANGED vars
  BY <1>4 DEF vars
<1> QED BY <1>1, <1>2, <1>3, <1>4, Steps

\* The waiter that is to reset the event was the only one counted when it left.
LEMMA LastStep ==
    IInv /\ [Next]_vars => \A w \in Waiters : pc'[w] = "reset" => inside'[w] = {}
<1> SUFFICES ASSUME IInv, [Next]_vars, NEW w \in Waiters, pc'[w] = "reset"
             PROVE  inside'[w] = {}
  OBVIOUS
<1> USE ConditionAssumption DEF IInv, TypeOK, Threads, Places, Goto, events, history
<1>1. CASE \E a \in Threads : LockMutex(a) \/ UnlockMutex(a)
  BY <1>1 DEF LockMutex, UnlockMutex
<1>2. CASE \E v \in Waiters :
                 \/ CallWait(v) \/ ReleaseMutex(v) \/ WakesBySignal(v) \/ WakesByBroadcast(v)
                 \/ TimesOut(v)
  BY <1>2 DEF CallWait, ReleaseMutex, WakesBySignal, WakesByBroadcast, TimesOut, Wakes
<1>3. CASE \E v \in Waiters : Reset(v) \/ Relock(v)
  BY <1>3 DEF Reset, Relock
<1>4. CASE \E v \in Waiters : Leave(v)
  <2>1. PICK v \in Waiters : Leave(v)
    BY <1>4
  <2>2. CASE v # w
    BY <2>1, <2>2 DEF Leave
  <2>3. CASE v = w
    <3>1. /\ pc[w] = "leave" /\ waitersCount = 1
          /\ inside'[w] = Counted \ {w}
      BY <2>1, <2>3 DEF Leave, IsLastWaiter
    <3>2. w \in Counted /\ IsFiniteSet(Counted) /\ Cardinality(Counted) = 1
      BY <3>1, WaitersFinite DEF Counted
    <3>3. IsFiniteSet(Counted \ {w}) /\ Cardinality(Counted \ {w}) = 0
      BY ONLY <3>2, FS_RemoveElement
    <3>4. Counted \ {w} = {}
      BY ONLY <3>3, FS_EmptySet
    <3> QED BY <3>1, <3>4
  <2> QED BY <2>2, <2>3
<1>5. CASE \E n \in Notifiers :
                 \/ CallSignal(n) \/ CallBroadcast(n) \/ SetSignal(n) \/ SetBroadcast(n)
  BY <1>5 DEF CallSignal, CallBroadcast, SetSignal, SetBroadcast
<1>6. CASE UNCHANGED vars
  BY <1>6 DEF vars
<1> QED BY <1>1, <1>2, <1>3, <1>4, <1>5, <1>6, Steps

\* The event is reset by a waiter that has left nobody behind to whom it is owed.
LEMMA BroadcastStep ==
    IInv /\ [Next]_vars =>
        (owed' # {} => broadcastEvent' \/ \E n \in Notifiers : pc'[n] = "broadcast")
<1> SUFFICES ASSUME IInv, [Next]_vars, owed' # {}
             PROVE  broadcastEvent' \/ \E n \in Notifiers : pc'[n] = "broadcast"
  OBVIOUS
<1> USE ConditionAssumption DEF IInv, TypeOK, Threads, Places, Goto, events, history
<1>1. CASE \E a \in Threads : LockMutex(a) \/ UnlockMutex(a)
  BY <1>1 DEF LockMutex, UnlockMutex
<1>2. CASE \E w \in Waiters :
                 \/ CallWait(w) \/ ReleaseMutex(w) \/ WakesBySignal(w) \/ WakesByBroadcast(w)
                 \/ TimesOut(w) \/ Leave(w) \/ Reset(w) \/ Relock(w)
  BY <1>2 DEF CallWait, ReleaseMutex, WakesBySignal, WakesByBroadcast, TimesOut, Wakes, Leave,
     Reset, Relock
<1>3. CASE \E n \in Notifiers :
                 \/ CallSignal(n) \/ CallBroadcast(n) \/ SetSignal(n) \/ SetBroadcast(n)
  BY <1>3 DEF CallSignal, CallBroadcast, SetSignal, SetBroadcast
<1>4. CASE UNCHANGED vars
  BY <1>4 DEF vars
<1> QED BY <1>1, <1>2, <1>3, <1>4, Steps

LEMMA Step == IInv /\ [Next]_vars => IInv'
<1> SUFFICES ASSUME IInv, [Next]_vars PROVE IInv'
  OBVIOUS
<1>1. waitersCount' \in 0..Cardinality(Waiters)
  <2>1. Cardinality(Counted') \in 0..Cardinality(Waiters)
    BY WaitersFinite DEF Counted
  <2> QED BY <2>1, CountStep
<1>2. /\ mutex' \in Waiters \cup Notifiers \cup {NoThread}
      /\ signalEvent' \in BOOLEAN /\ broadcastEvent' \in BOOLEAN
      /\ timed' \subseteq Waiters
      /\ result' \in [Waiters -> {"none", "signal", "broadcast", "timeout"}]
  <2>0. TypeOK
    BY DEF IInv
  <2> USE Steps, <2>0
      DEF LockMutex, UnlockMutex, CallWait, ReleaseMutex, WakesBySignal, WakesByBroadcast,
          TimesOut, Wakes, Leave, Reset, Relock, CallSignal, CallBroadcast, SetSignal,
          SetBroadcast, vars, events, history, TypeOK, Threads
  <2>1. mutex' \in Waiters \cup Notifiers \cup {NoThread}
    OBVIOUS
  <2>2. signalEvent' \in BOOLEAN /\ broadcastEvent' \in BOOLEAN
    OBVIOUS
  <2>3. timed' \subseteq Waiters
    OBVIOUS
  <2>4. result' \in [Waiters -> {"none", "signal", "broadcast", "timeout"}]
    OBVIOUS
  <2> QED BY <2>1, <2>2, <2>3, <2>4
<1>3. owed' \subseteq Waiters /\ asked' \subseteq Waiters /\ inside' \in [Waiters -> SUBSET Waiters]
  <2>1. Counted \subseteq Waiters
    BY DEF Counted
  <2> USE <2>1 DEF IInv, TypeOK, events, history
  <2>2. CASE \/ \E a \in Threads : LockMutex(a) \/ UnlockMutex(a)
             \/ \E n \in Notifiers : SetSignal(n) \/ SetBroadcast(n)
             \/ \E w \in Waiters : CallWait(w) \/ ReleaseMutex(w)
             \/ UNCHANGED vars
    BY <2>2 DEF LockMutex, UnlockMutex, SetSignal, SetBroadcast, CallWait, ReleaseMutex, vars
  <2>3. CASE \E n \in Notifiers : CallSignal(n) \/ CallBroadcast(n)
    BY <2>3 DEF CallSignal, CallBroadcast
  <2>4. CASE \E w \in Waiters : WakesBySignal(w) \/ WakesByBroadcast(w) \/ TimesOut(w)
    BY <2>4 DEF WakesBySignal, WakesByBroadcast, TimesOut, Wakes
  <2>5. CASE \E w \in Waiters : Leave(w) \/ Reset(w) \/ Relock(w)
    BY <2>5 DEF Leave, Reset, Relock
  <2> QED BY <2>2, <2>3, <2>4, <2>5, Steps
<1> QED BY <1>1, <1>2, <1>3, PlaceStep, CountStep, SignalStep, BroadcastStep, LastStep DEF IInv, TypeOK

-----------------------------------------------------------------------------

\* The count is right in every reachable state, and neither signal nor broadcast is lost.
THEOREM ConditionCorrect == Spec => []IInv
<1>1. Init => IInv
  <2> SUFFICES ASSUME Init PROVE IInv
    OBVIOUS
  <2>1. Counted = {} /\ Cardinality(Counted) = 0
    BY FS_EmptySet DEF Init, Counted
  <2>2. TypeOK
    <3>1. waitersCount \in 0..Cardinality(Waiters)
      BY <2>1, WaitersFinite DEF Init, Counted
    <3>2. result \in [Waiters -> {"none", "signal", "broadcast", "timeout"}]
          /\ inside \in [Waiters -> SUBSET Waiters]
      BY DEF Init
    <3>3. \A a \in Threads : pc[a] = "out"
      BY DEF Init, Threads
    <3>4. mutex = NoThread /\ signalEvent = FALSE /\ broadcastEvent = FALSE
          /\ timed = {} /\ owed = {} /\ asked = {}
      BY DEF Init
    <3> QED BY <3>1, <3>2, <3>3, <3>4 DEF TypeOK, Threads
  <2> QED BY <2>1, <2>2 DEF Init, IInv, Threads, Places
<1> QED BY <1>1, Step, PTL DEF Spec

\* Every reachable state is well typed: the count is never negative (condition.cpp:109).
THEOREM TypesCorrect == Spec => []TypeOK
<1>1. IInv => TypeOK
  BY DEF IInv
<1> QED BY <1>1, ConditionCorrect, PTL

\* An event that was set for a sleeper stays set until someone takes it.
THEOREM SignalsKept == Spec => []SignalWakesOne
<1>1. IInv => SignalWakesOne
  BY DEF IInv, SignalWakesOne
<1> QED BY <1>1, ConditionCorrect, PTL

\* The event of a broadcast() stays set for every waiter it has counted, or is still to be
\* set: the last waiter resets it when nobody counted is left (condition.cpp:110-119).
THEOREM BroadcastsKept == Spec => []BroadcastStays
<1>1. IInv => BroadcastStays
  BY DEF IInv, BroadcastStays
<1> QED BY <1>1, ConditionCorrect, PTL

=============================================================================
