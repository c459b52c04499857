----------------------------- MODULE Condition -----------------------------
(***************************************************************************)
(* class Condition where the system has no condition variables: the        *)
(* Windows half of condition.cpp builds them from a count and two events.  *)
(* (Elsewhere each call is one of the system's own.)  A step is what       *)
(* happens between two accesses to the count, the events and the mutex.    *)
(***************************************************************************)
EXTENDS Integers, FiniteSets

CONSTANTS
    Waiters,        \* threads that wait, again and again
    Notifiers,      \* threads that call signal() and broadcast()
    NoThread

ASSUME ConditionAssumption ==
    /\ Waiters \cap Notifiers = {} /\ NoThread \notin Waiters \cup Notifiers
    /\ IsFiniteSet(Waiters)

VARIABLES
    mutex,          \* *pMutex: who holds it
    waitersCount,
    signalEvent,    \* events_[SIGNAL], an auto-reset event
    broadcastEvent, \* events_[BROADCAST], a manual-reset event
    pc,
    timed,          \* waiters whose wait may end of itself
    result,         \* what WaitForMultipleObjects() returned to a waiter
    owed,           \* waiters that a broadcast() has counted and that still sleep
    asked,          \* the same for signal(), until one of them is woken
    inside          \* the waiters that a leaving one left behind

events == <<signalEvent, broadcastEvent>>
history == <<owed, asked, inside>>
vars == <<mutex, waitersCount, events, pc, timed, result, history>>

TypeOK ==
    /\ mutex \in Waiters \cup Notifiers \cup {NoThread}
    /\ waitersCount \in 0..Cardinality(Waiters)
    /\ signalEvent \in BOOLEAN /\ broadcastEvent \in BOOLEAN
    /\ \A w \in Waiters : pc[w] \in {"out", "locked", "unlock", "asleep", "leave", "reset",
                                     "relock"}
    /\ \A n \in Notifiers : pc[n] \in {"out", "signal", "broadcast"}
    /\ timed \subseteq Waiters
    /\ result \in [Waiters -> {"none", "signal", "broadcast", "timeout"}]
    /\ owed \subseteq Waiters /\ asked \subseteq Waiters
    /\ inside \in [Waiters -> SUBSET Waiters]

Init ==
    /\ mutex = NoThread /\ waitersCount = 0
    /\ signalEvent = FALSE /\ broadcastEvent = FALSE
    /\ pc = [a \in Waiters \cup Notifiers |-> "out"]
    /\ timed = {} /\ result = [w \in Waiters |-> "none"]
    /\ owed = {} /\ asked = {} /\ inside = [w \in Waiters |-> {}]

Goto(a, place) == pc' = [pc EXCEPT ![a] = place]

\* The waiters that waitersCount counts
Counted == {w \in Waiters : pc[w] \in {"unlock", "asleep", "leave"}}

-----------------------------------------------------------------------------
(* The mutex, which the callers lock and unlock themselves *)

LockMutex(a) ==
    /\ mutex = NoThread /\ pc[a] = "out"
    /\ mutex' = a
    /\ IF a \in Waiters THEN Goto(a, "locked") ELSE UNCHANGED pc
    /\ UNCHANGED <<waitersCount, events, timed, result, history>>

UnlockMutex(a) ==
    /\ mutex = a /\ pc[a] \in {"out", "locked"}
    /\ mutex' = NoThread
    /\ Goto(a, "out")
    /\ UNCHANGED <<waitersCount, events, timed, result, history>>

-----------------------------------------------------------------------------
(* wait(), timed_wait() and timed_waitUntilEvent() *)

CallWait(w) ==
    /\ pc[w] = "locked"
    /\ timed' \in {timed \cup {w}, timed \ {w}}
    /\ waitersCount' = waitersCount + 1
    /\ Goto(w, "unlock")
    /\ UNCHANGED <<mutex, events, result, history>>

ReleaseMutex(w) ==
    /\ pc[w] = "unlock"
    /\ mutex' = NoThread
    /\ Goto(w, "asleep")
    /\ UNCHANGED <<waitersCount, events, timed, result, history>>

Wakes(w, why) ==
    /\ result' = [result EXCEPT ![w] = why]
    /\ Goto(w, "leave")
    /\ owed' = owed \ {w}
    /\ asked' = IF why = "signal" THEN {} ELSE asked \ {w}
    /\ timed' = timed \ {w}
    /\ UNCHANGED <<mutex, waitersCount, broadcastEvent, inside>>

\* The event of the lowest index is reported, and an auto-reset event is reset.
WakesBySignal(w) ==
    /\ pc[w] = "asleep" /\ signalEvent
    /\ signalEvent' = FALSE
    /\ Wakes(w, "signal")

WakesByBroadcast(w) ==
    /\ pc[w] = "asleep" /\ ~signalEvent /\ broadcastEvent
    /\ Wakes(w, "broadcast")
    /\ UNCHANGED signalEvent

\* The time is over, or the event of timed_waitUntilEvent() fired.
TimesOut(w) ==
    /\ pc[w] = "asleep" /\ w \in timed
    /\ ~signalEvent /\ ~broadcastEvent
    /\ Wakes(w, "timeout")
    /\ UNCHANGED signalEvent

\* Mutant: the count is not looked at.
IsLastWaiter_Any(w) == result[w] = "broadcast"

IsLastWaiter(w) == result[w] = "broadcast" /\ waitersCount = 1

Leave(w) ==
    /\ pc[w] = "leave"
    /\ waitersCount' = waitersCount - 1
    /\ Goto(w, IF IsLastWaiter(w) THEN "reset" ELSE "relock")
    /\ inside' = [inside EXCEPT ![w] = Counted \ {w}]
    /\ UNCHANGED <<mutex, events, timed, result, owed, asked>>

\* A waiter that came after this one had left loses the event, which a broadcast may have
\* set for it: it is owed nothing any more.
Reset(w) ==
    /\ pc[w] = "reset"
    /\ broadcastEvent' = FALSE
    /\ Goto(w, "relock")
    /\ owed' = IF broadcastEvent THEN owed \cap inside[w] ELSE owed
    /\ UNCHANGED <<mutex, waitersCount, signalEvent, timed, result, asked, inside>>

\* The wait returns.
Relock(w) ==
    /\ pc[w] = "relock" /\ mutex = NoThread
    /\ mutex' = w
    /\ result' = [result EXCEPT ![w] = "none"]
    /\ Goto(w, "locked")
    /\ inside' = [inside EXCEPT ![w] = {}]
    /\ UNCHANGED <<waitersCount, events, timed, owed, asked>>

-----------------------------------------------------------------------------
(* signal() and broadcast(), with or without the mutex *)

HaveWaiters == waitersCount > 0

CallSignal(n) ==
    /\ pc[n] = "out" /\ HaveWaiters
    /\ Goto(n, "signal")
    /\ asked' = asked \cup Counted
    /\ UNCHANGED <<mutex, waitersCount, events, timed, result, owed, inside>>

\* Mutant: the event is only pulsed for those that sleep at this moment.
SetSignal_Pulse(n) ==
    /\ pc[n] = "signal"
    /\ signalEvent' = \E w \in Waiters : pc[w] = "asleep"
    /\ Goto(n, "out")
    /\ UNCHANGED <<mutex, waitersCount, broadcastEvent, timed, result, history>>

SetSignal(n) ==
    /\ pc[n] = "signal"
    /\ signalEvent' = TRUE
    /\ Goto(n, "out")
    /\ UNCHANGED <<mutex, waitersCount, broadcastEvent, timed, result, history>>

CallBroadcast(n) ==
    /\ pc[n] = "out" /\ HaveWaiters
    /\ Goto(n, "broadcast")
    /\ owed' = owed \cup (Counted \ {w \in Waiters : pc[w] = "leave"})
    /\ UNCHANGED <<mutex, waitersCount, events, timed, result, asked, inside>>

SetBroadcast(n) ==
    /\ pc[n] = "broadcast"
    /\ broadcastEvent' = TRUE
    /\ Goto(n, "out")
    /\ UNCHANGED <<mutex, waitersCount, signalEvent, timed, result, history>>

-----------------------------------------------------------------------------

Wakened(w) == WakesBySignal(w) \/ WakesByBroadcast(w)
Goes(w) == ReleaseMutex(w) \/ Leave(w) \/ Reset(w)
Sets(n) == SetSignal(n) \/ SetBroadcast(n)

Next ==
    \/ \E a \in Waiters \cup Notifiers : LockMutex(a) \/ UnlockMutex(a)
    \/ \E w \in Waiters : CallWait(w) \/ Wakened(w) \/ TimesOut(w) \/ Goes(w) \/ Relock(w)
    \/ \E n \in Notifiers : CallSignal(n) \/ CallBroadcast(n) \/ Sets(n)

Spec == Init /\ [][Next]_vars

\* Whoever holds the mutex gives it back, and nobody is kept from it for ever; a thread
\* whose event stays set is woken, and no call is given up in the middle.
FairSpec ==
    /\ Spec
    /\ \A w \in Waiters : WF_vars(Wakened(w)) /\ WF_vars(Goes(w)) /\ SF_vars(Relock(w))
    /\ \A a \in Waiters \cup Notifiers : WF_vars(UnlockMutex(a))
    /\ \A n \in Notifiers : WF_vars(Sets(n))

-----------------------------------------------------------------------------
(* Properties *)

Sleeps(w) == pc[w] \in {"unlock", "asleep"}

\* "waking one waiting thread" (condition.h:38): until one of the threads a signal() has
\* counted or one that came later has taken the event, it stays set - also when the
\* signal comes between the count and the sleep (condition.cpp:95-106).
SignalWakesOne ==
    (\E w \in asked : Sleeps(w)) =>
        signalEvent \/ \E n \in Notifiers : pc[n] = "signal"

\* The event of a broadcast() is still to be set, or stays set, until the last waiter that it
\* has counted has woken: resetting it takes nothing from them (condition.cpp:110-119).
BroadcastStays ==
    (\E w \in owed : Sleeps(w)) =>
        broadcastEvent \/ \E n \in Notifiers : pc[n] = "broadcast"

\* "waking all current waiters" (condition.h:31): a waiter that broadcast() has counted
\* comes back with the mutex.  It is lost in one case: the last waiter of an earlier
\* broadcast has left, and resets the event only now (condition.cpp:110-119).  That takes
\* a second waiter; where one thread waits, as in Timer, nothing is lost.
BroadcastReturns ==
    \A w \in Waiters : w \in owed ~> pc[w] = "locked" \/ (w \notin owed /\ Sleeps(w))

=============================================================================
