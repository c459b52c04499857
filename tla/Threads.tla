------------------------------ MODULE Threads ------------------------------
(***************************************************************************)
(* One Thread object (thread.cpp) and the threads that call start(),       *)
(* join() and cancel() on it, the ones it has started among them.  Each    *)
(* step is what happens between two accesses to state that others see:     *)
(* the lock_, m_id and the threads of the system.                          *)
(***************************************************************************)
EXTENDS Integers, FiniteSets

CONSTANTS
    Callers,        \* threads that use the object
    MaxThreads      \* how many threads it may come to start

NoThread == 0
Ids == 1..MaxThreads
Actors == Callers \cup Ids

ASSUME ThreadsAssumption ==
    MaxThreads \in Nat \ {0} /\ Callers \cap Ids = {} /\ NoThread \notin Callers

VARIABLES
    recursive, holder, depth, m_Owner,      \* lock_, see Mutex
    m_id,
    thread,         \* the threads of the system that the object has started
    pc,             \* where each actor is in its call
    starting,       \* its join() was called by start()
    cancelled,      \* threads that were told to end by pthread_cancel()
    restarted,      \* threads that called start() on their own object
    gaveUp,         \* a start() has lost its lock when its join() unlocked it
    process

lockVars == <<recursive, holder, depth, m_Owner>>
vars == <<lockVars, m_id, thread, pc, starting, cancelled, restarted, gaveUp, process>>

lock_ == INSTANCE Mutex

Places == {"out", "start", "relock", "lock", "join", "forget", "unlockJoin", "create",
           "unlock", "cancel"}

TypeOK ==
    /\ recursive \in BOOLEAN
    /\ holder \in Actors \cup {NoThread}
    /\ depth \in 0..2
    /\ m_Owner \in Actors \cup {NoThread}
    /\ m_id \in Ids \cup {NoThread}
    /\ thread \in [Ids -> {"none", "running", "ended", "joined"}]
    /\ pc \in [Actors -> Places]
    /\ starting \subseteq Actors
    /\ cancelled \subseteq Ids /\ restarted \subseteq Ids /\ gaveUp \in BOOLEAN
    /\ process \in {"up", "exited", "undefined"}

Init ==
    /\ recursive \in BOOLEAN
    /\ holder = NoThread /\ depth = 0 /\ m_Owner = NoThread
    /\ m_id = NoThread
    /\ thread = [i \in Ids |-> "none"]
    /\ pc = [a \in Actors |-> "out"]
    /\ starting = {} /\ cancelled = {} /\ restarted = {} /\ gaveUp = FALSE
    /\ process = "up"

Goto(a, place) == pc' = [pc EXCEPT ![a] = place]

CanCall(a) == pc[a] = "out" /\ (a \in Ids => thread[a] = "running")

-----------------------------------------------------------------------------
(* start() *)

CallStart(a) ==
    /\ CanCall(a)
    /\ Goto(a, "start")
    /\ UNCHANGED <<lockVars, m_id, thread, starting, cancelled, restarted, gaveUp, process>>

\* Mutant: the thread that was there before is not joined.
LockStart_NoJoin(a) ==
    /\ pc[a] = "start"
    /\ lock_!Lock(a)
    /\ Goto(a, "create")
    /\ restarted' = IF m_id = a THEN restarted \cup {a} ELSE restarted
    /\ UNCHANGED <<recursive, m_id, thread, starting, cancelled, gaveUp, process>>

\* join() does nothing when the thread calls it on itself.
LockStart(a) ==
    /\ pc[a] = "start"
    /\ lock_!Lock(a)
    /\ IF m_id = a
       THEN /\ Goto(a, "create")
            /\ restarted' = restarted \cup {a}
            /\ UNCHANGED starting
       ELSE /\ Goto(a, "relock")
            /\ starting' = starting \cup {a}
            /\ UNCHANGED restarted
    /\ UNCHANGED <<recursive, m_id, thread, cancelled, gaveUp, process>>

Create(a) ==
    /\ pc[a] = "create"
    /\ \E i \in Ids :
        /\ thread[i] = "none" /\ \A j \in 1..(i - 1) : thread[j] # "none"
        /\ thread' = [thread EXCEPT ![i] = "running"]
        /\ m_id' = i
    /\ Goto(a, "unlock")
    /\ UNCHANGED <<lockVars, starting, cancelled, restarted, gaveUp, process>>

\* No more threads are to be had; the exception leaves the guard's lock behind it.
CreateThrows(a) ==
    /\ pc[a] = "create"
    /\ Goto(a, "unlock")
    /\ UNCHANGED <<lockVars, m_id, thread, starting, cancelled, restarted, gaveUp, process>>

UnlockStart(a) ==
    /\ pc[a] = "unlock"
    /\ lock_!Unlock(a)
    /\ Goto(a, "out")
    /\ UNCHANGED <<recursive, m_id, thread, starting, cancelled, restarted, gaveUp, process>>

\* To unlock a normal mutex that another thread holds is undefined.
UnlocksOther(a) ==
    /\ pc[a] \in {"unlock", "unlockJoin"}
    /\ ~lock_!MayUnlock(a)
    /\ process' = "undefined"
    /\ UNCHANGED <<lockVars, m_id, thread, pc, starting, cancelled, restarted, gaveUp>>

-----------------------------------------------------------------------------
(* join() *)

\* Mutant: a thread may come to join itself.
CallJoin_Self(a) ==
    /\ CanCall(a)
    /\ Goto(a, "lock")
    /\ UNCHANGED <<lockVars, m_id, thread, starting, cancelled, restarted, gaveUp, process>>

CallJoin(a) ==
    /\ CanCall(a) /\ m_id # a
    /\ Goto(a, "lock")
    /\ UNCHANGED <<lockVars, m_id, thread, starting, cancelled, restarted, gaveUp, process>>

\* Mutant: join() waits without the lock.
LockJoin_Not(a) ==
    /\ pc[a] \in {"lock", "relock"}
    /\ Goto(a, "join")
    /\ UNCHANGED <<lockVars, m_id, thread, starting, cancelled, restarted, gaveUp, process>>

LockJoin(a) ==
    /\ pc[a] \in {"lock", "relock"}
    /\ lock_!Lock(a)
    /\ Goto(a, "join")
    /\ UNCHANGED <<recursive, m_id, thread, starting, cancelled, restarted, gaveUp, process>>

NothingToJoin(a) ==
    /\ pc[a] = "join" /\ m_id = NoThread
    /\ Goto(a, "unlockJoin")
    /\ UNCHANGED <<lockVars, m_id, thread, starting, cancelled, restarted, gaveUp, process>>

\* pthread_join() returns when the thread has ended, with the lock held.
PthreadJoin(a) ==
    /\ pc[a] = "join" /\ m_id # NoThread
    /\ thread[m_id] = "ended"
    /\ thread' = [thread EXCEPT ![m_id] = "joined"]
    /\ Goto(a, "forget")
    /\ UNCHANGED <<lockVars, m_id, starting, cancelled, restarted, gaveUp, process>>

\* What it does with a thread that was joined before is undefined.
PthreadJoinAgain(a) ==
    /\ pc[a] = "join" /\ m_id # NoThread
    /\ thread[m_id] = "joined"
    /\ process' = "undefined"
    /\ UNCHANGED <<lockVars, m_id, thread, pc, starting, cancelled, restarted, gaveUp>>

Forget(a) ==
    /\ pc[a] = "forget"
    /\ m_id' = NoThread
    /\ Goto(a, "unlockJoin")
    /\ UNCHANGED <<lockVars, thread, starting, cancelled, restarted, gaveUp, process>>

\* join() returns to its caller, or to start().
UnlockJoin(a) ==
    /\ pc[a] = "unlockJoin"
    /\ lock_!Unlock(a)
    /\ Goto(a, IF a \in starting THEN "create" ELSE "out")
    /\ starting' = starting \ {a}
    /\ gaveUp' = (gaveUp \/ (a \in starting /\ ~recursive))
    /\ UNCHANGED <<recursive, m_id, thread, cancelled, restarted, process>>

-----------------------------------------------------------------------------
(* cancel(): m_id is read twice, and without the lock *)

\* From outside, or by the thread itself, as the Dispatcher does at the end of its run()
\* (dispatcher.cpp:40).  Bound: one call at a time, and one that reaches a thread.
CallCancel(a) ==
    /\ CanCall(a) /\ m_id # NoThread
    /\ cancelled = {} /\ \A b \in Actors : pc[b] # "cancel"
    /\ Goto(a, "cancel")
    /\ UNCHANGED <<lockVars, m_id, thread, starting, cancelled, restarted, gaveUp, process>>

PthreadCancel(a) ==
    /\ pc[a] = "cancel"
    /\ IF m_id # NoThread /\ thread[m_id] # "joined"
       THEN cancelled' = cancelled \cup {m_id} /\ UNCHANGED process
       ELSE process' = "undefined" /\ UNCHANGED cancelled
    /\ Goto(a, "out")
    /\ UNCHANGED <<lockVars, m_id, thread, starting, restarted, gaveUp>>

-----------------------------------------------------------------------------
(* launcher(), in the thread that was started *)

\* run() returns, or an Exception or a std::exception is caught.
RunEnds(i) ==
    /\ thread[i] = "running" /\ pc[i] = "out"
    /\ thread' = [thread EXCEPT ![i] = "ended"]
    /\ UNCHANGED <<lockVars, m_id, pc, starting, cancelled, restarted, gaveUp, process>>

\* A cancelled thread unwinds its stack: catch(...) takes that for an exception of
\* another kind and ends the process.
Unwinds(i) ==
    /\ thread[i] = "running" /\ i \in cancelled
    /\ process' = "exited"
    /\ UNCHANGED <<lockVars, m_id, thread, pc, starting, cancelled, restarted, gaveUp>>

-----------------------------------------------------------------------------

Takes(a) == LockStart(a) \/ LockJoin(a)

Goes(a) ==
    \/ Create(a) \/ CreateThrows(a) \/ UnlockStart(a) \/ UnlocksOther(a)
    \/ NothingToJoin(a) \/ PthreadJoin(a) \/ PthreadJoinAgain(a) \/ Forget(a)
    \/ UnlockJoin(a) \/ PthreadCancel(a)

Up(A) == process = "up" /\ A

Next ==
    \/ \E a \in Actors :
        \/ Up(CallStart(a)) \/ Up(CallJoin(a)) \/ Up(CallCancel(a))
        \/ Up(Takes(a)) \/ Up(Goes(a))
    \/ \E i \in Ids : Up(RunEnds(i)) \/ Up(Unwinds(i))

Spec == Init /\ [][Next]_vars

\* Calls go on, nobody is kept from a lock for ever that is free again and again, and
\* every run() ends, however many calls it makes before.
FairSpec ==
    /\ Spec
    /\ \A a \in Actors : WF_vars(Up(Goes(a))) /\ SF_vars(Up(Takes(a)))
    /\ \A i \in Ids : SF_vars(Up(RunEnds(i)))

-----------------------------------------------------------------------------
(* Properties *)

\* Between taking and giving up lock_ (thread.cpp:299, :355)
Inside(a) == pc[a] \in {"relock", "join", "forget", "unlockJoin", "create", "unlock"}

\* start() locks twice, by itself and by join().  At most one call is inside, with a
\* recursive mutex and with the remembered owner (mutex.cpp:81) alike, until with the
\* latter a start() gives up its own lock when its join() unlocks.
Exclusive ==
    ~gaveUp => \A a, b \in Actors : Inside(a) /\ Inside(b) => a = b

\* However start() and join() meet, each thread of the object is joined once: one that is
\* not joined yet is the one of m_id, and none is joined again, by two callers or by one
\* after the other.  The exceptions are a thread that starts its object anew itself
\* (thread.cpp:301-305), and the lock that was given up.
JoinedOnce ==
    gaveUp \/
        /\ \A i \in Ids : thread[i] \in {"running", "ended"} => i = m_id \/ restarted # {}
        /\ \A a \in Actors : pc[a] = "join" /\ m_id # NoThread => thread[m_id] # "joined"

\* A thread that starts its own object anew while another one joins it waits for the
\* lock which that one holds while it waits for the thread.
BlocksItself ==
    \E i \in Ids : m_id = i /\ pc[i] = "start" /\ \E a \in Actors : pc[a] = "join"

WaitsForLock(a) == pc[a] \in {"start", "relock", "lock"} /\ ~lock_!MayLock(a)
WaitsForThread(a) == pc[a] = "join" /\ m_id # NoThread /\ thread[m_id] = "running"

\* No circle of waits: whoever waits for lock_ waits for a call that is inside and has not
\* locked itself out (mutex.cpp:81), and whoever waits for the thread (thread.cpp:358)
\* waits for one that waits for nothing, also after a start() has given up its lock.
NoCircularWait ==
    process = "up" /\ ~BlocksItself =>
        \A a \in Actors :
            /\ WaitsForLock(a) => \E b \in Actors :
                  holder = b /\ Inside(b) /\ ~WaitsForLock(b)
            /\ WaitsForThread(a) => ~WaitsForLock(m_id) /\ ~WaitsForThread(m_id)

\* Every call returns: holding lock_ while waiting for the thread (thread.cpp:355-360)
\* blocks nobody for ever but a thread that starts its own object meanwhile.
CallsReturn ==
    \A a \in Actors :
        pc[a] # "out" ~> pc[a] = "out" \/ process # "up" \/ BlocksItself

=============================================================================
