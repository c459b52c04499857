--------------------------- MODULE ThreadsProofs ---------------------------
(***************************************************************************)
(* Theorems about Threads and Mutex, for every set of callers and every    *)
(* number of threads that the object may come to start.                    *)
(***************************************************************************)
EXTENDS Threads, TLAPS

-----------------------------------------------------------------------------
(* The inductive invariant *)

\* What the two builds of the mutex know of its holder, also where a start() has given up
\* its lock: the remembered owner is the holder, the system's recursive mutex counts.
MutexKept ==
    /\ m_Owner = holder \/ (recursive /\ m_Owner = NoThread)
    /\ holder = NoThread <=> depth = 0
    /\ ~recursive => depth <= 1
    /\ gaveUp => ~recursive

\* start() calls join() between taking the lock and creating the thread.
JoinsForStart ==
    /\ \A a \in starting : pc[a] \in {"relock", "join", "forget", "unlockJoin"}
    /\ \A a \in Actors : pc[a] = "relock" => a \in starting

\* Who is inside holds the lock, twice in a join() that start() has called.
HeldInside ==
    gaveUp \/ \A a \in Actors :
        /\ Inside(a) <=> holder = a
        /\ recursive /\ Inside(a) =>
              depth = IF a \in starting /\ pc[a] # "relock" THEN 2 ELSE 1

\* What a call inside knows of m_id, which nobody else may change meanwhile.
IdKnown ==
    gaveUp \/
        /\ \A a \in Actors :
              /\ pc[a] = "forget" => m_id # NoThread /\ thread[m_id] = "joined"
              /\ pc[a] = "unlockJoin" => m_id = NoThread
              /\ pc[a] = "create" => m_id = NoThread \/ restarted # {}
        /\ m_id # NoThread /\ thread[m_id] = "joined" => \E a \in Actors : pc[a] = "forget"

\* Who holds the lock is inside, and who is to lock it again holds it, also where a
\* start() has given it up.
HolderInside ==
    \A a \in Actors :
        /\ holder = a => Inside(a)
        /\ pc[a] = "relock" => holder = a

\* The thread that m_id names does not join(): m_id names a thread from its creation or
\* never, and join() returns at once to the thread it names.
NeverJoinsItself ==
    /\ \A i \in Ids : m_id = i => pc[i] \in {"out", "start", "create", "unlock", "cancel"}
    /\ \A i \in Ids : thread[i] = "none" => pc[i] = "out"

IInv ==
    /\ TypeOK /\ MutexKept /\ JoinsForStart /\ HeldInside /\ IdKnown /\ JoinedOnce
    /\ HolderInside /\ NeverJoinsItself

-----------------------------------------------------------------------------
(* Every step keeps it *)

\* Nobody has the address of nobody.
LEMMA ActorsExist == NoThread \notin Actors
BY ThreadsAssumption DEF Actors, Ids, NoThread

LEMMA Step == IInv /\ [Next]_vars => IInv'
<1> SUFFICES ASSUME IInv, [Next]_vars PROVE IInv'
  OBVIOUS
<1> USE ThreadsAssumption, ActorsExist
<1> USE DEF IInv, lockVars, Goto, Inside
<1>1. ASSUME NEW a \in Actors, CallStart(a) PROVE IInv'
  BY <1>1 DEF CallStart, CanCall, TypeOK, Places, NoThread, MutexKept,
     JoinsForStart, HeldInside, IdKnown, JoinedOnce, HolderInside, NeverJoinsItself
<1>2. ASSUME NEW a \in Actors, LockStart(a) PROVE IInv'
  <2> USE <1>2 DEF LockStart, lock_!Lock, lock_!TryLock
  <2>1. TypeOK'
    BY DEF TypeOK, MutexKept, JoinsForStart, HeldInside, Places, NoThread
  <2>2. MutexKept'
    BY DEF TypeOK, MutexKept, NoThread
  <2>3. JoinsForStart'
    BY DEF TypeOK, JoinsForStart
  <2>4. HeldInside'
    BY DEF TypeOK, MutexKept, JoinsForStart, HeldInside
  <2>5. IdKnown'
    BY DEF TypeOK, HeldInside, IdKnown, MutexKept, NoThread
  <2>6. JoinedOnce'
    BY DEF TypeOK, HeldInside, IdKnown, JoinedOnce
  <2>7. HolderInside'
    BY DEF TypeOK, MutexKept, JoinsForStart, HeldInside, HolderInside
  <2>8. NeverJoinsItself'
    BY DEF TypeOK, NeverJoinsItself, Actors, NoThread, Ids
  <2> QED BY <2>1, <2>2, <2>3, <2>4, <2>5, <2>6, <2>7, <2>8
<1>3. ASSUME NEW a \in Actors, Create(a) PROVE IInv'
  <2> USE <1>3 DEF Create
  <2>1. TypeOK'
    BY DEF TypeOK, MutexKept, JoinsForStart, HeldInside, Places, NoThread
  <2>2. MutexKept'
    BY DEF TypeOK, MutexKept, NoThread
  <2>3. JoinsForStart'
    BY DEF TypeOK, JoinsForStart
  <2>4. HeldInside'
    BY DEF TypeOK, MutexKept, JoinsForStart, HeldInside
  <2>5. IdKnown'
    BY DEF TypeOK, HeldInside, IdKnown, MutexKept, NoThread
  <2>6. JoinedOnce'
    <3> SUFFICES ASSUME ~gaveUp PROVE JoinedOnce'
      BY DEF JoinedOnce
    <3>1. ASSUME NEW i \in Ids, thread'[i] \in {"running", "ended"}, restarted = {}
          PROVE  i = m_id'
      BY <3>1 DEF TypeOK, IdKnown, JoinedOnce, NoThread, Ids
    <3>2. ASSUME NEW b \in Actors PROVE pc'[b] # "join"
      BY <3>2 DEF TypeOK, HeldInside
    <3> QED BY <3>1, <3>2 DEF JoinedOnce
  <2>7. HolderInside'
    BY DEF TypeOK, MutexKept, JoinsForStart, HeldInside, HolderInside
  <2>8. NeverJoinsItself'
    BY DEF TypeOK, NeverJoinsItself, Actors, NoThread, Ids
  <2> QED BY <2>1, <2>2, <2>3, <2>4, <2>5, <2>6, <2>7, <2>8
<1>4. ASSUME NEW a \in Actors, CreateThrows(a) PROVE IInv'
  BY <1>4 DEF CreateThrows, TypeOK, Places, NoThread, MutexKept,
     JoinsForStart, HeldInside, IdKnown, JoinedOnce, HolderInside, NeverJoinsItself
<1>5. ASSUME NEW a \in Actors, UnlockStart(a) PROVE IInv'
  <2> USE <1>5 DEF UnlockStart, lock_!Unlock, lock_!MayUnlock
  <2>1. TypeOK'
    BY DEF TypeOK, MutexKept, JoinsForStart, HeldInside, Places, NoThread
  <2>2. MutexKept'
    BY DEF TypeOK, MutexKept, NoThread
  <2>3. JoinsForStart'
    BY DEF TypeOK, JoinsForStart
  <2>4. HeldInside'
    BY DEF TypeOK, MutexKept, JoinsForStart, HeldInside
  <2>5. IdKnown'
    BY DEF TypeOK, HeldInside, IdKnown, MutexKept, NoThread
  <2>6. JoinedOnce'
    BY DEF TypeOK, HeldInside, IdKnown, JoinedOnce
  <2>7. HolderInside'
    BY DEF TypeOK, MutexKept, JoinsForStart, HeldInside, HolderInside
  <2>8. NeverJoinsItself'
    BY DEF TypeOK, NeverJoinsItself, Actors, NoThread, Ids
  <2> QED BY <2>1, <2>2, <2>3, <2>4, <2>5, <2>6, <2>7, <2>8
<1>6. ASSUME NEW a \in Actors, UnlocksOther(a) PROVE IInv'
  BY <1>6 DEF UnlocksOther, TypeOK, Places, NoThread, MutexKept,
     JoinsForStart, HeldInside, IdKnown, JoinedOnce, HolderInside, NeverJoinsItself
<1>7. ASSUME NEW a \in Actors, CallJoin(a) PROVE IInv'
  BY <1>7 DEF CallJoin, CanCall, TypeOK, Places, NoThread, MutexKept,
     JoinsForStart, HeldInside, IdKnown, JoinedOnce, HolderInside, NeverJoinsItself
<1>8. ASSUME NEW a \in Actors, LockJoin(a) PROVE IInv'
  <2> USE <1>8 DEF LockJoin, lock_!Lock, lock_!TryLock
  <2>1. TypeOK'
    BY DEF TypeOK, MutexKept, JoinsForStart, HeldInside, Places, NoThread
  <2>2. MutexKept'
    BY DEF TypeOK, MutexKept, NoThread
  <2>3. JoinsForStart'
    BY DEF TypeOK, JoinsForStart
  <2>4. HeldInside'
    BY DEF TypeOK, MutexKept, JoinsForStart, HeldInside
  <2>5. IdKnown'
    BY DEF TypeOK, HeldInside, IdKnown, MutexKept, NoThread
  <2>6. JoinedOnce'
    BY DEF TypeOK, MutexKept, HeldInside, IdKnown, JoinedOnce
  <2>7. HolderInside'
    BY DEF TypeOK, MutexKept, JoinsForStart, HeldInside, HolderInside
  <2>8. NeverJoinsItself'
    BY DEF TypeOK, NeverJoinsItself, Actors, NoThread, Ids
  <2> QED BY <2>1, <2>2, <2>3, <2>4, <2>5, <2>6, <2>7, <2>8
<1>9. ASSUME NEW a \in Actors, NothingToJoin(a) PROVE IInv'
  BY <1>9 DEF NothingToJoin, TypeOK, Places, NoThread, MutexKept,
     JoinsForStart, HeldInside, IdKnown, JoinedOnce, HolderInside, NeverJoinsItself
<1>10. ASSUME NEW a \in Actors, PthreadJoin(a) PROVE IInv'
  <2> USE <1>10 DEF PthreadJoin
  <2>1. TypeOK'
    BY DEF TypeOK, MutexKept, JoinsForStart, HeldInside, Places, NoThread
  <2>2. MutexKept'
    BY DEF TypeOK, MutexKept, NoThread
  <2>3. JoinsForStart'
    BY DEF TypeOK, JoinsForStart
  <2>4. HeldInside'
    BY DEF TypeOK, MutexKept, JoinsForStart, HeldInside
  <2>5. IdKnown'
    BY DEF TypeOK, HeldInside, IdKnown, MutexKept, NoThread
  <2>6. JoinedOnce'
    BY DEF TypeOK, HeldInside, IdKnown, JoinedOnce
  <2>7. HolderInside'
    BY DEF TypeOK, MutexKept, JoinsForStart, HeldInside, HolderInside
  <2>8. NeverJoinsItself'
    BY DEF TypeOK, NeverJoinsItself, Actors, NoThread, Ids
  <2> QED BY <2>1, <2>2, <2>3, <2>4, <2>5, <2>6, <2>7, <2>8
<1>11. ASSUME NEW a \in Actors, PthreadJoinAgain(a) PROVE IInv'
  BY <1>11 DEF PthreadJoinAgain, TypeOK, Places, NoThread, MutexKept,
     JoinsForStart, HeldInside, IdKnown, JoinedOnce, HolderInside, NeverJoinsItself
<1>12. ASSUME NEW a \in Actors, Forget(a) PROVE IInv'
  <2> USE <1>12 DEF Forget
  <2>1. TypeOK'
    BY DEF TypeOK, MutexKept, JoinsForStart, HeldInside, Places, NoThread
  <2>2. MutexKept'
    BY DEF TypeOK, MutexKept, NoThread
  <2>3. JoinsForStart'
    BY DEF TypeOK, JoinsForStart
  <2>4. HeldInside'
    BY DEF TypeOK, MutexKept, JoinsForStart, HeldInside
  <2>5. IdKnown'
    BY DEF TypeOK, HeldInside, IdKnown, MutexKept, NoThread
  <2>6. JoinedOnce'
    BY DEF TypeOK, HeldInside, IdKnown, JoinedOnce
  <2>7. HolderInside'
    BY DEF TypeOK, MutexKept, JoinsForStart, HeldInside, HolderInside
  <2>8. NeverJoinsItself'
    BY DEF TypeOK, NeverJoinsItself, Actors, NoThread, Ids
  <2> QED BY <2>1, <2>2, <2>3, <2>4, <2>5, <2>6, <2>7, <2>8
<1>13. ASSUME NEW a \in Actors, UnlockJoin(a) PROVE IInv'
  <2> USE <1>13 DEF UnlockJoin, lock_!Unlock, lock_!MayUnlock
  <2>1. TypeOK'
    BY DEF TypeOK, MutexKept, JoinsForStart, HeldInside, Places, NoThread
  <2>2. MutexKept'
    BY DEF TypeOK, MutexKept, NoThread
  <2>3. JoinsForStart'
    BY DEF TypeOK, JoinsForStart
  <2>4. HeldInside'
    <3> SUFFICES ASSUME ~gaveUp, ~gaveUp', NEW b \in Actors
                 PROVE  /\ Inside(b)' <=> holder' = b
                        /\ recursive /\ Inside(b)' =>
                              depth' = IF b \in starting' /\ pc'[b] # "relock" THEN 2 ELSE 1
      BY DEF HeldInside
    <3>1. holder = a /\ Inside(a)
      BY DEF HeldInside
    <3>2. CASE a \in starting
      <4>1. recursive /\ depth = 2
        BY <3>1, <3>2 DEF HeldInside
      <4>2. holder' = a /\ depth' = 1 /\ pc' = [pc EXCEPT ![a] = "create"] /\ a \notin starting'
        BY <3>1, <3>2, <4>1
      <4> QED BY <3>1, <4>1, <4>2 DEF HeldInside, TypeOK
    <3>3. CASE a \notin starting
      <4>1. recursive => depth = 1
        BY <3>1, <3>3 DEF HeldInside
      <4>2. holder' = NoThread /\ pc' = [pc EXCEPT ![a] = "out"]
        BY <3>1, <3>3, <4>1
      <4> QED BY <3>1, <4>2 DEF HeldInside, TypeOK
    <3> QED BY <3>2, <3>3
  <2>5. IdKnown'
    BY DEF TypeOK, HeldInside, IdKnown, MutexKept, NoThread
  <2>6. JoinedOnce'
    BY DEF TypeOK, HeldInside, IdKnown, JoinedOnce
  <2>7. HolderInside'
    BY DEF TypeOK, MutexKept, JoinsForStart, HeldInside, HolderInside
  <2>8. NeverJoinsItself'
    BY DEF TypeOK, NeverJoinsItself, Actors, NoThread, Ids
  <2> QED BY <2>1, <2>2, <2>3, <2>4, <2>5, <2>6, <2>7, <2>8
<1>14. ASSUME NEW a \in Actors, CallCancel(a) PROVE IInv'
  <2>1. /\ a \in Actors /\ pc[a] = "out" /\ pc' = [pc EXCEPT ![a] = "cancel"]
        /\ a \in Ids => thread[a] = "running"
        /\ UNCHANGED <<recursive, holder, depth, m_Owner, m_id, thread, starting, cancelled,
                      restarted, gaveUp, process>>
    BY <1>14 DEF CallCancel, CanCall
  <2> USE <2>1
  <2>2. TypeOK'
    BY DEF TypeOK, Places
  <2>3. MutexKept' /\ JoinsForStart'
    BY DEF TypeOK, MutexKept, JoinsForStart
  <2>4. HeldInside'
    BY DEF TypeOK, HeldInside
  <2>5. IdKnown' /\ JoinedOnce'
    BY DEF TypeOK, IdKnown, JoinedOnce
  <2>6. HolderInside'
    BY DEF TypeOK, HolderInside
  <2>7. NeverJoinsItself'
    BY DEF TypeOK, NeverJoinsItself
  <2> QED BY <2>2, <2>3, <2>4, <2>5, <2>6, <2>7
<1>15. ASSUME NEW a \in Actors, PthreadCancel(a) PROVE IInv'
  BY <1>15 DEF PthreadCancel, TypeOK, Places, NoThread, MutexKept,
     JoinsForStart, HeldInside, IdKnown, JoinedOnce, HolderInside, NeverJoinsItself
<1>16. ASSUME NEW i \in Ids, RunEnds(i) PROVE IInv'
  BY <1>16 DEF RunEnds, TypeOK, Places, NoThread, MutexKept,
     JoinsForStart, HeldInside, IdKnown, JoinedOnce, HolderInside, NeverJoinsItself
<1>17. ASSUME NEW i \in Ids, Unwinds(i) PROVE IInv'
  BY <1>17 DEF Unwinds, TypeOK, Places, NoThread, MutexKept,
     JoinsForStart, HeldInside, IdKnown, JoinedOnce, HolderInside, NeverJoinsItself
<1>18. CASE UNCHANGED vars
  BY <1>18 DEF vars, TypeOK, MutexKept, JoinsForStart, HeldInside, IdKnown, JoinedOnce, HolderInside,
     NeverJoinsItself, Inside
<1> QED
  BY <1>1, <1>2, <1>3, <1>4, <1>5, <1>6, <1>7, <1>8, <1>9, <1>10, <1>11, <1>12, <1>13, <1>14, <1>15, <1>16, <1>17, <1>18
  DEF Next, Up, Takes, Goes

-----------------------------------------------------------------------------
(* What holds in every reachable state *)

\* The lock, m_id and the threads of the system agree, in both builds of the mutex, for
\* any number of callers and of threads.
THEOREM ThreadsCorrect == Spec => []IInv
<1>1. Init => IInv
  <2> SUFFICES ASSUME Init PROVE IInv
    OBVIOUS
  <2>1. TypeOK
    <3>1. thread \in [Ids -> {"none", "running", "ended", "joined"}] /\ pc \in [Actors -> Places]
      BY DEF Init, Places
    <3>2. depth \in 0..2
      BY DEF Init
    <3> QED BY <3>1, <3>2, Zenon DEF Init, TypeOK
  <2>2. MutexKept /\ JoinsForStart /\ HeldInside
    BY ActorsExist DEF Init, MutexKept, JoinsForStart, HeldInside, Inside
  <2>3. IdKnown /\ JoinedOnce
    BY DEF Init, IdKnown, JoinedOnce
  <2>4. HolderInside /\ NeverJoinsItself
    BY ActorsExist DEF Init, HolderInside, NeverJoinsItself, Actors, Inside, NoThread, Ids
  <2> QED BY <2>1, <2>2, <2>3, <2>4 DEF IInv
<1> QED BY <1>1, Step, PTL DEF Spec

\* Every reachable state is well typed: no lock is taken a third time (mutex.cpp:81).
THEOREM TypesCorrect == Spec => []TypeOK
<1>1. IInv => TypeOK
  BY DEF IInv
<1> QED BY <1>1, ThreadsCorrect, PTL

\* start() and join() exclude each other (thread.cpp:299, :355).
THEOREM CallsExclude == Spec => []Exclusive
<1>1. IInv => Exclusive
  BY DEF IInv, HeldInside, Exclusive
<1> QED BY <1>1, ThreadsCorrect, PTL

\* Each thread of the object is joined once.
THEOREM ThreadsJoinedOnce == Spec => []JoinedOnce
<1>1. IInv => JoinedOnce
  BY DEF IInv
<1> QED BY <1>1, ThreadsCorrect, PTL

\* Nobody waits for one that waits for it: of two that wait for lock_, neither holds it,
\* and the thread that a join() waits for waits for nothing, unless it starts its own
\* object anew at that moment (thread.cpp:299, :355-360, mutex.cpp:81).
THEOREM WaitsAreNotCircular == Spec => []NoCircularWait
<1>1. IInv => NoCircularWait
  <2> SUFFICES ASSUME IInv, ~BlocksItself, NEW a \in Actors
               PROVE  /\ WaitsForLock(a) => \E b \in Actors :
                            holder = b /\ Inside(b) /\ ~WaitsForLock(b)
                      /\ WaitsForThread(a) => ~WaitsForLock(m_id) /\ ~WaitsForThread(m_id)
    BY DEF NoCircularWait
  <2> USE DEF IInv
  <2>1. ASSUME WaitsForLock(a) PROVE holder \in Actors /\ Inside(holder) /\ ~WaitsForLock(holder)
    <3>1. holder \in Actors
      BY <2>1 DEF WaitsForLock, lock_!MayLock, TypeOK
    <3>2. Inside(holder)
      BY <3>1 DEF HolderInside
    <3>3. lock_!MayLock(holder)
      BY DEF lock_!MayLock, MutexKept
    <3> QED
      BY <3>1, <3>2, <3>3 DEF WaitsForLock
  <2>2. ASSUME WaitsForThread(a) PROVE ~WaitsForLock(m_id) /\ ~WaitsForThread(m_id)
    <3>1. m_id \in Ids /\ pc[m_id] \in {"out", "start", "create", "unlock", "cancel"} /\ pc[a] = "join"
      BY <2>2 DEF WaitsForThread, TypeOK, NeverJoinsItself
    <3>2. pc[m_id] # "start"
      BY <3>1 DEF BlocksItself
    <3> QED
      BY <3>1, <3>2 DEF WaitsForLock, WaitsForThread
  <2> QED
    BY <2>1, <2>2
<1> QED BY <1>1, ThreadsCorrect, PTL

\* Whoever can make its next step: a call that waits for nothing, or a run() that may end
CanGo(b) ==
    IF pc[b] = "out" THEN b \in Ids /\ thread[b] = "running"
    ELSE ~WaitsForLock(b) /\ ~WaitsForThread(b)

SomebodyGoesOn ==
    process = "up" /\ ~BlocksItself /\ (\E a \in Actors : pc[a] # "out") =>
        \E b \in Actors : CanGo(b)

\* As long as a call is in progress, somebody can go on: the call, the holder of lock_ or
\* the thread that the holder joins.  Nothing else is needed for the calls to return but
\* that those who can go on do (thread.cpp:355-360).
THEOREM CallsCanGoOn == Spec => []SomebodyGoesOn
<1>1. IInv /\ NoCircularWait => SomebodyGoesOn
  <2> SUFFICES ASSUME IInv, NoCircularWait, process = "up", ~BlocksItself,
                      NEW a \in Actors, pc[a] # "out"
               PROVE  \E b \in Actors : CanGo(b)
    BY DEF SomebodyGoesOn
  <2>1. ASSUME NEW b \in Actors, WaitsForThread(b) PROVE CanGo(m_id)
    <3>1. m_id \in Ids /\ thread[m_id] = "running"
      BY <2>1 DEF WaitsForThread, IInv, TypeOK
    <3> QED
      BY <2>1, <3>1 DEF NoCircularWait, CanGo
  <2>2. ASSUME NEW b \in Actors, WaitsForThread(b) PROVE m_id \in Actors
    BY <2>2 DEF WaitsForThread, IInv, TypeOK, Actors
  <2>3. CASE WaitsForLock(a)
    <3>1. PICK b \in Actors : Inside(b) /\ ~WaitsForLock(b)
      BY <2>3 DEF NoCircularWait
    <3>2. pc[b] # "out"
      BY <3>1 DEF Inside
    <3> QED
      BY <2>1, <2>2, <3>1, <3>2 DEF CanGo
  <2> QED
    BY <2>1, <2>2, <2>3 DEF CanGo
<1> QED BY <1>1, ThreadsCorrect, WaitsAreNotCircular, PTL

=============================================================================
