------------------------------- MODULE Mutex -------------------------------
(***************************************************************************)
(* class Mutex (mutex.cpp).  The Linux build asks the system for a         *)
(* recursive mutex; elsewhere the mutex is a normal one and the class      *)
(* itself remembers the owner, so that a thread may lock it again.         *)
(***************************************************************************)
EXTENDS Integers

CONSTANT NoThread

VARIABLES
    recursive,      \* the build: the mutex of the system is recursive
    holder,         \* the mutex of the system: the thread that holds it
    depth,          \*   and how often it has locked it
    m_Owner

\* pthread_mutex_trylock(), and pthread_mutex_lock() when it comes to return.
TryLock(t) ==
    /\ holder = NoThread \/ (recursive /\ holder = t)
    /\ holder' = t
    /\ depth' = depth + 1

\* Mutant: the owner is not looked at, a nested lock waits for itself.
Lock_NotNested(t) ==
    /\ TryLock(t)
    /\ m_Owner' = t

\* A thread that finds itself to be the owner goes on without locking.
Lock(t) ==
    /\ \/ TryLock(t)
       \/ /\ holder # NoThread /\ ~(recursive /\ holder = t)
          /\ m_Owner = t
          /\ UNCHANGED <<holder, depth>>
    /\ m_Owner' = t

\* When Lock() returns at once
MayLock(t) == holder = NoThread \/ (recursive /\ holder = t) \/ m_Owner = t

\* Only the holder may unlock; with a normal mutex a further unlock of a free one passes.
MayUnlock(t) == holder = t \/ (~recursive /\ holder = NoThread)

Unlock(t) ==
    /\ MayUnlock(t)
    /\ m_Owner' = NoThread
    /\ IF recursive /\ depth > 1
       THEN depth' = depth - 1 /\ UNCHANGED holder
       ELSE depth' = 0 /\ holder' = NoThread

=============================================================================
