----------------------------- MODULE RefCounted -----------------------------
(***************************************************************************)
(* RefCounted and RefCountedPtr.  A call on a pointer is a list of steps:  *)
(* it takes a reference to its new object, gives back the one to its old,  *)
(* and stores the new address.  Where increment() and decrement() are the  *)
(* interlocked ones (WIN32) each is one step; in the other build each      *)
(* reads the count in one step and writes it in another.                   *)
(*                                                                         *)
(* As in the programs, a RefCountedPtr is written by one thread at a time; *)
(* others may copy it between two writes.                                  *)
(***************************************************************************)
EXTENDS Integers, FiniteSets, FiniteSetsExt, SequencesExt

CONSTANTS
    Objects,        \* what `new` returns
    Pointers,       \* variables of type RefCountedPtr
    Threads,
    Null,
    MaxRaw          \* bound: references to an object that no pointer holds

ASSUME RefCountedAssumption ==
    /\ Null \notin Objects /\ MaxRaw \in Nat \ {0}
    /\ IsFiniteSet(Pointers) /\ IsFiniteSet(Threads)

VARIABLES
    interlocked,    \* the build
    m_nRef,
    m_pI,
    raw,            \* references held by nobody's pointer: new, abandon(), add_ref()
    born, freed,    \* objects created, objects deleted
    todo,           \* the steps of each thread's call that are still to do
    read,           \* the count a thread has read and not yet written, or NotRead
    raced           \* a count was written between another thread's read and write of it

vars == <<interlocked, m_nRef, m_pI, raw, born, freed, todo, read, raced>>

NotRead == -1
Add(o, q) == [do |-> "add", at |-> o, from |-> q]
Release(o) == [do |-> "release", at |-> o]
Store(p, o) == [do |-> "store", at |-> p, what |-> o]
Leave(o) == [do |-> "leave", at |-> o]

TypeOK ==
    /\ interlocked \in BOOLEAN /\ raced \in BOOLEAN
    /\ m_nRef \in [Objects -> Nat]
    /\ m_pI \in [Pointers -> Objects \cup {Null}]
    /\ raw \in [Objects -> 0..MaxRaw]
    /\ freed \subseteq born /\ born \subseteq Objects
    /\ \A t \in Threads :
          /\ Len(todo[t]) <= 3
          /\ read[t] # NotRead => todo[t] # <<>> /\ Head(todo[t]).do \in {"add", "release"}

Init ==
    /\ interlocked \in BOOLEAN
    /\ m_nRef = [o \in Objects |-> 0]
    /\ m_pI = [p \in Pointers |-> Null]
    /\ raw = [o \in Objects |-> 0]
    /\ born = {} /\ freed = {}
    /\ todo = [t \in Threads |-> <<>>]
    /\ read = [t \in Threads |-> NotRead]
    /\ raced = FALSE

Idle(t) == todo[t] = <<>>

StillToDo == UNION {ToSet(todo[t]) : t \in Threads}

\* No call on p is under way, and none copies it.
Readable(p) == \A s \in StillToDo : s.do = "store" => s.at # p
Writable(p) == Readable(p) /\ \A s \in StillToDo : s.do = "add" => s.from # p

\* References to o that no pointer holds, or will not
Loose(o) == raw[o] + Cardinality({t \in Threads : Leave(o) \in ToSet(todo[t])})

Begin(t, steps) ==
    /\ Idle(t)
    /\ todo' = [todo EXCEPT ![t] = steps]
    /\ UNCHANGED <<interlocked, m_nRef, m_pI, born, freed, read, raced>>

Taking(o, q) == IF o = Null THEN <<>> ELSE <<Add(o, q)>>
Giving(o) == IF o = Null THEN <<>> ELSE <<Release(o)>>

-----------------------------------------------------------------------------
(* The calls *)

New(t, o) ==
    /\ Idle(t) /\ o \notin born
    /\ born' = born \cup {o}
    /\ m_nRef' = [m_nRef EXCEPT ![o] = 1]
    /\ raw' = [raw EXCEPT ![o] = 1]
    /\ UNCHANGED <<interlocked, m_pI, freed, todo, read, raced>>

\* RefCountedPtr(T*) and reset(T*, false): the pointer takes over a reference.
Adopt(t, p, o) ==
    /\ Writable(p) /\ raw[o] > 0
    /\ raw' = [raw EXCEPT ![o] = @ - 1]
    /\ Begin(t, Giving(m_pI[p]) \o <<Store(p, o)>>)

\* Mutant: the old object is given back before the new one is taken.
ResetSteps_Swapped(p, q) == Giving(m_pI[p]) \o Taking(m_pI[q], q) \o <<Store(p, m_pI[q])>>

ResetSteps(p, q) == Taking(m_pI[q], q) \o Giving(m_pI[p]) \o <<Store(p, m_pI[q])>>

\* operator=, the copy constructors and reset(), from q, which may be p itself.
Reset(t, p, q) ==
    /\ Writable(p) /\ Readable(q)
    /\ Begin(t, ResetSteps(p, q))
    /\ UNCHANGED raw

\* A destructor, or reset() to nothing.
Drop(t, p) ==
    /\ Writable(p) /\ m_pI[p] # Null
    /\ Begin(t, Giving(m_pI[p]) \o <<Store(p, Null)>>)
    /\ UNCHANGED raw

Abandon(t, p) ==
    /\ Idle(t) /\ Writable(p) /\ m_pI[p] # Null /\ Loose(m_pI[p]) < MaxRaw
    /\ raw' = [raw EXCEPT ![m_pI[p]] = @ + 1]
    /\ m_pI' = [m_pI EXCEPT ![p] = Null]
    /\ UNCHANGED <<interlocked, m_nRef, born, freed, todo, read, raced>>

\* add_ref() and release() called on the object itself
CallAddRef(t, p) ==
    /\ Readable(p) /\ m_pI[p] # Null
    /\ Loose(m_pI[p]) < MaxRaw
    /\ Begin(t, <<Add(m_pI[p], p), Leave(m_pI[p])>>)
    /\ UNCHANGED raw

CallRelease(t, o) ==
    /\ raw[o] > 0
    /\ raw' = [raw EXCEPT ![o] = @ - 1]
    /\ Begin(t, <<Release(o)>>)

-----------------------------------------------------------------------------
(* Their steps *)

Does(t) == IF Idle(t) THEN "nothing" ELSE Head(todo[t]).do
Counts(t, o) == Does(t) \in {"add", "release"} /\ Head(todo[t]).at = o

ReadCount(t, o) ==
    /\ Counts(t, o) /\ ~interlocked /\ read[t] = NotRead
    /\ read' = [read EXCEPT ![t] = m_nRef[o]]
    /\ UNCHANGED <<interlocked, m_nRef, m_pI, raw, born, freed, todo, raced>>

Counted(t, from) == IF Head(todo[t]).do = "add" THEN from + 1 ELSE from - 1

IsLast(t, n) == Head(todo[t]).do = "release" /\ n = 0

WriteCount(t, o) ==
    /\ Counts(t, o)
    /\ interlocked \/ read[t] # NotRead
    /\ LET n == Counted(t, IF interlocked THEN m_nRef[o] ELSE read[t])
       IN  /\ m_nRef' = [m_nRef EXCEPT ![o] = n]
           /\ freed' = IF IsLast(t, n) THEN freed \cup {o} ELSE freed
    /\ todo' = [todo EXCEPT ![t] = Tail(@)]
    /\ read' = [read EXCEPT ![t] = NotRead]
    /\ raced' = (raced \/ \E u \in Threads \ {t} : Counts(u, o) /\ read[u] # NotRead)
    /\ UNCHANGED <<interlocked, m_pI, raw, born>>

StoreAddress(t) ==
    /\ Does(t) = "store"
    /\ m_pI' = [m_pI EXCEPT ![Head(todo[t]).at] = Head(todo[t]).what]
    /\ todo' = [todo EXCEPT ![t] = Tail(@)]
    /\ UNCHANGED <<interlocked, m_nRef, raw, born, freed, read, raced>>

LeaveReference(t) ==
    /\ Does(t) = "leave"
    /\ raw' = [raw EXCEPT ![Head(todo[t]).at] = @ + 1]
    /\ todo' = [todo EXCEPT ![t] = Tail(@)]
    /\ UNCHANGED <<interlocked, m_nRef, m_pI, born, freed, read, raced>>

-----------------------------------------------------------------------------

\* After a race the count may be anything: such behaviours end there.
Next ==
    /\ ~raced
    /\ \E t \in Threads :
          \/ StoreAddress(t) \/ LeaveReference(t)
          \/ \E o \in Objects :
                New(t, o) \/ CallRelease(t, o) \/ ReadCount(t, o) \/ WriteCount(t, o)
          \/ \E p \in Pointers :
                \/ Abandon(t, p) \/ Drop(t, p) \/ CallAddRef(t, p)
                \/ \E o \in Objects : Adopt(t, p, o)
                \/ \E q \in Pointers : Reset(t, p, q)

Spec == Init /\ [][Next]_vars

-----------------------------------------------------------------------------
(* Properties *)

Held(o) == raw[o] > 0 \/ \E p \in Pointers : Readable(p) /\ m_pI[p] = o

\* "safe increment", "safe decrement" (refcounted.h:17-20).  An object that a pointer or a
\* caller holds has not been deleted, nor has one whose count a call under way is about to
\* touch, also when a pointer is assigned itself (refcounted.h:66-79); when no call is under
\* way, each object that nobody holds has been: no release is missed, by whatever way a
\* reference went through abandon(), adoption and add_ref().  In the build without
\* interlocked operations that ends where two threads count one object at once.
FreedOnceUnheld ==
    raced \/
        /\ \A o \in freed : ~Held(o) /\ \A t \in Threads : ~Counts(t, o)
        /\ (\A t \in Threads : Idle(t)) => \A o \in born : Held(o) \/ o \in freed

=============================================================================
