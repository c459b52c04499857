-------------------------- MODULE RefCountedProofs --------------------------
(***************************************************************************)
(* Theorems about RefCounted, for every set of objects, every finite set   *)
(* of pointers and threads, and both builds.                               *)
(***************************************************************************)
EXTENDS RefCounted, FiniteSetTheorems, SequenceTheorems, TLAPS

-----------------------------------------------------------------------------
(* What is still to do in a call *)

\* It will give back a reference to o,
Gives(s, o) == \E a \in ToSet(s) : a.do = "release" /\ a.at = o

\* take one to o from the pointer q,
Copies(s, o, q) == \E a \in ToSet(s) : a.do = "add" /\ a.at = o /\ a.from = q

\* write the pointer p,
Writes(s, p) == \E a \in ToSet(s) : a.do = "store" /\ a.at = p

\* leave a reference to o to its caller.
Leaves(s, o) == Leave(o) \in ToSet(s)

\* It has a reference to o that is not in a pointer yet.
Has(s, o) ==
    /\ Leaves(s, o) \/ \E a \in ToSet(s) : a.do = "store" /\ a.what = o
    /\ ~\E a \in ToSet(s) : a.do = "add"

\* What a call may still have to do, that works on objects of B
Shape(s, B) ==
    \/ s = <<>>
    \/ \E p \in Pointers, w \in B \cup {Null} : s = <<Store(p, w)>>
    \/ \E p \in Pointers, x \in B, w \in B \cup {Null} : s = <<Release(x), Store(p, w)>>
    \/ \E p, q \in Pointers, o \in B : s = <<Add(o, q), Store(p, o)>>
    \/ \E p, q \in Pointers, o, x \in B : s = <<Add(o, q), Release(x), Store(p, o)>>
    \/ \E q \in Pointers, o \in B : s = <<Add(o, q), Leave(o)>>
    \/ \E o \in B : s = <<Leave(o)>>
    \/ \E o \in B : s = <<Release(o)>>

-----------------------------------------------------------------------------
(* The inductive invariant *)

\* The references to o: those of pointers, and those of calls
Pointing(o) == {p \in Pointers : Readable(p) /\ m_pI[p] = o}
Givers(o) == {t \in Threads : Gives(todo[t], o)}
Havers(o) == {t \in Threads : Has(todo[t], o)}
Leavers(o) == {t \in Threads : Leaves(todo[t], o)}

Typed ==
    /\ interlocked \in BOOLEAN /\ raced \in BOOLEAN
    /\ m_nRef \in [Objects -> Nat]
    /\ m_pI \in [Pointers -> born \cup {Null}]
    /\ raw \in [Objects -> Nat]
    /\ freed \subseteq born /\ born \subseteq Objects
    /\ todo = [t \in Threads |-> todo[t]]
    /\ \A t \in Threads : Shape(todo[t], born)
    /\ read \in [Threads -> Nat \cup {NotRead}]
    /\ \A t \in Threads : read[t] # NotRead => Does(t) \in {"add", "release"}

\* A pointer is written by one call at a time, and stays as it is while it is copied: it
\* holds a reference to what is taken from it, or the copying call itself still does.
WrittenAlone ==
    \A t, u \in Threads, p \in Pointers :
        Writes(todo[t], p) /\ Writes(todo[u], p) => t = u

CopiedWhole ==
    \A t \in Threads, o \in Objects, q \in Pointers : Copies(todo[t], o, q) =>
        /\ m_pI[q] = o
        /\ Readable(q) \/ (Gives(todo[t], o) /\ Writes(todo[t], q))

\* A count that was read is still the count.
ReadsValid ==
    raced \/ \A t \in Threads, o \in Objects :
        read[t] # NotRead /\ Counts(t, o) => read[t] = m_nRef[o]

\* The count of o is the number of references to it.
Balanced ==
    \A o \in Objects :
        m_nRef[o] = raw[o] + Cardinality(Pointing(o)) + Cardinality(Givers(o))
                        + Cardinality(Havers(o))

\* Deleted are the objects that no reference is left to.
FreedAtZero == \A o \in Objects : m_nRef[o] = 0 <=> o \in freed \/ o \notin born

RawBounded == \A o \in Objects : raw[o] + Cardinality(Leavers(o)) <= MaxRaw

IInv ==
    /\ Typed /\ WrittenAlone /\ CopiedWhole /\ ReadsValid
    /\ Balanced /\ FreedAtZero /\ RawBounded

-----------------------------------------------------------------------------
(* What each list of steps has to do *)

\* The members of short sequences
LEMMA SetsOf ==
    ASSUME NEW a, NEW b, NEW c
    PROVE  /\ ToSet(<<>>) = {} /\ ToSet(<<a>>) = {a}
           /\ ToSet(<<a, b>>) = {a, b} /\ ToSet(<<a, b, c>>) = {a, b, c}
BY DEF ToSet

\* A call that has ended
LEMMA OfNothing ==
           LET s == <<>> IN
           /\ \A o : ~Gives(s, o)
           /\ \A o : ~Leaves(s, o)
           /\ \A q : ~Writes(s, q)
           /\ \A o : ~Has(s, o)
           /\ \A o, q : ~Copies(s, o, q)
BY SetsOf DEF Gives, Copies, Writes, Leaves, Has

\* The last step of a pointer's call
LEMMA OfStore ==
    ASSUME NEW p, NEW w
    PROVE  LET s == <<Store(p, w)>> IN
           /\ \A o : ~Gives(s, o)
           /\ \A o : ~Leaves(s, o)
           /\ \A q : Writes(s, q) <=> q = p
           /\ \A o : Has(s, o) <=> o = w
           /\ \A o, q : ~Copies(s, o, q)
<1> DEFINE s == <<Store(p, w)>>
<1>1. ToSet(s) = {Store(p, w)}
  BY SetsOf
<1> HIDE DEF s
<1> QED BY <1>1 DEF Gives, Copies, Writes, Leaves, Has, Leave, Store, s

\* The old object is still to be given back.
LEMMA OfReleaseStore ==
    ASSUME NEW x, NEW p, NEW w
    PROVE  LET s == <<Release(x), Store(p, w)>> IN
           /\ \A o : Gives(s, o) <=> o = x
           /\ \A o : ~Leaves(s, o)
           /\ \A q : Writes(s, q) <=> q = p
           /\ \A o : Has(s, o) <=> o = w
           /\ \A o, q : ~Copies(s, o, q)
<1> DEFINE s == <<Release(x), Store(p, w)>>
<1>1. ToSet(s) = {Release(x), Store(p, w)}
  BY SetsOf
<1> HIDE DEF s
<1> QED BY <1>1 DEF Gives, Copies, Writes, Leaves, Has, Leave, Release, Store, s

\* A null pointer takes a reference.
LEMMA OfAddStore ==
    ASSUME NEW y, NEW r, NEW p, NEW w
    PROVE  LET s == <<Add(y, r), Store(p, w)>> IN
           /\ \A o : ~Gives(s, o)
           /\ \A o : ~Leaves(s, o)
           /\ \A q : Writes(s, q) <=> q = p
           /\ \A o : ~Has(s, o)
           /\ \A o, q : Copies(s, o, q) <=> o = y /\ q = r
<1> DEFINE s == <<Add(y, r), Store(p, w)>>
<1>1. ToSet(s) = {Add(y, r), Store(p, w)}
  BY SetsOf
<1> HIDE DEF s
<1> QED BY <1>1 DEF Gives, Copies, Writes, Leaves, Has, Add, Leave, Store, s

\* A pointer takes another reference than it has.
LEMMA OfAddReleaseStore ==
    ASSUME NEW y, NEW r, NEW x, NEW p, NEW w
    PROVE  LET s == <<Add(y, r), Release(x), Store(p, w)>> IN
           /\ \A o : Gives(s, o) <=> o = x
           /\ \A o : ~Leaves(s, o)
           /\ \A q : Writes(s, q) <=> q = p
           /\ \A o : ~Has(s, o)
           /\ \A o, q : Copies(s, o, q) <=> o = y /\ q = r
<1> DEFINE s == <<Add(y, r), Release(x), Store(p, w)>>
<1>1. \A a, b, c : ToSet(<<a, b, c>>) = {a, b, c}
  BY DEF ToSet
<1>2. ToSet(s) = {Add(y, r), Release(x), Store(p, w)}
  BY ONLY <1>1 DEF s
<1> HIDE DEF s
<1> QED BY <1>2 DEF Gives, Copies, Writes, Leaves, Has, Add, Leave, Release, Store, s

\* add_ref() called on the object
LEMMA OfAddLeave ==
    ASSUME NEW y, NEW r
    PROVE  LET s == <<Add(y, r), Leave(y)>> IN
           /\ \A o : ~Gives(s, o)
           /\ \A o : Leaves(s, o) <=> o = y
           /\ \A q : ~Writes(s, q)
           /\ \A o : ~Has(s, o)
           /\ \A o, q : Copies(s, o, q) <=> o = y /\ q = r
<1> DEFINE s == <<Add(y, r), Leave(y)>>
<1>1. ToSet(s) = {Add(y, r), Leave(y)}
  BY SetsOf
<1> HIDE DEF s
<1> QED BY <1>1 DEF Gives, Copies, Writes, Leaves, Has, Add, Leave, s

\* add_ref() before it returns
LEMMA OfLeave ==
    ASSUME NEW y
    PROVE  LET s == <<Leave(y)>> IN
           /\ \A o : ~Gives(s, o)
           /\ \A o : Leaves(s, o) <=> o = y
           /\ \A q : ~Writes(s, q)
           /\ \A o : Has(s, o) <=> o = y
           /\ \A o, q : ~Copies(s, o, q)
<1> DEFINE s == <<Leave(y)>>
<1>1. ToSet(s) = {Leave(y)}
  BY SetsOf
<1> HIDE DEF s
<1> QED BY <1>1 DEF Gives, Copies, Writes, Leaves, Has, Leave, s

\* release() called on the object
LEMMA OfRelease ==
    ASSUME NEW x
    PROVE  LET s == <<Release(x)>> IN
           /\ \A o : Gives(s, o) <=> o = x
           /\ \A o : ~Leaves(s, o)
           /\ \A q : ~Writes(s, q)
           /\ \A o : ~Has(s, o)
           /\ \A o, q : ~Copies(s, o, q)
<1> DEFINE s == <<Release(x)>>
<1>1. ToSet(s) = {Release(x)}
  BY SetsOf
<1> HIDE DEF s
<1> QED BY <1>1 DEF Gives, Copies, Writes, Leaves, Has, Leave, Release, s

\* The first step of a list tells what the others are.
LEMMA Beginnings ==
    ASSUME NEW s, NEW B, Shape(s, B), s # <<>>
    PROVE  /\ Head(s).do = "add" => \E p, q \in Pointers, o, x \in B :
                 s \in {<<Add(o, q), Store(p, o)>>, <<Add(o, q), Release(x), Store(p, o)>>,
                        <<Add(o, q), Leave(o)>>}
           /\ Head(s).do = "release" =>
                 \/ \E x \in B : s = <<Release(x)>>
                 \/ \E p \in Pointers, x \in B, w \in B \cup {Null} :
                       s = <<Release(x), Store(p, w)>>
           /\ Head(s).do = "store" => \E p \in Pointers, w \in B \cup {Null} :
                 s = <<Store(p, w)>>
           /\ Head(s).do = "leave" => \E o \in B : s = <<Leave(o)>>
           /\ Head(s).do \in {"add", "release"} => Head(s).at \in B
           /\ Head(s).do \in {"add", "release", "store", "leave"}
<1>1. CASE \E p \in Pointers, w \in B \cup {Null} : s = <<Store(p, w)>>
  BY <1>1 DEF Store
<1>2. CASE \E p \in Pointers, x \in B, w \in B \cup {Null} : s = <<Release(x), Store(p, w)>>
  BY <1>2 DEF Release
<1>3. CASE \E p, q \in Pointers, o \in B : s = <<Add(o, q), Store(p, o)>>
  BY <1>3 DEF Add
<1>4. CASE \E p, q \in Pointers, o, x \in B : s = <<Add(o, q), Release(x), Store(p, o)>>
  BY <1>4 DEF Add
<1>5. CASE \E q \in Pointers, o \in B : s = <<Add(o, q), Leave(o)>>
  BY <1>5 DEF Add
<1>6. CASE \E o \in B : s = <<Leave(o)>>
  BY <1>6 DEF Leave
<1>7. CASE \E o \in B : s = <<Release(o)>>
  BY <1>7 DEF Release
<1> QED BY <1>1, <1>2, <1>3, <1>4, <1>5, <1>6, <1>7 DEF Shape

\* A call that has taken its reference has it, and no longer copies.
LEMMA AfterAdd ==
    ASSUME NEW s, NEW B, Shape(s, B), s # <<>>, Head(s).do = "add"
    PROVE  /\ Shape(Tail(s), B)
           /\ \E q \in Pointers : \A y, r : Copies(s, y, r) <=> y = Head(s).at /\ r = q
           /\ \A y : /\ \A r : ~Copies(Tail(s), y, r)
                     /\ ~Has(s, y) /\ (Has(Tail(s), y) <=> y = Head(s).at)
                     /\ Gives(Tail(s), y) <=> Gives(s, y)
                     /\ Leaves(Tail(s), y) <=> Leaves(s, y)
                     /\ Writes(Tail(s), y) <=> Writes(s, y)
<1>1. PICK p \in Pointers, q \in Pointers, o \in B, x \in B :
          s \in {<<Add(o, q), Store(p, o)>>, <<Add(o, q), Release(x), Store(p, o)>>,
                 <<Add(o, q), Leave(o)>>}
  BY Beginnings
<1>2. Head(s).at = o
  BY <1>1 DEF Add
<1>3. CASE s = <<Add(o, q), Store(p, o)>>
  <2>1. Tail(s) = <<Store(p, o)>>
    BY <1>3
  <2>2. Shape(Tail(s), B)
    BY <2>1 DEF Shape
  <2> QED BY <1>2, <1>3, <2>1, <2>2, OfAddStore, OfStore
<1>4. CASE s = <<Add(o, q), Release(x), Store(p, o)>>
  <2>1. Tail(s) = <<Release(x), Store(p, o)>>
    BY <1>4
  <2>2. Shape(Tail(s), B)
    BY <2>1 DEF Shape
  <2> QED BY <1>2, <1>4, <2>1, <2>2, OfAddReleaseStore, OfReleaseStore
<1>5. CASE s = <<Add(o, q), Leave(o)>>
  <2>1. Tail(s) = <<Leave(o)>>
    BY <1>5
  <2>2. Shape(Tail(s), B)
    BY <2>1 DEF Shape
  <2> QED BY <1>2, <1>5, <2>1, <2>2, OfAddLeave, OfLeave
<1> QED BY <1>1, <1>3, <1>4, <1>5

\* A call that has given its reference back does not give it back again.
LEMMA AfterRelease ==
    ASSUME NEW s, NEW B, Shape(s, B), s # <<>>, Head(s).do = "release"
    PROVE  /\ Shape(Tail(s), B)
           /\ \A y : /\ \A r : ~Copies(s, y, r) /\ ~Copies(Tail(s), y, r)
                     /\ Has(Tail(s), y) <=> Has(s, y)
                     /\ (Gives(s, y) <=> y = Head(s).at) /\ ~Gives(Tail(s), y)
                     /\ Leaves(Tail(s), y) <=> Leaves(s, y)
                     /\ Writes(Tail(s), y) <=> Writes(s, y)
<1>1. \/ \E x \in B : s = <<Release(x)>>
      \/ \E p \in Pointers, x \in B, w \in B \cup {Null} : s = <<Release(x), Store(p, w)>>
  BY Beginnings
<1>2. ASSUME NEW x \in B, s = <<Release(x)>>
      PROVE  /\ Shape(Tail(s), B) /\ Head(s).at = x /\ Tail(s) = <<>>
  BY <1>2 DEF Shape, Release
<1>3. CASE \E x \in B : s = <<Release(x)>>
  BY <1>2, <1>3, OfRelease, OfNothing
<1>4. ASSUME NEW p \in Pointers, NEW x \in B, NEW w \in B \cup {Null},
             s = <<Release(x), Store(p, w)>>
      PROVE  /\ Shape(Tail(s), B) /\ Head(s).at = x /\ Tail(s) = <<Store(p, w)>>
  BY <1>4 DEF Shape, Release
<1>5. CASE \E p \in Pointers, x \in B, w \in B \cup {Null} : s = <<Release(x), Store(p, w)>>
  BY <1>4, <1>5, OfReleaseStore, OfStore
<1> QED BY <1>1, <1>3, <1>5

\* A call that has written its pointer is over,
LEMMA AfterStore ==
    ASSUME NEW s, NEW B, Shape(s, B), s # <<>>, Head(s).do = "store"
    PROVE  /\ Tail(s) = <<>>
           /\ Head(s).at \in Pointers /\ Head(s).what \in B \cup {Null}
           /\ \A y : /\ ~Gives(s, y) /\ ~Leaves(s, y) /\ \A r : ~Copies(s, y, r)
                     /\ Has(s, y) <=> y = Head(s).what
                     /\ Writes(s, y) <=> y = Head(s).at
<1>1. PICK p \in Pointers, w \in B \cup {Null} : s = <<Store(p, w)>>
  BY Beginnings
<1>2. Head(s).at = p /\ Head(s).what = w /\ Tail(s) = <<>>
  BY <1>1 DEF Store
<1> QED BY <1>1, <1>2, OfStore

\* and so is one that has left its reference to its caller.
LEMMA AfterLeave ==
    ASSUME NEW s, NEW B, Shape(s, B), s # <<>>, Head(s).do = "leave"
    PROVE  /\ Tail(s) = <<>> /\ Head(s).at \in B
           /\ \A y : /\ ~Gives(s, y) /\ ~Writes(s, y) /\ \A r : ~Copies(s, y, r)
                     /\ Has(s, y) <=> y = Head(s).at
                     /\ Leaves(s, y) <=> y = Head(s).at
<1>1. PICK o \in B : s = <<Leave(o)>>
  BY Beginnings
<1>2. Head(s).at = o /\ Tail(s) = <<>>
  BY <1>1 DEF Leave
<1> QED BY <1>1, <1>2, OfLeave

\* What a call works on exists,
LEMMA WorksOnKnown ==
    ASSUME NEW s, NEW B, Shape(s, B), NEW o
    PROVE  /\ Leaves(s, o) => o \in B
           /\ Gives(s, o) => o \in B
           /\ \A q : Copies(s, o, q) => o \in B /\ q \in Pointers
<1>1. CASE s = <<>>
  BY <1>1, OfNothing
<1>2. CASE \E p \in Pointers, w \in B \cup {Null} : s = <<Store(p, w)>>
  BY <1>2, OfStore
<1>3. CASE \E p \in Pointers, x \in B, w \in B \cup {Null} : s = <<Release(x), Store(p, w)>>
  BY <1>3, OfReleaseStore
<1>4. CASE \E p, q \in Pointers, y \in B : s = <<Add(y, q), Store(p, y)>>
  BY <1>4, OfAddStore
<1>5. CASE \E p, q \in Pointers, y, x \in B : s = <<Add(y, q), Release(x), Store(p, y)>>
  BY <1>5, OfAddReleaseStore
<1>6. CASE \E q \in Pointers, y \in B : s = <<Add(y, q), Leave(y)>>
  BY <1>6, OfAddLeave
<1>7. CASE \E y \in B : s = <<Leave(y)>>
  BY <1>7, OfLeave
<1>8. CASE \E y \in B : s = <<Release(y)>>
  BY <1>8, OfRelease
<1> QED BY <1>1, <1>2, <1>3, <1>4, <1>5, <1>6, <1>7, <1>8 DEF Shape

\* and goes on to exist.
LEMMA ShapeGrows ==
    ASSUME NEW s, NEW B, Shape(s, B), NEW C, B \subseteq C
    PROVE  Shape(s, C)
<1>1. CASE s = <<>>
  BY <1>1 DEF Shape
<1>2. CASE \E p \in Pointers, w \in B \cup {Null} : s = <<Store(p, w)>>
  <2>1. \E p \in Pointers, w \in C \cup {Null} : s = <<Store(p, w)>>
    BY <1>2
  <2> QED BY <2>1 DEF Shape
<1>3. CASE \E p \in Pointers, x \in B, w \in B \cup {Null} : s = <<Release(x), Store(p, w)>>
  <2>1. \E p \in Pointers, x \in C, w \in C \cup {Null} : s = <<Release(x), Store(p, w)>>
    BY <1>3
  <2> QED BY <2>1 DEF Shape
<1>4. CASE \E p, q \in Pointers, y \in B : s = <<Add(y, q), Store(p, y)>>
  <2>1. \E p, q \in Pointers, y \in C : s = <<Add(y, q), Store(p, y)>>
    BY <1>4
  <2> QED BY <2>1 DEF Shape
<1>5. CASE \E p, q \in Pointers, y, x \in B : s = <<Add(y, q), Release(x), Store(p, y)>>
  <2>1. \E p, q \in Pointers, y, x \in C : s = <<Add(y, q), Release(x), Store(p, y)>>
    BY <1>5
  <2> QED BY <2>1 DEF Shape
<1>6. CASE \E q \in Pointers, y \in B : s = <<Add(y, q), Leave(y)>>
  <2>1. \E q \in Pointers, y \in C : s = <<Add(y, q), Leave(y)>>
    BY <1>6
  <2> QED BY <2>1 DEF Shape
<1>7. CASE \E y \in B : s = <<Leave(y)>>
  BY <1>7 DEF Shape
<1>8. CASE \E y \in B : s = <<Release(y)>>
  BY <1>8 DEF Shape
<1> QED BY <1>1, <1>2, <1>3, <1>4, <1>5, <1>6, <1>7, <1>8 DEF Shape

-----------------------------------------------------------------------------
(* Counting references *)

\* A set with an element counts for one at least.
LEMMA Counting ==
    ASSUME NEW S, IsFiniteSet(S), NEW a \in S, NEW A \in SUBSET S, a \in A
    PROVE  Cardinality(A) >= 1
<1>1. IsFiniteSet(A) /\ IsFiniteSet(A \ {a})
  BY FS_Subset
<1>2. Cardinality(A) \in Nat /\ Cardinality(A \ {a}) \in Nat
  BY <1>1, FS_CardinalityType
<1>3. Cardinality(A \ {a}) = Cardinality(A) - 1
  BY <1>1, FS_RemoveElement
<1> QED BY <1>2, <1>3

\* Two sets that differ in a at most
LEMMA Differing ==
    ASSUME NEW S, IsFiniteSet(S), NEW a \in S, NEW A \in SUBSET S, NEW C \in SUBSET S,
           \A b \in S : b # a => (b \in C <=> b \in A)
    PROVE  /\ (a \in C <=> a \in A) => C = A
           /\ a \in C /\ a \notin A => Cardinality(C) = Cardinality(A) + 1
           /\ a \notin C /\ a \in A => Cardinality(C) = Cardinality(A) - 1
<1>1. (a \in C <=> a \in A) => C = A
  OBVIOUS
<1>2. a \in C /\ a \notin A => C = A \cup {a}
  OBVIOUS
<1>3. a \notin C /\ a \in A => C = A \ {a}
  OBVIOUS
<1>4. IsFiniteSet(A)
  BY FS_Subset
<1>5. a \notin A => Cardinality(A \cup {a}) = Cardinality(A) + 1
  BY <1>4, FS_AddElement
<1>6. a \in A => Cardinality(A \ {a}) = Cardinality(A) - 1
  BY <1>4, FS_RemoveElement
<1> QED BY ONLY <1>1, <1>2, <1>3, <1>5, <1>6

\* The references of each kind are finitely many.
LEMMA CountsAre ==
    ASSUME NEW o
    PROVE  /\ Cardinality(Pointing(o)) \in Nat /\ Cardinality(Givers(o)) \in Nat
           /\ Cardinality(Havers(o)) \in Nat /\ Cardinality(Leavers(o)) \in Nat
           /\ \A p \in Pointing(o) : Cardinality(Pointing(o)) >= 1
           /\ \A t \in Givers(o) : Cardinality(Givers(o)) >= 1
           /\ \A t \in Leavers(o) : Cardinality(Leavers(o)) >= 1
<1>1. /\ Pointing(o) \in SUBSET Pointers /\ Givers(o) \in SUBSET Threads
      /\ Havers(o) \in SUBSET Threads /\ Leavers(o) \in SUBSET Threads
  BY DEF Pointing, Givers, Havers, Leavers
<1>2. IsFiniteSet(Pointers) /\ IsFiniteSet(Threads)
  BY RefCountedAssumption
<1>3. \A S : S \in SUBSET Pointers \/ S \in SUBSET Threads => Cardinality(S) \in Nat
  BY <1>2, FS_Subset, FS_CardinalityType
<1>4. \A S : \A a \in S : S \in SUBSET Pointers \/ S \in SUBSET Threads => Cardinality(S) >= 1
  BY <1>2, Counting
<1> QED BY <1>1, <1>3, <1>4

\* A step of t's call changes what t counts for.
LEMMA CallChanges ==
    ASSUME NEW t \in Threads, \A u \in Threads : u # t => todo'[u] = todo[u], NEW o
    PROVE  /\ (Gives(todo'[t], o) <=> Gives(todo[t], o)) => Givers(o)' = Givers(o)
           /\ Gives(todo'[t], o) /\ ~Gives(todo[t], o) =>
                 Cardinality(Givers(o)') = Cardinality(Givers(o)) + 1
           /\ ~Gives(todo'[t], o) /\ Gives(todo[t], o) =>
                 Cardinality(Givers(o)') = Cardinality(Givers(o)) - 1
           /\ (Has(todo'[t], o) <=> Has(todo[t], o)) => Havers(o)' = Havers(o)
           /\ Has(todo'[t], o) /\ ~Has(todo[t], o) =>
                 Cardinality(Havers(o)') = Cardinality(Havers(o)) + 1
           /\ ~Has(todo'[t], o) /\ Has(todo[t], o) =>
                 Cardinality(Havers(o)') = Cardinality(Havers(o)) - 1
           /\ (Leaves(todo'[t], o) <=> Leaves(todo[t], o)) => Leavers(o)' = Leavers(o)
           /\ Leaves(todo'[t], o) /\ ~Leaves(todo[t], o) =>
                 Cardinality(Leavers(o)') = Cardinality(Leavers(o)) + 1
           /\ ~Leaves(todo'[t], o) /\ Leaves(todo[t], o) =>
                 Cardinality(Leavers(o)') = Cardinality(Leavers(o)) - 1
<1>1. IsFiniteSet(Threads)
  BY RefCountedAssumption
<1>2. /\ Givers(o) \in SUBSET Threads /\ Givers(o)' \in SUBSET Threads
      /\ \A u \in Threads : u # t => (u \in Givers(o)' <=> u \in Givers(o))
      /\ t \in Givers(o)' <=> Gives(todo'[t], o)
      /\ t \in Givers(o) <=> Gives(todo[t], o)
  BY DEF Givers
<1>3. /\ Havers(o) \in SUBSET Threads /\ Havers(o)' \in SUBSET Threads
      /\ \A u \in Threads : u # t => (u \in Havers(o)' <=> u \in Havers(o))
      /\ t \in Havers(o)' <=> Has(todo'[t], o)
      /\ t \in Havers(o) <=> Has(todo[t], o)
  BY DEF Havers
<1>4. /\ Leavers(o) \in SUBSET Threads /\ Leavers(o)' \in SUBSET Threads
      /\ \A u \in Threads : u # t => (u \in Leavers(o)' <=> u \in Leavers(o))
      /\ t \in Leavers(o)' <=> Leaves(todo'[t], o)
      /\ t \in Leavers(o) <=> Leaves(todo[t], o)
  BY DEF Leavers
<1>5. /\ (Gives(todo'[t], o) <=> Gives(todo[t], o)) => Givers(o)' = Givers(o)
      /\ Gives(todo'[t], o) /\ ~Gives(todo[t], o) =>
            Cardinality(Givers(o)') = Cardinality(Givers(o)) + 1
      /\ ~Gives(todo'[t], o) /\ Gives(todo[t], o) =>
            Cardinality(Givers(o)') = Cardinality(Givers(o)) - 1
  BY <1>1, <1>2, Differing
<1>6. /\ (Has(todo'[t], o) <=> Has(todo[t], o)) => Havers(o)' = Havers(o)
      /\ Has(todo'[t], o) /\ ~Has(todo[t], o) =>
            Cardinality(Havers(o)') = Cardinality(Havers(o)) + 1
      /\ ~Has(todo'[t], o) /\ Has(todo[t], o) =>
            Cardinality(Havers(o)') = Cardinality(Havers(o)) - 1
  BY <1>1, <1>3, Differing
<1>7. /\ (Leaves(todo'[t], o) <=> Leaves(todo[t], o)) => Leavers(o)' = Leavers(o)
      /\ Leaves(todo'[t], o) /\ ~Leaves(todo[t], o) =>
            Cardinality(Leavers(o)') = Cardinality(Leavers(o)) + 1
      /\ ~Leaves(todo'[t], o) /\ Leaves(todo[t], o) =>
            Cardinality(Leavers(o)') = Cardinality(Leavers(o)) - 1
  BY <1>1, <1>4, Differing
<1> QED BY <1>5, <1>6, <1>7

\* A pointer that changes points to something else.
LEMMA PointerChanges ==
    ASSUME NEW p \in Pointers, NEW o,
           \A q \in Pointers : q # p => (Readable(q)' <=> Readable(q)) /\ m_pI'[q] = m_pI[q]
    PROVE  LET isIn == Readable(p)' /\ m_pI'[p] = o
               wasIn == Readable(p) /\ m_pI[p] = o
           IN  /\ (isIn <=> wasIn) => Pointing(o)' = Pointing(o)
               /\ isIn /\ ~wasIn =>
                     Cardinality(Pointing(o)') = Cardinality(Pointing(o)) + 1
               /\ ~isIn /\ wasIn =>
                     Cardinality(Pointing(o)') = Cardinality(Pointing(o)) - 1
<1>1. IsFiniteSet(Pointers)
  BY RefCountedAssumption
<1>2. /\ Pointing(o) \in SUBSET Pointers /\ Pointing(o)' \in SUBSET Pointers
      /\ \A q \in Pointers : q # p => (q \in Pointing(o)' <=> q \in Pointing(o))
      /\ p \in Pointing(o)' <=> Readable(p)' /\ m_pI'[p] = o
      /\ p \in Pointing(o) <=> Readable(p) /\ m_pI[p] = o
  BY DEF Pointing
<1> QED BY <1>1, <1>2, Differing

\* A pointer that no call writes is readable; a writable one is not copied either.
LEMMA Readables ==
    ASSUME NEW p \in Pointers
    PROVE  /\ Readable(p) <=> \A u \in Threads : ~Writes(todo[u], p)
           /\ Readable(p)' <=> \A u \in Threads : ~Writes(todo'[u], p)
           /\ Writable(p) => Readable(p) /\ \A u \in Threads : \A o : ~Copies(todo[u], o, p)
<1>1. Readable(p) <=> \A u \in Threads : ~Writes(todo[u], p)
  BY DEF Readable, StillToDo, Writes
<1>2. Readable(p)' <=> \A u \in Threads : ~Writes(todo'[u], p)
  BY DEF Readable, StillToDo, Writes
<1>3. Writable(p) => Readable(p) /\ \A u \in Threads : \A o : ~Copies(todo[u], o, p)
  BY DEF Writable, StillToDo, Copies
<1> QED BY <1>1, <1>2, <1>3

-----------------------------------------------------------------------------
(* Every step keeps the invariant *)

\* The start of a call that writes the pointer p
LEMMA WriteBegins ==
    ASSUME IInv, NEW t \in Threads, NEW p \in Pointers, NEW s,
           Begin(t, s), Writable(p), Shape(s, born),
           \A o : ~Leaves(s, o),
           \A o \in Objects : Gives(s, o) <=> o = m_pI[p],
           \A q : Writes(s, q) <=> q = p,
           \A o, q : Copies(s, o, q) => Readable(q) /\ m_pI[q] = o,
           raw' \in [Objects -> Nat],
           \A o \in Objects : raw[o] = IF Has(s, o) THEN raw'[o] + 1 ELSE raw'[o]
    PROVE  IInv'
<1>1. /\ todo[t] = <<>> /\ read[t] = NotRead
      /\ todo' = [todo EXCEPT ![t] = s]
      /\ UNCHANGED <<interlocked, m_nRef, m_pI, born, freed, read, raced>>
  BY DEF Begin, Idle, IInv, Typed, Does
<1>2. todo'[t] = s /\ \A u \in Threads : u # t => todo'[u] = todo[u]
  BY <1>1 DEF IInv, Typed
<1>3. /\ Readable(p) /\ \A u \in Threads : ~Writes(todo[u], p)
      /\ \A u \in Threads : \A o : ~Copies(todo[u], o, p)
  BY Readables
<1>4. \A q \in Pointers : Readable(q)' <=> Readable(q) /\ q # p
  BY <1>1, <1>2, <1>3, Readables, OfNothing
<1>5. Typed'
  <2>1. todo' = [u \in Threads |-> todo'[u]]
    BY <1>1 DEF IInv, Typed
  <2>2. \A u \in Threads : Shape(todo'[u], born')
    BY <1>1, <1>2 DEF IInv, Typed
  <2>3. \A u \in Threads : read'[u] # NotRead => Does(u)' \in {"add", "release"}
    BY <1>1, <1>2 DEF IInv, Typed, Does, Idle
  <2> QED BY <1>1, <2>1, <2>2, <2>3 DEF IInv, Typed
<1>6. WrittenAlone'
  BY <1>2, <1>3 DEF IInv, WrittenAlone
<1>7. CopiedWhole'
  <2> SUFFICES ASSUME NEW u \in Threads, NEW o \in Objects, NEW q \in Pointers,
                      Copies(todo'[u], o, q)
               PROVE  /\ m_pI'[q] = o
                      /\ Readable(q)' \/ (Gives(todo'[u], o) /\ Writes(todo'[u], q))
    BY DEF CopiedWhole
  <2>1. CASE u = t
    <3>1. Readable(q) /\ m_pI[q] = o
      BY <1>2, <2>1
    <3>2. q = p => Gives(s, o) /\ Writes(s, q)
      BY <3>1
    <3> QED BY <1>1, <1>2, <1>4, <2>1, <3>1, <3>2
  <2>2. CASE u # t
    <3>1. Copies(todo[u], o, q) /\ todo'[u] = todo[u] /\ q # p
      BY <1>2, <1>3, <2>2
    <3>2. m_pI[q] = o /\ (Readable(q) \/ (Gives(todo[u], o) /\ Writes(todo[u], q)))
      BY <3>1 DEF IInv, CopiedWhole
    <3> QED BY <1>1, <1>4, <3>1, <3>2
  <2> QED BY <2>1, <2>2
<1>8. ReadsValid'
  <2> SUFFICES ASSUME ~raced', NEW u \in Threads, NEW o \in Objects,
                      read'[u] # NotRead, Counts(u, o)'
               PROVE  read'[u] = m_nRef'[o]
    BY DEF ReadsValid
  <2>1. u # t /\ read[u] # NotRead /\ ~raced
    BY <1>1
  <2>2. Counts(u, o)
    BY <1>2, <2>1 DEF Counts, Does, Idle
  <2> QED BY <1>1, <2>1, <2>2 DEF IInv, ReadsValid
<1>9. ASSUME NEW o \in Objects
      PROVE  /\ m_nRef'[o] = raw'[o] + Cardinality(Pointing(o)') + Cardinality(Givers(o)')
                                + Cardinality(Havers(o)')
             /\ raw'[o] + Cardinality(Leavers(o)') <= MaxRaw
  <2>1. ~Gives(todo[t], o) /\ ~Has(todo[t], o) /\ ~Leaves(todo[t], o)
    BY <1>1, OfNothing
  <2>2. Cardinality(Leavers(o)') = Cardinality(Leavers(o))
    BY <1>2, <2>1, CallChanges
  <2>3. Cardinality(Havers(o)') =
            IF Has(s, o) THEN Cardinality(Havers(o)) + 1 ELSE Cardinality(Havers(o))
    BY <1>2, <2>1, CallChanges
  <2>4. Cardinality(Givers(o)') =
            IF o = m_pI[p] THEN Cardinality(Givers(o)) + 1 ELSE Cardinality(Givers(o))
    BY <1>2, <2>1, CallChanges
  <2>5. Cardinality(Pointing(o)') =
            IF o = m_pI[p] THEN Cardinality(Pointing(o)) - 1 ELSE Cardinality(Pointing(o))
    BY <1>1, <1>3, <1>4, PointerChanges
  <2>6. m_nRef[o] = raw[o] + Cardinality(Pointing(o)) + Cardinality(Givers(o))
                        + Cardinality(Havers(o))
    BY DEF IInv, Balanced
  <2>7. raw[o] + Cardinality(Leavers(o)) <= MaxRaw
    BY DEF IInv, RawBounded
  <2>8. raw[o] \in Nat /\ raw'[o] \in Nat /\ m_nRef'[o] = m_nRef[o]
    BY <1>1 DEF IInv, Typed
  <2>9. raw[o] = IF Has(s, o) THEN raw'[o] + 1 ELSE raw'[o]
    OBVIOUS
  <2>10. MaxRaw \in Nat
    BY RefCountedAssumption
  <2>11. CASE Has(s, o)
    BY <2>2, <2>3, <2>4, <2>5, <2>6, <2>7, <2>8, <2>9, <2>10, <2>11, CountsAre
  <2>12. CASE ~Has(s, o)
    BY <2>2, <2>3, <2>4, <2>5, <2>6, <2>7, <2>8, <2>9, <2>10, <2>12, CountsAre
  <2> QED BY <2>11, <2>12
<1>10. Balanced' /\ RawBounded'
  BY <1>9 DEF Balanced, RawBounded
<1>11. FreedAtZero'
  BY <1>1 DEF IInv, FreedAtZero
<1> QED BY <1>5, <1>6, <1>7, <1>8, <1>10, <1>11 DEF IInv

\* The steps of a call put together
LEMMA Joined ==
    ASSUME NEW a, NEW b, NEW c
    PROVE  /\ <<>> \o <<a>> = <<a>> /\ <<a>> \o <<>> = <<a>>
           /\ <<a>> \o <<b>> = <<a, b>> /\ <<a, b>> \o <<c>> = <<a, b, c>>
<1> DEFINE two == <<a>> \o <<b>>
           three == <<a, b>> \o <<c>>
<1>1. <<>> \o <<a>> = <<a>> /\ <<a>> \o <<>> = <<a>>
  <2>1. <<>> \o <<a>> = <<a>>
    OBVIOUS
  <2>2. <<a>> \o <<>> = <<a>>
    OBVIOUS
  <2> QED BY <2>1, <2>2
<1>2. /\ <<a>> \in Seq({a, b, c}) /\ <<b>> \in Seq({a, b, c})
      /\ <<a, b>> \in Seq({a, b, c}) /\ <<c>> \in Seq({a, b, c})
  OBVIOUS
<1>3. two \in Seq({a, b, c}) /\ Len(two) = 2 /\ two[1] = a /\ two[2] = b
  BY <1>2
<1>4. /\ three \in Seq({a, b, c}) /\ Len(three) = 3
      /\ three[1] = a /\ three[2] = b /\ three[3] = c
  BY <1>2
<1> HIDE DEF two, three
<1>5. two = <<a, b>>
  BY <1>3
<1>6. three = <<a, b, c>>
  BY <1>4
<1> QED BY <1>1, <1>5, <1>6 DEF two, three

\* The reference of new or of abandon() becomes the pointer's.
LEMMA AdoptStep ==
    ASSUME IInv, NEW t \in Threads, NEW p \in Pointers, NEW o \in Objects, Adopt(t, p, o)
    PROVE  IInv'
<1>1. PICK s : s = Giving(m_pI[p]) \o <<Store(p, o)>>
  OBVIOUS
<1>2. Begin(t, s) /\ Writable(p) /\ raw[o] > 0 /\ raw' = [raw EXCEPT ![o] = @ - 1]
  BY <1>1 DEF Adopt
<1>3. raw \in [Objects -> Nat] /\ m_pI[p] \in born \cup {Null} /\ born \subseteq Objects
  BY DEF IInv, Typed
<1>4. o \in born
  <2>1. m_nRef[o] = raw[o] + Cardinality(Pointing(o)) + Cardinality(Givers(o))
                        + Cardinality(Havers(o))
    BY DEF IInv, Balanced
  <2>2. m_nRef[o] > 0
    BY <1>2, <1>3, <2>1, CountsAre
  <2> QED BY <2>2 DEF IInv, FreedAtZero
<1>5. /\ raw' \in [Objects -> Nat]
      /\ \A x \in Objects : raw[x] = IF x = o THEN raw'[x] + 1 ELSE raw'[x]
  BY <1>2, <1>3
<1>6. CASE m_pI[p] = Null
  <2>1. s = <<Store(p, o)>>
    BY <1>1, <1>6 DEF Giving
  <2>2. Shape(s, born)
    BY <1>4, <2>1 DEF Shape
  <2>3. /\ \A x : ~Leaves(s, x) /\ ~Gives(s, x) /\ (Has(s, x) <=> x = o)
        /\ \A q : Writes(s, q) <=> q = p
        /\ \A x, q : ~Copies(s, x, q)
    BY <2>1, OfStore
  <2>4. \A x \in Objects : Gives(s, x) <=> x = m_pI[p]
    BY <1>6, <2>3, RefCountedAssumption
  <2> QED BY <1>2, <1>5, <2>2, <2>3, <2>4, WriteBegins
<1>7. CASE m_pI[p] # Null
  <2>1. PICK y \in born : y = m_pI[p]
    BY <1>3, <1>7
  <2>2. s = <<Release(y), Store(p, o)>>
    BY <1>1, <1>7, <2>1, Joined DEF Giving
  <2>3. Shape(s, born)
    BY <1>4, <2>2 DEF Shape
  <2>4. /\ \A x : ~Leaves(s, x) /\ (Gives(s, x) <=> x = y) /\ (Has(s, x) <=> x = o)
        /\ \A q : Writes(s, q) <=> q = p
        /\ \A x, q : ~Copies(s, x, q)
    BY <2>2, OfReleaseStore
  <2> QED BY <1>2, <1>5, <2>1, <2>3, <2>4, WriteBegins
<1> QED BY <1>6, <1>7

\* A pointer gives back what it has.
LEMMA DropStep ==
    ASSUME IInv, NEW t \in Threads, NEW p \in Pointers, Drop(t, p)
    PROVE  IInv'
<1>1. m_pI[p] \in born /\ raw \in [Objects -> Nat] /\ born \subseteq Objects
  BY DEF Drop, IInv, Typed
<1>2. PICK y \in born : y = m_pI[p]
  BY <1>1
<1>3. PICK s : s = <<Release(y), Store(p, Null)>>
  OBVIOUS
<1>4. Begin(t, s) /\ Writable(p) /\ raw' = raw
  <2>1. Giving(y) \o <<Store(p, Null)>> = s
    BY <1>1, <1>2, <1>3, Joined, RefCountedAssumption DEF Giving
  <2> QED BY <1>2, <2>1 DEF Drop
<1>5. Shape(s, born)
  BY <1>3 DEF Shape
<1>6. /\ \A x : ~Leaves(s, x) /\ (Gives(s, x) <=> x = y) /\ (Has(s, x) <=> x = Null)
      /\ \A q : Writes(s, q) <=> q = p
      /\ \A x, q : ~Copies(s, x, q)
  BY <1>3, OfReleaseStore
<1>7. raw' \in [Objects -> Nat] /\ \A x \in Objects : ~Has(s, x) /\ raw[x] = raw'[x]
  BY <1>1, <1>4, <1>6, RefCountedAssumption
<1> QED BY <1>2, <1>4, <1>5, <1>6, <1>7, WriteBegins

\* The new object is taken before the old one is given back, also when they are the same.
LEMMA ResetStep ==
    ASSUME IInv, NEW t \in Threads, NEW p \in Pointers, NEW q \in Pointers, Reset(t, p, q)
    PROVE  IInv'
<1>1. PICK s : s = ResetSteps(p, q)
  OBVIOUS
<1>2. Begin(t, s) /\ Writable(p) /\ Readable(q) /\ raw' = raw
  BY <1>1 DEF Reset
<1>3. /\ m_pI[p] \in born \cup {Null} /\ m_pI[q] \in born \cup {Null}
      /\ raw \in [Objects -> Nat] /\ born \subseteq Objects
  BY DEF IInv, Typed
<1>4. PICK y \in born \cup {Null}, o \in born \cup {Null} : y = m_pI[p] /\ o = m_pI[q]
  BY <1>3
<1>5. s = (Taking(o, q) \o Giving(y)) \o <<Store(p, o)>>
  BY <1>1, <1>4 DEF ResetSteps
<1>6. ASSUME Shape(s, born),
             \A x : ~Leaves(s, x) /\ (Has(s, x) => x = Null),
             \A x \in Objects : Gives(s, x) <=> x = y,
             \A r : Writes(s, r) <=> r = p,
             \A x, r : Copies(s, x, r) => x = o /\ r = q
      PROVE  IInv'
  <2>1. raw' \in [Objects -> Nat] /\ \A x \in Objects : ~Has(s, x) /\ raw[x] = raw'[x]
    BY <1>2, <1>3, <1>6, RefCountedAssumption
  <2>2. \A x, r : Copies(s, x, r) => Readable(r) /\ m_pI[r] = x
    BY <1>2, <1>4, <1>6
  <2> QED BY <1>2, <1>4, <1>6, <2>1, <2>2, WriteBegins
<1>7. CASE o = Null /\ y = Null
  <2>1. s = <<Store(p, o)>>
    BY <1>5, <1>7 DEF Taking, Giving
  <2>2. Shape(s, born)
    BY <2>1 DEF Shape
  <2> QED BY <1>6, <1>7, <2>1, <2>2, OfStore, RefCountedAssumption
<1>8. CASE o = Null /\ y # Null
  <2>1. s = <<Release(y), Store(p, o)>>
    BY <1>5, <1>8, Joined DEF Taking, Giving
  <2>2. Shape(s, born)
    BY <1>8, <2>1 DEF Shape
  <2> QED BY <1>6, <1>8, <2>1, <2>2, OfReleaseStore
<1>9. CASE o # Null /\ y = Null
  <2>1. s = <<Add(o, q), Store(p, o)>>
    BY <1>5, <1>9, Joined DEF Taking, Giving
  <2>2. Shape(s, born)
    BY <1>9, <2>1 DEF Shape
  <2> QED BY <1>6, <1>9, <2>1, <2>2, OfAddStore, RefCountedAssumption
<1>10. CASE o # Null /\ y # Null
  <2>1. s = <<Add(o, q), Release(y), Store(p, o)>>
    BY <1>5, <1>10, Joined DEF Taking, Giving
  <2>2. Shape(s, born)
    BY <1>10, <2>1 DEF Shape
  <2> QED BY <1>6, <1>10, <2>1, <2>2, OfAddReleaseStore
<1> QED BY <1>7, <1>8, <1>9, <1>10

\* A new object has one reference, that of its caller.
LEMMA NewStep ==
    ASSUME IInv, NEW t \in Threads, NEW o \in Objects, New(t, o)
    PROVE  IInv'
<1>1. /\ o \notin born /\ born' = born \cup {o}
      /\ m_nRef' = [m_nRef EXCEPT ![o] = 1] /\ raw' = [raw EXCEPT ![o] = 1]
      /\ UNCHANGED <<interlocked, m_pI, freed, todo, read, raced>>
  BY DEF New
<1>2. Typed'
  <2>1. \A u \in Threads : Shape(todo'[u], born')
    BY <1>1, ShapeGrows DEF IInv, Typed
  <2>2. \A u \in Threads : read'[u] # NotRead => Does(u)' \in {"add", "release"}
    BY <1>1 DEF IInv, Typed, Does, Idle
  <2> QED BY <1>1, <2>1, <2>2 DEF IInv, Typed
<1>3. \A p \in Pointers : Readable(p)' <=> Readable(p)
  BY <1>1, Readables
<1>4. WrittenAlone' /\ CopiedWhole'
  BY <1>1, <1>3 DEF IInv, WrittenAlone, CopiedWhole
<1>5. ReadsValid'
  <2> SUFFICES ASSUME ~raced', NEW u \in Threads, NEW x \in Objects,
                      read'[u] # NotRead, Counts(u, x)'
               PROVE  read'[u] = m_nRef'[x]
    BY DEF ReadsValid
  <2>1. Counts(u, x) /\ read[u] # NotRead /\ ~raced
    BY <1>1 DEF Counts, Does, Idle
  <2>2. x \in born
    BY <2>1, Beginnings DEF IInv, Typed, Counts, Does, Idle
  <2> QED BY <1>1, <2>1, <2>2 DEF IInv, Typed, ReadsValid
<1>6. \A x : /\ Pointing(x)' = Pointing(x) /\ Givers(x)' = Givers(x)
             /\ Havers(x)' = Havers(x) /\ Leavers(x)' = Leavers(x)
  BY <1>1, <1>3 DEF Pointing, Givers, Havers, Leavers
<1>7. Leavers(o) = {}
  BY <1>1, WorksOnKnown DEF IInv, Typed, Leavers
<1>8. m_nRef[o] = 0
  BY <1>1 DEF IInv, FreedAtZero
<1>9. \A x \in Objects : m_nRef[x] \in Nat /\ raw[x] \in Nat
  BY DEF IInv, Typed
<1>10. /\ Cardinality(Pointing(o)) = 0 /\ Cardinality(Givers(o)) = 0
       /\ Cardinality(Havers(o)) = 0
  <2>1. m_nRef[o] = raw[o] + Cardinality(Pointing(o)) + Cardinality(Givers(o))
                        + Cardinality(Havers(o))
    BY DEF IInv, Balanced
  <2> QED BY <1>8, <1>9, <2>1, CountsAre
<1>11. ASSUME NEW x \in Objects
       PROVE  /\ m_nRef'[x] = raw'[x] + Cardinality(Pointing(x)') + Cardinality(Givers(x)')
                                 + Cardinality(Havers(x)')
              /\ raw'[x] + Cardinality(Leavers(x)') <= MaxRaw
  <2>1. CASE x = o
    <3>1. m_nRef'[x] = 1 /\ raw'[x] = 1
      BY <1>1, <2>1 DEF IInv, Typed
    <3>2. Cardinality(Leavers(o)) = 0
      BY <1>7, FS_EmptySet
    <3> QED BY <1>6, <1>10, <2>1, <3>1, <3>2, RefCountedAssumption
  <2>2. CASE x # o
    <3>1. m_nRef'[x] = m_nRef[x] /\ raw'[x] = raw[x]
      BY <1>1, <2>2 DEF IInv, Typed
    <3> QED BY <1>6, <3>1 DEF IInv, Balanced, RawBounded
  <2> QED BY <2>1, <2>2
<1>12. Balanced' /\ RawBounded'
  BY <1>11 DEF Balanced, RawBounded
<1>13. FreedAtZero'
  BY <1>1 DEF IInv, Typed, FreedAtZero
<1> QED BY <1>2, <1>4, <1>5, <1>12, <1>13 DEF IInv

\* abandon() leaves the reference to the caller.
LEMMA AbandonStep ==
    ASSUME IInv, NEW t \in Threads, NEW p \in Pointers, Abandon(t, p)
    PROVE  IInv'
<1>1. PICK o \in born : o = m_pI[p]
  BY DEF IInv, Typed, Abandon
<1>2. /\ Writable(p) /\ raw[o] + Cardinality(Leavers(o)) < MaxRaw
      /\ raw' = [raw EXCEPT ![o] = @ + 1] /\ m_pI' = [m_pI EXCEPT ![p] = Null]
      /\ UNCHANGED <<interlocked, m_nRef, born, freed, todo, read, raced>>
  BY <1>1 DEF Abandon, Loose, Leavers, Leaves
<1>3. Readable(p) /\ \A u \in Threads : \A x : ~Copies(todo[u], x, p)
  BY <1>2, Readables
<1>4. \A q \in Pointers : Readable(q)' <=> Readable(q)
  BY <1>2, Readables
<1>5. o \in Objects /\ raw \in [Objects -> Nat] /\ m_pI \in [Pointers -> born \cup {Null}]
  BY DEF IInv, Typed
<1>6. m_pI'[p] = Null /\ \A q \in Pointers : q # p => m_pI'[q] = m_pI[q]
  BY <1>2, <1>5
<1>7. Typed'
  <2>1. \A u \in Threads : Shape(todo'[u], born')
    BY <1>2 DEF IInv, Typed
  <2>2. \A u \in Threads : read'[u] # NotRead => Does(u)' \in {"add", "release"}
    BY <1>2 DEF IInv, Typed, Does, Idle
  <2> QED BY <1>2, <1>5, <2>1, <2>2 DEF IInv, Typed
<1>8. WrittenAlone' /\ FreedAtZero'
  BY <1>2 DEF IInv, WrittenAlone, FreedAtZero
<1>9. CopiedWhole'
  <2> SUFFICES ASSUME NEW u \in Threads, NEW x \in Objects, NEW q \in Pointers,
                      Copies(todo[u], x, q)
               PROVE  m_pI'[q] = x /\ (Readable(q)' \/ (Gives(todo[u], x) /\ Writes(todo[u], q)))
    BY <1>2 DEF CopiedWhole
  <2>1. q # p
    BY <1>3
  <2>2. m_pI[q] = x /\ (Readable(q) \/ (Gives(todo[u], x) /\ Writes(todo[u], q)))
    BY DEF IInv, CopiedWhole
  <2> QED BY <1>4, <1>6, <2>1, <2>2
<1>10. ReadsValid'
  BY <1>2 DEF IInv, ReadsValid, Counts, Does, Idle
<1>11. \A x : /\ Givers(x)' = Givers(x) /\ Havers(x)' = Havers(x) /\ Leavers(x)' = Leavers(x)
  BY <1>2 DEF Givers, Havers, Leavers
<1>12. ASSUME NEW x \in Objects
       PROVE  /\ m_nRef'[x] = raw'[x] + Cardinality(Pointing(x)') + Cardinality(Givers(x)')
                                 + Cardinality(Havers(x)')
              /\ raw'[x] + Cardinality(Leavers(x)') <= MaxRaw
  <2>1. /\ m_nRef[x] = raw[x] + Cardinality(Pointing(x)) + Cardinality(Givers(x))
                           + Cardinality(Havers(x))
        /\ raw[x] + Cardinality(Leavers(x)) <= MaxRaw
    BY DEF IInv, Balanced, RawBounded
  <2>2. m_nRef'[x] = m_nRef[x] /\ raw'[x] = IF x = o THEN raw[x] + 1 ELSE raw[x]
    BY <1>2, <1>5
  <2>3. Cardinality(Pointing(x)') =
            IF x = o THEN Cardinality(Pointing(x)) - 1 ELSE Cardinality(Pointing(x))
    BY <1>1, <1>3, <1>4, <1>6, PointerChanges, RefCountedAssumption
  <2>4. raw[x] \in Nat /\ MaxRaw \in Nat
    BY <1>5, RefCountedAssumption
  <2>5. CASE x = o
    BY <1>2, <1>11, <2>1, <2>2, <2>3, <2>4, <2>5, CountsAre
  <2>6. CASE x # o
    BY <1>11, <2>1, <2>2, <2>3, <2>4, <2>6, CountsAre
  <2> QED BY <2>5, <2>6
<1>13. Balanced' /\ RawBounded'
  BY <1>12 DEF Balanced, RawBounded
<1> QED BY <1>7, <1>8, <1>9, <1>10, <1>13 DEF IInv

\* The start of a call on an object itself
LEMMA CallBegins ==
    ASSUME IInv, NEW t \in Threads, NEW s, Begin(t, s), Shape(s, born),
           \A q : ~Writes(s, q),
           \A o : ~Has(s, o),
           \A o, q : Copies(s, o, q) => Readable(q) /\ m_pI[q] = o,
           \A o \in Objects : Leaves(s, o) => raw[o] + Cardinality(Leavers(o)) < MaxRaw,
           raw' \in [Objects -> Nat],
           \A o \in Objects : raw[o] = IF Gives(s, o) THEN raw'[o] + 1 ELSE raw'[o]
    PROVE  IInv'
<1>1. /\ todo[t] = <<>> /\ read[t] = NotRead
      /\ todo' = [todo EXCEPT ![t] = s]
      /\ UNCHANGED <<interlocked, m_nRef, m_pI, born, freed, read, raced>>
  BY DEF Begin, Idle, IInv, Typed, Does
<1>2. todo'[t] = s /\ \A u \in Threads : u # t => todo'[u] = todo[u]
  BY <1>1 DEF IInv, Typed
<1>3. \A q \in Pointers : Readable(q)' <=> Readable(q)
  BY <1>1, <1>2, Readables, OfNothing
<1>4. Typed'
  <2>1. todo' = [u \in Threads |-> todo'[u]]
    BY <1>1 DEF IInv, Typed
  <2>2. \A u \in Threads : Shape(todo'[u], born')
    BY <1>1, <1>2 DEF IInv, Typed
  <2>3. \A u \in Threads : read'[u] # NotRead => Does(u)' \in {"add", "release"}
    BY <1>1, <1>2 DEF IInv, Typed, Does, Idle
  <2> QED BY <1>1, <2>1, <2>2, <2>3 DEF IInv, Typed
<1>5. WrittenAlone'
  BY <1>2 DEF IInv, WrittenAlone
<1>6. CopiedWhole'
  <2> SUFFICES ASSUME NEW u \in Threads, NEW o \in Objects, NEW q \in Pointers,
                      Copies(todo'[u], o, q)
               PROVE  /\ m_pI'[q] = o
                      /\ Readable(q)' \/ (Gives(todo'[u], o) /\ Writes(todo'[u], q))
    BY DEF CopiedWhole
  <2>1. CASE u = t
    BY <1>1, <1>2, <1>3, <2>1
  <2>2. CASE u # t
    BY <1>1, <1>2, <1>3, <2>2 DEF IInv, CopiedWhole
  <2> QED BY <2>1, <2>2
<1>7. ReadsValid'
  <2> SUFFICES ASSUME ~raced', NEW u \in Threads, NEW o \in Objects,
                      read'[u] # NotRead, Counts(u, o)'
               PROVE  read'[u] = m_nRef'[o]
    BY DEF ReadsValid
  <2>1. u # t /\ read[u] # NotRead /\ ~raced
    BY <1>1
  <2>2. Counts(u, o)
    BY <1>2, <2>1 DEF Counts, Does, Idle
  <2> QED BY <1>1, <2>1, <2>2 DEF IInv, ReadsValid
<1>8. ASSUME NEW o \in Objects
      PROVE  /\ m_nRef'[o] = raw'[o] + Cardinality(Pointing(o)') + Cardinality(Givers(o)')
                                + Cardinality(Havers(o)')
             /\ raw'[o] + Cardinality(Leavers(o)') <= MaxRaw
  <2>1. ~Gives(todo[t], o) /\ ~Has(todo[t], o) /\ ~Leaves(todo[t], o)
    BY <1>1, OfNothing
  <2>2. Cardinality(Leavers(o)') =
            IF Leaves(s, o) THEN Cardinality(Leavers(o)) + 1 ELSE Cardinality(Leavers(o))
    BY <1>2, <2>1, CallChanges
  <2>3. Cardinality(Havers(o)') = Cardinality(Havers(o))
    BY <1>2, <2>1, CallChanges
  <2>4. Cardinality(Givers(o)') =
            IF Gives(s, o) THEN Cardinality(Givers(o)) + 1 ELSE Cardinality(Givers(o))
    BY <1>2, <2>1, CallChanges
  <2>5. Pointing(o)' = Pointing(o)
    BY <1>1, <1>3 DEF Pointing
  <2>6. /\ m_nRef[o] = raw[o] + Cardinality(Pointing(o)) + Cardinality(Givers(o))
                           + Cardinality(Havers(o))
        /\ raw[o] + Cardinality(Leavers(o)) <= MaxRaw
    BY DEF IInv, Balanced, RawBounded
  <2>7. raw[o] \in Nat /\ raw'[o] \in Nat /\ m_nRef'[o] = m_nRef[o] /\ MaxRaw \in Nat
    BY <1>1, RefCountedAssumption DEF IInv, Typed
  <2>8. /\ raw[o] = IF Gives(s, o) THEN raw'[o] + 1 ELSE raw'[o]
        /\ Leaves(s, o) => raw[o] + Cardinality(Leavers(o)) < MaxRaw
    OBVIOUS
  <2>9. m_nRef'[o] = raw'[o] + Cardinality(Pointing(o)') + Cardinality(Givers(o)')
                         + Cardinality(Havers(o)')
    <3>1. CASE Gives(s, o)
      BY <2>3, <2>4, <2>5, <2>6, <2>7, <2>8, <3>1, CountsAre
    <3>2. CASE ~Gives(s, o)
      BY <2>3, <2>4, <2>5, <2>6, <2>7, <2>8, <3>2, CountsAre
    <3> QED BY <3>1, <3>2
  <2>10. raw'[o] <= raw[o]
    BY <2>7, <2>8
  <2>11. raw'[o] + Cardinality(Leavers(o)') <= MaxRaw
    <3>1. CASE Leaves(s, o)
      BY <2>2, <2>7, <2>8, <2>10, <3>1, CountsAre
    <3>2. CASE ~Leaves(s, o)
      BY <2>2, <2>6, <2>7, <2>10, <3>2, CountsAre
    <3> QED BY <3>1, <3>2
  <2> QED BY <2>9, <2>11
<1>9. Balanced' /\ RawBounded'
  BY <1>8 DEF Balanced, RawBounded
<1>10. FreedAtZero'
  BY <1>1 DEF IInv, FreedAtZero
<1> QED BY <1>4, <1>5, <1>6, <1>7, <1>9, <1>10 DEF IInv

\* A reference is taken while the pointer holds another.
LEMMA CallAddRefStep ==
    ASSUME IInv, NEW t \in Threads, NEW p \in Pointers, CallAddRef(t, p)
    PROVE  IInv'
<1>1. PICK o \in born : o = m_pI[p]
  BY DEF IInv, Typed, CallAddRef
<1>2. PICK s : s = <<Add(o, p), Leave(o)>>
  OBVIOUS
<1>3. /\ Begin(t, s) /\ Readable(p) /\ raw' = raw
      /\ raw[o] + Cardinality(Leavers(o)) < MaxRaw
  BY <1>1, <1>2 DEF CallAddRef, Loose, Leavers, Leaves
<1>4. Shape(s, born)
  BY <1>2 DEF Shape
<1>5. /\ \A x : ~Gives(s, x) /\ ~Has(s, x) /\ (Leaves(s, x) <=> x = o)
      /\ \A q : ~Writes(s, q)
      /\ \A x, q : Copies(s, x, q) <=> x = o /\ q = p
  BY <1>2, OfAddLeave
<1>6. raw' \in [Objects -> Nat] /\ \A x \in Objects : raw[x] = raw'[x]
  BY <1>3 DEF IInv, Typed
<1>7. \A x, q : Copies(s, x, q) => Readable(q) /\ m_pI[q] = x
  BY <1>1, <1>3, <1>5
<1> QED BY <1>3, <1>4, <1>5, <1>6, <1>7, CallBegins

\* A caller gives back a reference it has.
LEMMA CallReleaseStep ==
    ASSUME IInv, NEW t \in Threads, NEW o \in Objects, CallRelease(t, o)
    PROVE  IInv'
<1>1. PICK s : s = <<Release(o)>>
  OBVIOUS
<1>2. Begin(t, s) /\ raw[o] > 0 /\ raw' = [raw EXCEPT ![o] = @ - 1]
  BY <1>1 DEF CallRelease
<1>3. raw \in [Objects -> Nat]
  BY DEF IInv, Typed
<1>4. o \in born
  <2>1. m_nRef[o] = raw[o] + Cardinality(Pointing(o)) + Cardinality(Givers(o))
                        + Cardinality(Havers(o))
    BY DEF IInv, Balanced
  <2>2. m_nRef[o] > 0
    BY <1>2, <1>3, <2>1, CountsAre
  <2> QED BY <2>2 DEF IInv, FreedAtZero
<1>5. Shape(s, born)
  BY <1>1, <1>4 DEF Shape
<1>6. /\ \A x : ~Leaves(s, x) /\ ~Has(s, x) /\ (Gives(s, x) <=> x = o)
      /\ \A q : ~Writes(s, q)
      /\ \A x, q : ~Copies(s, x, q)
  BY <1>1, OfRelease
<1>7. /\ raw' \in [Objects -> Nat]
      /\ \A x \in Objects : raw[x] = IF x = o THEN raw'[x] + 1 ELSE raw'[x]
  BY <1>2, <1>3
<1> QED BY <1>2, <1>5, <1>6, <1>7, CallBegins

\* A count is read to be written later.
LEMMA ReadCountStep ==
    ASSUME IInv, NEW t \in Threads, NEW o \in Objects, ReadCount(t, o)
    PROVE  IInv'
<1>1. /\ Counts(t, o) /\ read' = [read EXCEPT ![t] = m_nRef[o]]
      /\ UNCHANGED <<interlocked, m_nRef, m_pI, raw, born, freed, todo, raced>>
  BY DEF ReadCount
<1>2. \A u \in Threads : read'[u] = IF u = t THEN m_nRef[o] ELSE read[u]
  BY <1>1 DEF IInv, Typed
<1>3. \A u \in Threads, x \in Objects : Counts(u, x)' <=> Counts(u, x)
  BY <1>1 DEF Counts, Does, Idle
<1>4. \A x \in Objects : Counts(t, x) => x = o
  BY <1>1 DEF Counts
<1>5. Typed'
  <2>1. \A u \in Threads : Shape(todo'[u], born')
    BY <1>1 DEF IInv, Typed
  <2>2. \A u \in Threads : read'[u] # NotRead => Does(u)' \in {"add", "release"}
    BY <1>1, <1>2 DEF IInv, Typed, Does, Idle, Counts
  <2> QED BY <1>1, <2>1, <2>2 DEF IInv, Typed
<1>6. \A p \in Pointers : Readable(p)' <=> Readable(p)
  BY <1>1, Readables
<1>7. WrittenAlone' /\ CopiedWhole' /\ FreedAtZero'
  BY <1>1, <1>6 DEF IInv, WrittenAlone, CopiedWhole, FreedAtZero
<1>8. ReadsValid'
  BY <1>1, <1>2, <1>3, <1>4 DEF IInv, ReadsValid
<1>9. \A x : /\ Pointing(x)' = Pointing(x) /\ Givers(x)' = Givers(x)
             /\ Havers(x)' = Havers(x) /\ Leavers(x)' = Leavers(x)
  BY <1>1, <1>6 DEF Pointing, Givers, Havers, Leavers
<1>10. Balanced' /\ RawBounded'
  BY <1>1, <1>9 DEF IInv, Balanced, RawBounded
<1> QED BY <1>5, <1>7, <1>8, <1>10 DEF IInv

\* An object whose count is about to change exists and is not deleted.
LEMMA CountedLives ==
    ASSUME IInv, NEW t \in Threads, NEW o \in Objects, Counts(t, o)
    PROVE  o \in born /\ m_nRef[o] > 0 /\ o \notin freed
<1>1. /\ Shape(todo[t], born) /\ todo[t] # <<>>
      /\ Head(todo[t]).do \in {"add", "release"} /\ Head(todo[t]).at = o
  BY DEF IInv, Typed, Counts, Does, Idle
<1>2. o \in born
  BY <1>1, Beginnings
<1>3. m_nRef[o] = raw[o] + Cardinality(Pointing(o)) + Cardinality(Givers(o))
                      + Cardinality(Havers(o))
  BY DEF IInv, Balanced
<1>4. Pointing(o) # {} \/ Givers(o) # {}
  <2>1. CASE Head(todo[t]).do = "add"
    <3>1. PICK q \in Pointers : Copies(todo[t], o, q)
      BY <1>1, <2>1, AfterAdd
    <3>2. m_pI[q] = o /\ (Readable(q) \/ Gives(todo[t], o))
      BY <3>1 DEF IInv, CopiedWhole
    <3> QED BY <3>2 DEF Pointing, Givers
  <2>2. CASE Head(todo[t]).do = "release"
    <3>1. Gives(todo[t], o)
      BY <1>1, <2>2, AfterRelease
    <3> QED BY <3>1 DEF Givers
  <2> QED BY <1>1, <2>1, <2>2
<1>5. raw[o] \in Nat
  BY DEF IInv, Typed
<1>6. m_nRef[o] > 0
  <2>1. CASE Pointing(o) # {}
    BY <1>3, <1>5, <2>1, CountsAre
  <2>2. CASE Givers(o) # {}
    BY <1>3, <1>5, <2>2, CountsAre
  <2> QED BY <1>4, <2>1, <2>2
<1> QED BY <1>2, <1>6 DEF IInv, FreedAtZero

\* What a thread writes is the count that is right, also when it is the first of two that
\* race: only the second is wrong.
LEMMA WriteCountStep ==
    ASSUME IInv, ~raced, NEW t \in Threads, NEW o \in Objects, WriteCount(t, o)
    PROVE  IInv'
<1> DEFINE rest == Tail(todo[t])
           isAdd == Head(todo[t]).do = "add"
           n == IF isAdd THEN m_nRef[o] + 1 ELSE m_nRef[o] - 1
<1>1. /\ Counts(t, o) /\ todo' = [todo EXCEPT ![t] = rest] /\ read' = [read EXCEPT ![t] = NotRead]
      /\ raced' = \E u \in Threads \ {t} : Counts(u, o) /\ read[u] # NotRead
      /\ UNCHANGED <<interlocked, m_pI, raw, born>>
  BY DEF WriteCount
<1>2. /\ Shape(todo[t], born) /\ todo[t] # <<>> /\ Head(todo[t]).at = o
      /\ isAdd \/ Head(todo[t]).do = "release"
  BY <1>1 DEF IInv, Typed, Counts, Does, Idle
<1>3. m_nRef' = [m_nRef EXCEPT ![o] = n]
      /\ freed' = IF ~isAdd /\ n = 0 THEN freed \cup {o} ELSE freed
  <2>1. (IF interlocked THEN m_nRef[o] ELSE read[t]) = m_nRef[o]
    BY <1>1 DEF WriteCount, IInv, ReadsValid
  <2>2. Counted(t, IF interlocked THEN m_nRef[o] ELSE read[t]) = n
    BY <2>1 DEF Counted
  <2>3. IsLast(t, n) <=> ~isAdd /\ n = 0
    BY <1>2 DEF IsLast
  <2> QED BY <2>2, <2>3 DEF WriteCount
<1>4. o \in born /\ o \notin freed /\ m_nRef[o] > 0
  BY <1>1, CountedLives
<1>5. /\ Shape(rest, born)
      /\ \A y : /\ \A r : ~Copies(rest, y, r)
                /\ Leaves(rest, y) <=> Leaves(todo[t], y)
                /\ Writes(rest, y) <=> Writes(todo[t], y)
      /\ \A y : IF isAdd
                  THEN /\ Gives(rest, y) <=> Gives(todo[t], y)
                       /\ ~Has(todo[t], y) /\ (Has(rest, y) <=> y = o)
                  ELSE /\ Has(rest, y) <=> Has(todo[t], y)
                       /\ ~Gives(rest, y) /\ (Gives(todo[t], y) <=> y = o)
  <2>1. CASE isAdd
    BY <1>2, <2>1, AfterAdd
  <2>2. CASE ~isAdd
    BY <1>2, <2>2, AfterRelease
  <2> QED BY <2>1, <2>2
<1> HIDE DEF rest, isAdd
<1>6. todo'[t] = rest /\ \A u \in Threads : u # t => todo'[u] = todo[u]
  BY <1>1 DEF IInv, Typed
<1>7. read'[t] = NotRead /\ \A u \in Threads : u # t => read'[u] = read[u]
  BY <1>1 DEF IInv, Typed
<1>8. \A p \in Pointers : Readable(p)' <=> Readable(p)
  BY <1>5, <1>6, Readables
<1>9. m_nRef \in [Objects -> Nat] /\ n \in Nat
  BY <1>4 DEF IInv, Typed
<1>10. \A x \in Objects : m_nRef'[x] = IF x = o THEN n ELSE m_nRef[x]
  BY <1>3, <1>9
<1>11. Typed'
  <2>1. m_nRef' \in [Objects -> Nat]
    BY <1>3, <1>9
  <2>2. todo' = [u \in Threads |-> todo'[u]]
    BY <1>1 DEF IInv, Typed
  <2>3. \A u \in Threads : Shape(todo'[u], born')
    BY <1>1, <1>5, <1>6 DEF IInv, Typed
  <2>4. \A u \in Threads : read'[u] # NotRead => Does(u)' \in {"add", "release"}
    BY <1>6, <1>7 DEF IInv, Typed, Does, Idle
  <2>5. freed' \subseteq born'
    BY <1>1, <1>3, <1>4 DEF IInv, Typed
  <2>6. raced' \in BOOLEAN
    BY <1>1
  <2>7. read' \in [Threads -> Nat \cup {NotRead}]
    BY <1>1 DEF IInv, Typed
  <2> QED BY <1>1, <2>1, <2>2, <2>3, <2>4, <2>5, <2>6, <2>7 DEF IInv, Typed
<1>12. WrittenAlone'
  <2>1. \A u \in Threads : \A p : Writes(todo'[u], p) <=> Writes(todo[u], p)
    BY <1>5, <1>6
  <2> QED BY <2>1 DEF IInv, WrittenAlone
<1>13. CopiedWhole'
  <2> SUFFICES ASSUME NEW u \in Threads, NEW x \in Objects, NEW q \in Pointers,
                      Copies(todo'[u], x, q)
               PROVE  /\ m_pI'[q] = x
                      /\ Readable(q)' \/ (Gives(todo'[u], x) /\ Writes(todo'[u], q))
    BY DEF CopiedWhole
  <2>1. u # t /\ todo'[u] = todo[u]
    BY <1>5, <1>6
  <2> QED BY <1>1, <1>8, <2>1 DEF IInv, CopiedWhole
<1>14. ReadsValid'
  <2> SUFFICES ASSUME ~raced', NEW u \in Threads, NEW x \in Objects,
                      read'[u] # NotRead, Counts(u, x)'
               PROVE  read'[u] = m_nRef'[x]
    BY DEF ReadsValid
  <2>1. u # t /\ read[u] # NotRead
    BY <1>7
  <2>2. Counts(u, x)
    BY <1>6, <2>1 DEF Counts, Does, Idle
  <2>3. x # o
    BY <1>1, <2>1, <2>2
  <2> QED BY <1>7, <1>10, <2>1, <2>2, <2>3 DEF IInv, ReadsValid
<1>15. ASSUME NEW x \in Objects
       PROVE  /\ m_nRef'[x] = raw'[x] + Cardinality(Pointing(x)') + Cardinality(Givers(x)')
                                 + Cardinality(Havers(x)')
              /\ raw'[x] + Cardinality(Leavers(x)') <= MaxRaw
  <2>1. /\ m_nRef[x] = raw[x] + Cardinality(Pointing(x)) + Cardinality(Givers(x))
                           + Cardinality(Havers(x))
        /\ raw[x] + Cardinality(Leavers(x)) <= MaxRaw
    BY DEF IInv, Balanced, RawBounded
  <2>2. Pointing(x)' = Pointing(x)
    BY <1>1, <1>8 DEF Pointing
  <2>3. Leavers(x)' = Leavers(x)
    BY <1>5, <1>6, CallChanges
  <2>4. raw'[x] = raw[x] /\ raw[x] \in Nat
    BY <1>1 DEF IInv, Typed
  <2>5. CASE isAdd
    <3>1. Givers(x)' = Givers(x)
      BY <1>5, <1>6, <2>5, CallChanges
    <3>2. Cardinality(Havers(x)') =
              IF x = o THEN Cardinality(Havers(x)) + 1 ELSE Cardinality(Havers(x))
      BY <1>5, <1>6, <2>5, CallChanges
    <3>3. m_nRef'[x] = IF x = o THEN m_nRef[x] + 1 ELSE m_nRef[x]
      BY <1>10, <2>5
    <3>4. CASE x = o
      BY <2>1, <2>2, <2>3, <2>4, <3>1, <3>2, <3>3, <3>4, CountsAre
    <3>5. CASE x # o
      BY <2>1, <2>2, <2>3, <2>4, <3>1, <3>2, <3>3, <3>5, CountsAre
    <3> QED BY <3>4, <3>5
  <2>6. CASE ~isAdd
    <3>1. Havers(x)' = Havers(x)
      BY <1>5, <1>6, <2>6, CallChanges
    <3>2. Cardinality(Givers(x)') =
              IF x = o THEN Cardinality(Givers(x)) - 1 ELSE Cardinality(Givers(x))
      BY <1>5, <1>6, <2>6, CallChanges
    <3>3. m_nRef'[x] = IF x = o THEN m_nRef[x] - 1 ELSE m_nRef[x]
      BY <1>10, <2>6
    <3>4. CASE x = o
      BY <2>1, <2>2, <2>3, <2>4, <3>1, <3>2, <3>3, <3>4, CountsAre
    <3>5. CASE x # o
      BY <2>1, <2>2, <2>3, <2>4, <3>1, <3>2, <3>3, <3>5, CountsAre
    <3> QED BY <3>4, <3>5
  <2> QED BY <2>5, <2>6
<1>16. Balanced' /\ RawBounded'
  BY <1>15 DEF Balanced, RawBounded
<1>17. FreedAtZero'
  <2> SUFFICES ASSUME NEW x \in Objects
               PROVE  m_nRef'[x] = 0 <=> x \in freed' \/ x \notin born'
    BY DEF FreedAtZero
  <2>1. m_nRef[x] = 0 <=> x \in freed \/ x \notin born
    BY DEF IInv, FreedAtZero
  <2>2. CASE x # o
    BY <1>1, <1>3, <1>10, <2>1, <2>2
  <2>3. CASE x = o
    <3>1. m_nRef'[x] = n
      BY <1>10, <2>3
    <3>2. isAdd => n # 0
      BY <1>4, <1>9
    <3>3. x \in freed' <=> ~isAdd /\ n = 0
      BY <1>3, <1>4, <2>3
    <3> QED BY <1>1, <1>4, <2>3, <3>1, <3>2, <3>3
  <2> QED BY <2>2, <2>3
<1> QED BY <1>11, <1>12, <1>13, <1>14, <1>16, <1>17 DEF IInv

\* The pointer takes over the reference that its call had.
LEMMA StoreAddressStep ==
    ASSUME IInv, NEW t \in Threads, StoreAddress(t)
    PROVE  IInv'
<1>1. /\ Shape(todo[t], born) /\ todo[t] # <<>> /\ Head(todo[t]).do = "store"
      /\ read[t] = NotRead
  BY DEF StoreAddress, IInv, Typed, Does, Idle
<1>2. PICK p \in Pointers, w \in born \cup {Null} :
          p = Head(todo[t]).at /\ w = Head(todo[t]).what
  BY <1>1, AfterStore
<1>3. /\ m_pI' = [m_pI EXCEPT ![p] = w] /\ todo' = [todo EXCEPT ![t] = <<>>]
      /\ UNCHANGED <<interlocked, m_nRef, raw, born, freed, read, raced>>
  BY <1>1, <1>2, AfterStore DEF StoreAddress
<1>4. todo'[t] = <<>> /\ \A u \in Threads : u # t => todo'[u] = todo[u]
  BY <1>3 DEF IInv, Typed
<1>5. \A y : /\ ~Gives(todo[t], y) /\ ~Leaves(todo[t], y)
             /\ Has(todo[t], y) <=> y = w
             /\ Writes(todo[t], y) <=> y = p
  BY <1>1, <1>2, AfterStore
<1>6. m_pI'[p] = w /\ \A q \in Pointers : q # p => m_pI'[q] = m_pI[q]
  BY <1>3 DEF IInv, Typed
<1>7. \A u \in Threads : ~Writes(todo'[u], p)
  <2>1. \A u \in Threads : Writes(todo[u], p) => u = t
    BY <1>5 DEF IInv, WrittenAlone
  <2> QED BY <1>4, <2>1, OfNothing
<1>8. ~Readable(p) /\ Readable(p)'
  BY <1>5, <1>7, Readables
<1>9. \A q \in Pointers : q # p => (Readable(q)' <=> Readable(q))
  BY <1>4, <1>5, Readables, OfNothing
<1>10. Typed'
  <2>1. todo' = [u \in Threads |-> todo'[u]]
    BY <1>3 DEF IInv, Typed
  <2>2. \A u \in Threads : Shape(todo'[u], born')
    <3>1. Shape(<<>>, born)
      BY DEF Shape
    <3> QED BY <1>3, <1>4, <3>1 DEF IInv, Typed
  <2>3. \A u \in Threads : read'[u] # NotRead => Does(u)' \in {"add", "release"}
    BY <1>1, <1>3, <1>4 DEF IInv, Typed, Does, Idle
  <2>4. m_pI' \in [Pointers -> born' \cup {Null}]
    BY <1>3 DEF IInv, Typed
  <2> QED BY <1>3, <2>1, <2>2, <2>3, <2>4 DEF IInv, Typed
<1>11. WrittenAlone' /\ FreedAtZero'
  BY <1>3, <1>4, OfNothing DEF IInv, WrittenAlone, FreedAtZero
<1>12. CopiedWhole'
  <2> SUFFICES ASSUME NEW u \in Threads, NEW o \in Objects, NEW q \in Pointers,
                      Copies(todo'[u], o, q)
               PROVE  /\ m_pI'[q] = o
                      /\ Readable(q)' \/ (Gives(todo'[u], o) /\ Writes(todo'[u], q))
    BY DEF CopiedWhole
  <2>1. u # t /\ todo'[u] = todo[u]
    BY <1>4, OfNothing
  <2>2. m_pI[q] = o /\ (Readable(q) \/ (Gives(todo[u], o) /\ Writes(todo[u], q)))
    BY <2>1 DEF IInv, CopiedWhole
  <2>3. q # p
    BY <1>7, <1>8, <2>1, <2>2
  <2> QED BY <1>6, <1>9, <2>1, <2>2, <2>3
<1>13. ReadsValid'
  <2> SUFFICES ASSUME ~raced', NEW u \in Threads, NEW o \in Objects,
                      read'[u] # NotRead, Counts(u, o)'
               PROVE  read'[u] = m_nRef'[o]
    BY DEF ReadsValid
  <2>1. u # t /\ read[u] # NotRead /\ ~raced
    BY <1>1, <1>3
  <2>2. Counts(u, o)
    BY <1>4, <2>1 DEF Counts, Does, Idle
  <2> QED BY <1>3, <2>1, <2>2 DEF IInv, ReadsValid
<1>14. ASSUME NEW o \in Objects
       PROVE  /\ m_nRef'[o] = raw'[o] + Cardinality(Pointing(o)') + Cardinality(Givers(o)')
                                 + Cardinality(Havers(o)')
              /\ raw'[o] + Cardinality(Leavers(o)') <= MaxRaw
  <2>1. /\ m_nRef[o] = raw[o] + Cardinality(Pointing(o)) + Cardinality(Givers(o))
                           + Cardinality(Havers(o))
        /\ raw[o] + Cardinality(Leavers(o)) <= MaxRaw
    BY DEF IInv, Balanced, RawBounded
  <2>2. Givers(o)' = Givers(o) /\ Leavers(o)' = Leavers(o)
    BY <1>4, <1>5, CallChanges, OfNothing
  <2>3. Cardinality(Havers(o)') =
            IF o = w THEN Cardinality(Havers(o)) - 1 ELSE Cardinality(Havers(o))
    BY <1>4, <1>5, CallChanges, OfNothing
  <2>4. Cardinality(Pointing(o)') =
            IF o = w THEN Cardinality(Pointing(o)) + 1 ELSE Cardinality(Pointing(o))
    BY <1>6, <1>8, <1>9, PointerChanges
  <2>5. m_nRef'[o] = m_nRef[o] /\ raw'[o] = raw[o] /\ raw[o] \in Nat
    BY <1>3 DEF IInv, Typed
  <2>6. CASE o = w
    BY <2>1, <2>2, <2>3, <2>4, <2>5, <2>6, CountsAre
  <2>7. CASE o # w
    BY <2>1, <2>2, <2>3, <2>4, <2>5, <2>7, CountsAre
  <2> QED BY <2>6, <2>7
<1>15. Balanced' /\ RawBounded'
  BY <1>14 DEF Balanced, RawBounded
<1> QED BY <1>10, <1>11, <1>12, <1>13, <1>15 DEF IInv

\* add_ref() returns: its caller has the reference.
LEMMA LeaveReferenceStep ==
    ASSUME IInv, NEW t \in Threads, LeaveReference(t)
    PROVE  IInv'
<1>1. /\ Shape(todo[t], born) /\ todo[t] # <<>> /\ Head(todo[t]).do = "leave"
      /\ read[t] = NotRead
  BY DEF LeaveReference, IInv, Typed, Does, Idle
<1>2. PICK y \in born : y = Head(todo[t]).at
  BY <1>1, AfterLeave
<1>3. /\ raw' = [raw EXCEPT ![y] = @ + 1] /\ todo' = [todo EXCEPT ![t] = <<>>]
      /\ UNCHANGED <<interlocked, m_nRef, m_pI, born, freed, read, raced>>
  BY <1>1, <1>2, AfterLeave DEF LeaveReference
<1>4. todo'[t] = <<>> /\ \A u \in Threads : u # t => todo'[u] = todo[u]
  BY <1>3 DEF IInv, Typed
<1>5. \A x : /\ ~Gives(todo[t], x) /\ ~Writes(todo[t], x)
             /\ Has(todo[t], x) <=> x = y
             /\ Leaves(todo[t], x) <=> x = y
  BY <1>1, <1>2, AfterLeave
<1>6. \A q \in Pointers : Readable(q)' <=> Readable(q)
  BY <1>4, <1>5, Readables, OfNothing
<1>7. raw \in [Objects -> Nat] /\ y \in Objects
  BY DEF IInv, Typed
<1>8. Typed'
  <2>1. todo' = [u \in Threads |-> todo'[u]]
    BY <1>3 DEF IInv, Typed
  <2>2. \A u \in Threads : Shape(todo'[u], born')
    <3>1. Shape(<<>>, born)
      BY DEF Shape
    <3> QED BY <1>3, <1>4, <3>1 DEF IInv, Typed
  <2>3. \A u \in Threads : read'[u] # NotRead => Does(u)' \in {"add", "release"}
    BY <1>1, <1>3, <1>4 DEF IInv, Typed, Does, Idle
  <2>4. raw' \in [Objects -> Nat]
    BY <1>3, <1>7
  <2> QED BY <1>3, <2>1, <2>2, <2>3, <2>4 DEF IInv, Typed
<1>9. WrittenAlone' /\ FreedAtZero'
  BY <1>3, <1>4, OfNothing DEF IInv, WrittenAlone, FreedAtZero
<1>10. CopiedWhole'
  BY <1>3, <1>4, <1>6, OfNothing DEF IInv, CopiedWhole
<1>11. ReadsValid'
  <2> SUFFICES ASSUME ~raced', NEW u \in Threads, NEW o \in Objects,
                      read'[u] # NotRead, Counts(u, o)'
               PROVE  read'[u] = m_nRef'[o]
    BY DEF ReadsValid
  <2>1. u # t /\ read[u] # NotRead /\ ~raced
    BY <1>1, <1>3
  <2>2. Counts(u, o)
    BY <1>4, <2>1 DEF Counts, Does, Idle
  <2> QED BY <1>3, <2>1, <2>2 DEF IInv, ReadsValid
<1>12. ASSUME NEW o \in Objects
       PROVE  /\ m_nRef'[o] = raw'[o] + Cardinality(Pointing(o)') + Cardinality(Givers(o)')
                                 + Cardinality(Havers(o)')
              /\ raw'[o] + Cardinality(Leavers(o)') <= MaxRaw
  <2>1. /\ m_nRef[o] = raw[o] + Cardinality(Pointing(o)) + Cardinality(Givers(o))
                           + Cardinality(Havers(o))
        /\ raw[o] + Cardinality(Leavers(o)) <= MaxRaw
    BY DEF IInv, Balanced, RawBounded
  <2>2. Givers(o)' = Givers(o)
    BY <1>4, <1>5, CallChanges, OfNothing
  <2>3. Cardinality(Havers(o)') =
            IF o = y THEN Cardinality(Havers(o)) - 1 ELSE Cardinality(Havers(o))
    BY <1>4, <1>5, CallChanges, OfNothing
  <2>4. Cardinality(Leavers(o)') =
            IF o = y THEN Cardinality(Leavers(o)) - 1 ELSE Cardinality(Leavers(o))
    BY <1>4, <1>5, CallChanges, OfNothing
  <2>5. Pointing(o)' = Pointing(o)
    BY <1>3, <1>6 DEF Pointing
  <2>6. m_nRef'[o] = m_nRef[o] /\ raw'[o] = IF o = y THEN raw[o] + 1 ELSE raw[o]
    BY <1>3, <1>7
  <2>7. raw[o] \in Nat /\ MaxRaw \in Nat
    BY <1>7, RefCountedAssumption
  <2>8. CASE o = y
    BY <2>1, <2>2, <2>3, <2>4, <2>5, <2>6, <2>7, <2>8, CountsAre
  <2>9. CASE o # y
    BY <2>1, <2>2, <2>3, <2>4, <2>5, <2>6, <2>7, <2>9, CountsAre
  <2> QED BY <2>8, <2>9
<1>13. Balanced' /\ RawBounded'
  BY <1>12 DEF Balanced, RawBounded
<1> QED BY <1>8, <1>9, <1>10, <1>11, <1>13 DEF IInv

\* No step of any call breaks the invariant.
LEMMA Step == IInv /\ [Next]_vars => IInv'
<1> SUFFICES ASSUME IInv, [Next]_vars PROVE IInv'
  OBVIOUS
<1>1. CASE UNCHANGED vars
  <2>1. \A p \in Pointers : Readable(p)' <=> Readable(p)
    BY <1>1, Readables DEF vars
  <2>2. \A x : /\ Pointing(x)' = Pointing(x) /\ Givers(x)' = Givers(x)
               /\ Havers(x)' = Havers(x) /\ Leavers(x)' = Leavers(x)
    BY <1>1, <2>1 DEF vars, Pointing, Givers, Havers, Leavers
  <2>3. Typed' /\ WrittenAlone' /\ ReadsValid' /\ FreedAtZero'
    BY <1>1 DEF vars, IInv, Typed, WrittenAlone, ReadsValid, FreedAtZero, Does, Idle, Counts
  <2>4. CopiedWhole'
    BY <1>1, <2>1 DEF vars, IInv, CopiedWhole
  <2>5. Balanced' /\ RawBounded'
    BY <1>1, <2>2 DEF vars, IInv, Balanced, RawBounded
  <2> QED BY <2>3, <2>4, <2>5 DEF IInv
<1>2. CASE Next
  <2>1. ~raced
    BY <1>2 DEF Next
  <2>2. PICK t \in Threads :
          \/ StoreAddress(t) \/ LeaveReference(t)
          \/ \E o \in Objects :
                New(t, o) \/ CallRelease(t, o) \/ ReadCount(t, o) \/ WriteCount(t, o)
          \/ \E p \in Pointers :
                \/ Abandon(t, p) \/ Drop(t, p) \/ CallAddRef(t, p)
                \/ \E o \in Objects : Adopt(t, p, o)
                \/ \E q \in Pointers : Reset(t, p, q)
    BY <1>2 DEF Next
  <2>3. CASE StoreAddress(t) \/ LeaveReference(t)
    BY <2>3, StoreAddressStep, LeaveReferenceStep
  <2>4. ASSUME NEW o \in Objects,
               New(t, o) \/ CallRelease(t, o) \/ ReadCount(t, o) \/ WriteCount(t, o)
        PROVE  IInv'
    BY <2>1, <2>4, NewStep, CallReleaseStep, ReadCountStep, WriteCountStep
  <2>5. ASSUME NEW p \in Pointers, Abandon(t, p) \/ Drop(t, p) \/ CallAddRef(t, p)
        PROVE  IInv'
    BY <2>5, AbandonStep, DropStep, CallAddRefStep
  <2>6. ASSUME NEW p \in Pointers, NEW o \in Objects, Adopt(t, p, o)
        PROVE  IInv'
    BY <2>6, AdoptStep
  <2>7. ASSUME NEW p \in Pointers, NEW q \in Pointers, Reset(t, p, q)
        PROVE  IInv'
    BY <2>7, ResetStep
  <2> QED BY <2>2, <2>3, <2>4, <2>5, <2>6, <2>7
<1> QED BY <1>1, <1>2

-----------------------------------------------------------------------------
(* The theorems *)

\* The invariant holds in every reachable state: each count is the number of references that
\* pointers, callers and calls under way have.
THEOREM RefCountedCorrect == Spec => []IInv
<1>1. Init => IInv
  <2> SUFFICES ASSUME Init PROVE IInv
    OBVIOUS
  <2>1. Typed
    BY DEF Init, Typed, Shape
  <2>2. \A t \in Threads : todo[t] = <<>>
    BY DEF Init
  <2>3. WrittenAlone /\ CopiedWhole /\ ReadsValid
    BY <2>2, OfNothing DEF Init, WrittenAlone, CopiedWhole, ReadsValid
  <2>4. ASSUME NEW o \in Objects
        PROVE  Pointing(o) = {} /\ Givers(o) = {} /\ Havers(o) = {} /\ Leavers(o) = {}
    BY <2>2, OfNothing, RefCountedAssumption
       DEF Init, Pointing, Givers, Havers, Leavers
  <2>5. Cardinality({}) = 0
    BY FS_EmptySet
  <2>6. Balanced /\ RawBounded
    <3>1. ASSUME NEW o \in Objects
          PROVE  /\ m_nRef[o] = 0 /\ raw[o] = 0
                 /\ Cardinality(Pointing(o)) = 0 /\ Cardinality(Givers(o)) = 0
                 /\ Cardinality(Havers(o)) = 0 /\ Cardinality(Leavers(o)) = 0
      BY <2>4, <2>5 DEF Init
    <3> QED BY <3>1, RefCountedAssumption DEF Balanced, RawBounded
  <2>7. FreedAtZero
    BY DEF Init, FreedAtZero
  <2> QED BY <2>1, <2>3, <2>6, <2>7 DEF IInv
<1> QED BY <1>1, Step, PTL DEF Spec

\* Every reachable state is well typed: no count falls below zero (refcounted.h:17-20), and
\* the references that no pointer holds stay within their bound.
THEOREM TypesCorrect == Spec => []TypeOK
<1>1. IInv => TypeOK
  <2> SUFFICES ASSUME IInv PROVE TypeOK
    OBVIOUS
  <2>1. \A o \in Objects : raw[o] \in 0..MaxRaw
    BY CountsAre, RefCountedAssumption DEF IInv, Typed, RawBounded
  <2>2. raw \in [Objects -> 0..MaxRaw]
    BY <2>1 DEF IInv, Typed
  <2>3. ASSUME NEW s, Shape(s, born) PROVE Len(s) <= 3
    <3>1. \A a, b, c : /\ Len(<<>>) <= 3 /\ Len(<<a>>) <= 3
                       /\ Len(<<a, b>>) <= 3 /\ Len(<<a, b, c>>) <= 3
      OBVIOUS
    <3> QED BY <2>3, <3>1 DEF Shape
  <2>4. \A t \in Threads :
          read[t] # NotRead => todo[t] # <<>> /\ Head(todo[t]).do \in {"add", "release"}
    BY DEF IInv, Typed, Does, Idle
  <2>5. m_pI \in [Pointers -> Objects \cup {Null}]
    BY DEF IInv, Typed
  <2> QED BY <2>2, <2>3, <2>4, <2>5 DEF IInv, Typed, TypeOK
<1> QED BY <1>1, RefCountedCorrect, PTL

\* An object is deleted when, and only when, nobody holds it any more, by whatever way its
\* references went through pointers, abandon(), adoption and add_ref() (refcounted.h:66-79).
THEOREM ObjectsFreedOnceUnheld == Spec => []FreedOnceUnheld
<1>1. IInv => FreedOnceUnheld
  <2> SUFFICES ASSUME IInv PROVE FreedOnceUnheld
    OBVIOUS
  <2>1. ASSUME NEW o \in freed PROVE ~Held(o) /\ \A t \in Threads : ~Counts(t, o)
    <3>1. o \in Objects /\ m_nRef[o] = 0 /\ raw[o] \in Nat
      BY DEF IInv, Typed, FreedAtZero
    <3>2. raw[o] = 0 /\ Cardinality(Pointing(o)) = 0
      <4>1. m_nRef[o] = raw[o] + Cardinality(Pointing(o)) + Cardinality(Givers(o))
                            + Cardinality(Havers(o))
        BY <3>1 DEF IInv, Balanced
      <4>2. /\ Cardinality(Pointing(o)) \in Nat /\ Cardinality(Givers(o)) \in Nat
            /\ Cardinality(Havers(o)) \in Nat
        BY CountsAre
      <4>3. \A a, b, c, d \in Nat : a + b + c + d = 0 => a = 0 /\ b = 0
        OBVIOUS
      <4> QED BY ONLY <3>1, <4>1, <4>2, <4>3
    <3>3. Pointing(o) = {}
      BY <3>2, CountsAre
    <3>4. ~Held(o)
      BY <3>2, <3>3 DEF Held, Pointing
    <3> QED BY <3>1, <3>4, CountedLives
  <2>2. ASSUME \A t \in Threads : Idle(t), NEW o \in born PROVE Held(o) \/ o \in freed
    <3>1. o \in Objects /\ raw[o] \in Nat
      BY DEF IInv, Typed
    <3>2. Givers(o) = {} /\ Havers(o) = {}
      BY <2>2, OfNothing DEF Idle, Givers, Havers
    <3>3. m_nRef[o] = raw[o] + Cardinality(Pointing(o))
      <4>1. m_nRef[o] = raw[o] + Cardinality(Pointing(o)) + Cardinality(Givers(o))
                            + Cardinality(Havers(o))
        BY <3>1 DEF IInv, Balanced
      <4>2. Cardinality(Givers(o)) = 0 /\ Cardinality(Havers(o)) = 0
        BY <3>2, FS_EmptySet
      <4>3. Cardinality(Pointing(o)) \in Nat
        BY CountsAre
      <4> QED BY <3>1, <4>1, <4>2, <4>3
    <3>4. CASE Pointing(o) = {}
      BY <3>1, <3>3, <3>4, FS_EmptySet DEF IInv, FreedAtZero, Held
    <3>5. CASE Pointing(o) # {}
      BY <3>5 DEF Held, Pointing
    <3> QED BY <3>4, <3>5
  <2> QED BY <2>1, <2>2 DEF FreedOnceUnheld
<1> QED BY <1>1, RefCountedCorrect, PTL

=============================================================================
