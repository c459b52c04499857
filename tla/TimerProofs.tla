---------------------------- MODULE TimerProofs ----------------------------
(***************************************************************************)
(* Theorems about Timer, for every set of tasks, names and callers and     *)
(* every bound of the clock.                                               *)
(***************************************************************************)
EXTENDS Timer, SequenceTheorems, TLAPS

-----------------------------------------------------------------------------
(* Lists: insertion, removal and removal of the front *)

\* std::list::insert before position p.
LEMMA InsertAtElements ==
    ASSUME NEW S, NEW q \in Seq(S), NEW p \in 1 .. (Len(q) + 1), NEW e \in S
    PROVE  /\ InsertAt(q, p, e) \in Seq(S)
           /\ Len(InsertAt(q, p, e)) = Len(q) + 1
           /\ \A i \in 1 .. (Len(q) + 1) : InsertAt(q, p, e)[i] =
                IF i < p THEN q[i] ELSE IF i = p THEN e ELSE q[i - 1]
<1> DEFINE left == SubSeq(q, 1, p - 1)
           right == SubSeq(q, p, Len(q))
           most == left \o <<e>>
<1>1. /\ left \in Seq(S) /\ Len(left) = p - 1
      /\ \A i \in 1 .. (p - 1) : left[i] = q[i]
  BY SubSeqProperties, LenProperties, ElementOfSeq
<1>2. /\ right \in Seq(S) /\ Len(right) = Len(q) + 1 - p
      /\ \A i \in 1 .. (Len(q) + 1 - p) : right[i] = q[p + i - 1]
  BY SubSeqProperties, LenProperties, ElementOfSeq
<1>3. <<e>> \in Seq(S) /\ Len(<<e>>) = 1 /\ <<e>>[1] = e
  OBVIOUS
<1> HIDE DEF left, right
<1>4. /\ most \in Seq(S) /\ Len(most) = Len(left) + Len(<<e>>)
      /\ \A i \in 1 .. Len(left) + Len(<<e>>) :
            most[i] = IF i <= Len(left) THEN left[i] ELSE <<e>>[i - Len(left)]
  BY <1>1, <1>3, ConcatProperties
<1>5. \A i \in 1 .. p : most[i] = IF i < p THEN q[i] ELSE e
  BY <1>1, <1>3, <1>4, LenProperties
<1> HIDE DEF most
<1>a. most \in Seq(S) /\ right \in Seq(S)
  BY <1>2, <1>4
<1>6. /\ most \o right \in Seq(S) /\ Len(most \o right) = Len(most) + Len(right)
      /\ \A i \in 1 .. Len(most) + Len(right) : (most \o right)[i] =
            IF i <= Len(most) THEN most[i] ELSE right[i - Len(most)]
  BY ONLY <1>a, ConcatProperties, Zenon
<1>7. Len(most) = p /\ Len(most) + Len(right) = Len(q) + 1
  BY <1>1, <1>2, <1>3, <1>4, LenProperties
<1>8. \A i \in 1 .. (Len(q) + 1) : (most \o right)[i] =
            IF i < p THEN q[i] ELSE IF i = p THEN e ELSE q[i - 1]
  BY <1>2, <1>5, <1>6, <1>7, LenProperties
<1>9. InsertAt(q, p, e) = most \o right
  BY DEF InsertAt, most, left, right
<1> QED BY <1>6, <1>7, <1>8, <1>9

\* std::list::erase at position p.
LEMMA RemoveAtElements ==
    ASSUME NEW S, NEW q \in Seq(S), NEW p \in 1 .. Len(q)
    PROVE  /\ RemoveAt(q, p) \in Seq(S)
           /\ Len(RemoveAt(q, p)) = Len(q) - 1
           /\ \A i \in 1 .. (Len(q) - 1) : RemoveAt(q, p)[i] =
                IF i < p THEN q[i] ELSE q[i + 1]
<1> DEFINE left == SubSeq(q, 1, p - 1)
           right == SubSeq(q, p + 1, Len(q))
<1>1. /\ left \in Seq(S) /\ Len(left) = p - 1
      /\ \A i \in 1 .. (p - 1) : left[i] = q[i]
  BY SubSeqProperties, LenProperties, ElementOfSeq
<1>2. /\ right \in Seq(S) /\ Len(right) = Len(q) - p
      /\ \A i \in 1 .. (Len(q) - p) : right[i] = q[p + i]
  BY SubSeqProperties, LenProperties, ElementOfSeq
<1> HIDE DEF left, right
<1>3. /\ left \o right \in Seq(S) /\ Len(left \o right) = Len(left) + Len(right)
      /\ \A i \in 1 .. Len(left) + Len(right) : (left \o right)[i] =
            IF i <= Len(left) THEN left[i] ELSE right[i - Len(left)]
  BY <1>1, <1>2, ConcatProperties
<1>4. Len(left) + Len(right) = Len(q) - 1
  BY <1>1, <1>2, LenProperties
<1> DEFINE both == left \o right
<1>5. RemoveAt(q, p) = both
  BY DEF RemoveAt, left, right
<1> HIDE DEF both
<1>6. \A i \in 1 .. (Len(q) - 1) : both[i] = IF i < p THEN q[i] ELSE q[i + 1]
  BY <1>1, <1>2, <1>3, <1>4, LenProperties DEF both
<1> QED BY <1>3, <1>4, <1>5, <1>6 DEF both

\* A list without repetitions keeps none when a new element comes in.
LEMMA InsertAtSet ==
    ASSUME NEW S, NEW q \in Seq(S), NEW p \in 1 .. (Len(q) + 1), NEW e \in S,
           IsInjective(q), e \notin ToSet(q)
    PROVE  /\ ToSet(InsertAt(q, p, e)) = ToSet(q) \cup {e}
           /\ IsInjective(InsertAt(q, p, e))
<1> DEFINE r == InsertAt(q, p, e)
<1>1. /\ r \in Seq(S) /\ Len(r) = Len(q) + 1
      /\ DOMAIN r = 1 .. (Len(q) + 1)
      /\ DOMAIN q = 1 .. Len(q)
      /\ Len(q) \in Nat
      /\ \A i \in 1 .. (Len(q) + 1) :
            r[i] = IF i < p THEN q[i] ELSE IF i = p THEN e ELSE q[i - 1]
  BY InsertAtElements, LenProperties
<1> HIDE DEF r
<1>2. ToSet(r) \subseteq ToSet(q) \cup {e}
  <2> SUFFICES ASSUME NEW i \in DOMAIN r PROVE r[i] \in ToSet(q) \cup {e}
    BY DEF ToSet
  <2>1. CASE i < p
    BY <1>1, <2>1 DEF ToSet
  <2>2. CASE i = p
    BY <1>1, <2>2 DEF ToSet
  <2>3. CASE i > p
    <3>1. r[i] = q[i - 1] /\ i - 1 \in DOMAIN q
      BY <1>1, <2>3
    <3> QED BY <3>1 DEF ToSet
  <2> QED BY <1>1, <2>1, <2>2, <2>3
<1>3. ToSet(q) \cup {e} \subseteq ToSet(r)
  <2>1. e \in ToSet(r)
    <3>1. p \in DOMAIN r /\ r[p] = e
      BY <1>1
    <3> QED BY <3>1 DEF ToSet
  <2>2. ASSUME NEW i \in DOMAIN q PROVE q[i] \in ToSet(r)
    <3>1. CASE i < p
      <4>1. i \in DOMAIN r /\ r[i] = q[i]
        BY <1>1, <3>1
      <4> QED BY <4>1 DEF ToSet
    <3>2. CASE i >= p
      <4>1. i + 1 \in DOMAIN r /\ r[i + 1] = q[i]
        BY <1>1, <3>2
      <4> QED BY <4>1 DEF ToSet
    <3> QED BY <1>1, <3>1, <3>2
  <2> QED BY <2>1, <2>2 DEF ToSet
<1>4. IsInjective(r)
  <2> SUFFICES ASSUME NEW i \in DOMAIN r, NEW j \in DOMAIN r, r[i] = r[j]
               PROVE  i = j
    BY DEF IsInjective
  <2>1. \A k \in 1 .. Len(q) : q[k] # e
    BY <1>1 DEF ToSet
  <2>2. \A k, l \in 1 .. Len(q) : q[k] = q[l] => k = l
    BY <1>1 DEF IsInjective
  <2>3. i \in 1 .. (Len(q) + 1) /\ j \in 1 .. (Len(q) + 1)
    BY <1>1
  <2> QED BY <1>1, <2>1, <2>2, <2>3
<1> QED BY <1>2, <1>3, <1>4 DEF r

\* Erasing one element of a list without repetitions removes that element.
LEMMA RemoveAtSet ==
    ASSUME NEW S, NEW q \in Seq(S), NEW p \in 1 .. Len(q), IsInjective(q)
    PROVE  /\ ToSet(RemoveAt(q, p)) = ToSet(q) \ {q[p]}
           /\ IsInjective(RemoveAt(q, p))
<1> DEFINE r == RemoveAt(q, p)
<1>1. /\ r \in Seq(S) /\ Len(r) = Len(q) - 1
      /\ DOMAIN r = 1 .. (Len(q) - 1)
      /\ DOMAIN q = 1 .. Len(q)
      /\ Len(q) \in Nat
      /\ \A i \in 1 .. (Len(q) - 1) : r[i] = IF i < p THEN q[i] ELSE q[i + 1]
  BY RemoveAtElements, LenProperties
<1> HIDE DEF r
<1>2. ASSUME NEW i \in DOMAIN r PROVE r[i] \in ToSet(q) \ {q[p]}
  <2>1. CASE i < p
    <3>1. i \in DOMAIN q /\ r[i] = q[i] /\ q[i] # q[p]
      BY <1>1, <2>1 DEF IsInjective
    <3> QED BY <3>1 DEF ToSet
  <2>2. CASE i >= p
    <3>1. i + 1 \in DOMAIN q /\ r[i] = q[i + 1] /\ q[i + 1] # q[p]
      BY <1>1, <2>2 DEF IsInjective
    <3> QED BY <3>1 DEF ToSet
  <2> QED BY <1>1, <2>1, <2>2
<1>3. ASSUME NEW i \in DOMAIN q, i # p PROVE q[i] \in ToSet(r)
  <2>1. CASE i < p
    <3>1. i \in DOMAIN r /\ r[i] = q[i]
      BY <1>1, <2>1
    <3> QED BY <3>1 DEF ToSet
  <2>2. CASE i > p
    <3>1. i - 1 \in DOMAIN r /\ r[i - 1] = q[i]
      BY <1>1, <2>2
    <3> QED BY <3>1 DEF ToSet
  <2> QED BY <1>1, <1>3, <2>1, <2>2
<1>4. ToSet(r) = ToSet(q) \ {q[p]}
  BY <1>2, <1>3 DEF ToSet
<1>5. IsInjective(r)
  <2> SUFFICES ASSUME NEW i \in DOMAIN r, NEW j \in DOMAIN r, r[i] = r[j]
               PROVE  i = j
    BY DEF IsInjective
  <2>1. \A k, l \in 1 .. Len(q) : q[k] = q[l] => k = l
    BY <1>1 DEF IsInjective
  <2>2. i \in 1 .. (Len(q) - 1) /\ j \in 1 .. (Len(q) - 1)
    BY <1>1
  <2> QED BY <1>1, <2>1, <2>2
<1> QED BY <1>4, <1>5 DEF r

\* pop_front() is the removal of position 1.
LEMMA TailIsRemoveAt ==
    ASSUME NEW S, NEW q \in Seq(S), q # <<>>
    PROVE  /\ 1 \in 1 .. Len(q)
           /\ Head(q) = q[1]
           /\ Head(q) \in S
           /\ Head(q) \in ToSet(q)
           /\ Tail(q) = RemoveAt(q, 1)
<1>1. Len(q) \in Nat \ {0} /\ DOMAIN q = 1 .. Len(q)
  BY EmptySeq, LenProperties
<1>2. 1 \in 1 .. Len(q) /\ Head(q) = q[1] /\ Head(q) \in S
  BY <1>1, HeadTailProperties
<1>3. Head(q) \in ToSet(q)
  BY <1>1, <1>2 DEF ToSet
<1> DEFINE r == RemoveAt(q, 1)
<1>4. /\ r \in Seq(S) /\ Len(r) = Len(q) - 1
      /\ \A i \in 1 .. (Len(q) - 1) : r[i] = IF i < 1 THEN q[i] ELSE q[i + 1]
  BY <1>2, RemoveAtElements
<1> HIDE DEF r
<1>5. /\ Tail(q) \in Seq(S) /\ Len(Tail(q)) = Len(q) - 1
      /\ \A i \in 1 .. (Len(q) - 1) : Tail(q)[i] = q[i + 1]
  BY <1>1, HeadTailProperties
<1>6. Tail(q) = r
  <2>1. \A i \in 1 .. Len(Tail(q)) : Tail(q)[i] = r[i]
    BY <1>1, <1>4, <1>5
  <2> QED BY <1>4, <1>5, <2>1, SeqEqual
<1> QED BY <1>2, <1>3, <1>6 DEF r

\* A list in order of time stays so when an element goes in at its lower bound.
LEMMA InsertAtOrdered ==
    ASSUME NEW q \in Seq(Tasks), NEW ts \in [Tasks -> Impl], NEW t \in Tasks,
           NEW p \in 1 .. (Len(q) + 1),
           Ordered(q, ts), IsLowerBound(q, ts, ts[t].nextExecutionTime, p)
    PROVE  Ordered(InsertAt(q, p, t), ts)
<1> DEFINE r == InsertAt(q, p, t)
           time(u) == ts[u].nextExecutionTime
<1>1. /\ r \in Seq(Tasks) /\ Len(r) = Len(q) + 1
      /\ DOMAIN r = 1 .. (Len(q) + 1)
      /\ DOMAIN q = 1 .. Len(q)
      /\ Len(q) \in Nat
      /\ \A i \in 1 .. (Len(q) + 1) :
            r[i] = IF i < p THEN q[i] ELSE IF i = p THEN t ELSE q[i - 1]
  BY InsertAtElements, LenProperties
<1> HIDE DEF r
<1>2. \A i, j \in 1 .. Len(q) : i < j => time(q[i]) <= time(q[j])
  BY <1>1 DEF Ordered
<1>3. /\ \A i \in 1 .. (p - 1) : time(q[i]) < time(t)
      /\ \A i \in p .. Len(q) : time(t) <= time(q[i])
  BY DEF IsLowerBound
<1>4. time(t) \in Int /\ \A i \in 1 .. Len(q) : time(q[i]) \in Int
  BY <1>1, ElementOfSeq DEF Impl
<1> HIDE DEF time
<1>5. ASSUME NEW i \in 1 .. (Len(q) + 1), NEW j \in 1 .. (Len(q) + 1), i < j
      PROVE  time(r[i]) <= time(r[j])
  <2>1. CASE j < p
    BY <1>1, <1>2, <1>5, <2>1
  <2>2. CASE j = p
    <3>1. r[j] = t /\ r[i] = q[i] /\ i \in 1 .. (p - 1) /\ i \in 1 .. Len(q)
      BY <1>1, <1>5, <2>2
    <3> QED BY <1>3, <1>4, <3>1
  <2>3. CASE j > p /\ i < p
    <3>1. /\ r[j] = q[j - 1] /\ r[i] = q[i]
          /\ i \in 1 .. (p - 1) /\ i \in 1 .. Len(q)
          /\ j - 1 \in p .. Len(q) /\ j - 1 \in 1 .. Len(q)
      BY <1>1, <1>5, <2>3
    <3>2. time(q[i]) < time(t) /\ time(t) <= time(q[j - 1])
      BY <1>3, <3>1
    <3> QED BY <1>4, <3>1, <3>2
  <2>4. CASE j > p /\ i = p
    <3>1. r[j] = q[j - 1] /\ r[i] = t /\ j - 1 \in p .. Len(q)
      BY <1>1, <1>5, <2>4
    <3> QED BY <1>3, <3>1
  <2>5. CASE j > p /\ i > p
    <3>1. /\ r[j] = q[j - 1] /\ r[i] = q[i - 1] /\ i - 1 < j - 1
          /\ i - 1 \in 1 .. Len(q) /\ j - 1 \in 1 .. Len(q)
      BY <1>1, <1>5, <2>5
    <3> QED BY <1>2, <3>1
  <2> QED BY <1>1, <1>5, <2>1, <2>2, <2>3, <2>4, <2>5
<1> QED BY <1>1, <1>5 DEF Ordered, r, time

\* ... and when an element is erased.
LEMMA RemoveAtOrdered ==
    ASSUME NEW q \in Seq(Tasks), NEW ts \in [Tasks -> Impl],
           NEW p \in 1 .. Len(q), Ordered(q, ts)
    PROVE  Ordered(RemoveAt(q, p), ts)
<1> DEFINE r == RemoveAt(q, p)
           time(u) == ts[u].nextExecutionTime
<1>1. /\ r \in Seq(Tasks) /\ Len(r) = Len(q) - 1
      /\ DOMAIN r = 1 .. (Len(q) - 1)
      /\ DOMAIN q = 1 .. Len(q)
      /\ Len(q) \in Nat
      /\ \A i \in 1 .. (Len(q) - 1) : r[i] = IF i < p THEN q[i] ELSE q[i + 1]
  BY RemoveAtElements, LenProperties
<1> HIDE DEF r
<1>2. \A i, j \in 1 .. Len(q) : i < j => time(q[i]) <= time(q[j])
  BY <1>1 DEF Ordered
<1> HIDE DEF time
<1>3. ASSUME NEW i \in 1 .. (Len(q) - 1), NEW j \in 1 .. (Len(q) - 1), i < j
      PROVE  time(r[i]) <= time(r[j])
  <2> DEFINE at(k) == IF k < p THEN k ELSE k + 1
  <2>1. r[i] = q[at(i)] /\ r[j] = q[at(j)]
    BY <1>1
  <2>2. at(i) \in 1 .. Len(q) /\ at(j) \in 1 .. Len(q) /\ at(i) < at(j)
    BY <1>1, <1>3
  <2> HIDE DEF at
  <2> QED BY <1>2, <2>1, <2>2
<1> QED BY <1>1, <1>3 DEF Ordered, r, time

\* The order depends on the times of the elements alone.
LEMMA OrderedByTimes ==
    ASSUME NEW q \in Seq(Tasks), NEW ts, NEW us, Ordered(q, ts),
           \A u \in ToSet(q) : us[u].nextExecutionTime = ts[u].nextExecutionTime
    PROVE  Ordered(q, us)
BY DEF Ordered, ToSet

\* push() of a task that is not in the list.
LEMMA PushAdds ==
    ASSUME NEW q \in Seq(Tasks), NEW ts \in [Tasks -> Impl], NEW t \in Tasks,
           IsInjective(q), t \notin ToSet(q), Push(q, t, ts)
    PROVE  /\ queue' \in Seq(Tasks)
           /\ Queued' = ToSet(q) \cup {t}
           /\ IsInjective(queue')
           /\ Len(queue') = Len(q) + 1
           /\ queue'[1] = t \/ (Len(q) > 0 /\ queue'[1] = q[1])
           /\ Ordered(q, ts) => Ordered(queue', ts)
<1>1. PICK p \in 1 .. (Len(q) + 1) :
        /\ IsLowerBound(q, ts, ts[t].nextExecutionTime, p)
        /\ queue' = InsertAt(q, p, t)
  BY DEF Push
<1>2. /\ queue' \in Seq(Tasks) /\ Len(queue') = Len(q) + 1
      /\ \A i \in 1 .. (Len(q) + 1) :
            queue'[i] = IF i < p THEN q[i] ELSE IF i = p THEN t ELSE q[i - 1]
  BY <1>1, InsertAtElements, SMTT(20)
<1>3. Queued' = ToSet(q) \cup {t} /\ IsInjective(queue')
  BY <1>1, InsertAtSet DEF Queued
<1>4. queue'[1] = t \/ (Len(q) > 0 /\ queue'[1] = q[1])
  BY <1>2, LenProperties
<1>5. Ordered(q, ts) => Ordered(queue', ts)
  BY <1>1, InsertAtOrdered
<1> QED BY <1>2, <1>3, <1>4, <1>5

\* pop_front() of a list without repetitions.
LEMMA TailDrops ==
    ASSUME NEW q \in Seq(Tasks), q # <<>>, IsInjective(q)
    PROVE  /\ Tail(q) \in Seq(Tasks)
           /\ Head(q) \in Tasks
           /\ Head(q) \in ToSet(q)
           /\ ToSet(Tail(q)) = ToSet(q) \ {Head(q)}
           /\ IsInjective(Tail(q))
           /\ \A ts \in [Tasks -> Impl] : Ordered(q, ts) => Ordered(Tail(q), ts)
<1>1. /\ 1 \in 1 .. Len(q) /\ Head(q) = q[1] /\ Head(q) \in Tasks
      /\ Head(q) \in ToSet(q) /\ Tail(q) = RemoveAt(q, 1)
  BY TailIsRemoveAt
<1>2. Tail(q) \in Seq(Tasks)
  BY HeadTailProperties
<1>3. ToSet(Tail(q)) = ToSet(q) \ {Head(q)} /\ IsInjective(Tail(q))
  BY <1>1, RemoveAtSet
<1>4. \A ts \in [Tasks -> Impl] : Ordered(q, ts) => Ordered(Tail(q), ts)
  BY <1>1, RemoveAtOrdered
<1> QED BY <1>1, <1>2, <1>3, <1>4

\* What a list holds is of the type of its elements.
LEMMA ToSetType == ASSUME NEW S, NEW q \in Seq(S) PROVE ToSet(q) \subseteq S
BY LenProperties, ElementOfSeq DEF ToSet

-----------------------------------------------------------------------------
(* Types *)

\* Every pointer the timer holds is one, and it may be followed.
LEMMA DeleteType ==
    ASSUME TypeOK, NEW S \in SUBSET Tasks, Delete(S)
    PROVE  impl' \in [Tasks -> Impl] /\ external' \subseteq Tasks /\ freed' \subseteq Tasks
<1>1. NewImpl \in Impl
  BY DEF NewImpl, Impl, States
<1> QED BY <1>1 DEF TypeOK, Delete

LEMMA SetTimesType ==
    ASSUME TypeOK, NEW t \in Tasks, NEW time \in Int, NEW per \in Nat, SetTimes(t, time, per)
    PROVE  impl' \in [Tasks -> Impl] /\ external' \subseteq Tasks
BY DEF TypeOK, SetTimes, Impl, States

\* Waking the thread and not waking it keep it at one of its points.
LEMMA SignalType ==
    ASSUME TypeOK, Signal \/ UNCHANGED sleepVars
    PROVE  thread' \in ThreadPoints /\ deadline' \in Int
BY DEF TypeOK, Signal, WakeUp, sleepVars, ThreadPoints, Asleep

\* Types need the list to have no repetitions only for the lemmas on it.
LEMMA AcceptType ==
    ASSUME TypeOK, IsInjective(queue),
           NEW t \in Tasks, NEW time \in Int, NEW per \in Nat, Accept(t, time, per)
    PROVE  TypeOK'
<1>1. impl' \in [Tasks -> Impl] /\ external' \subseteq Tasks
  BY SetTimesType DEF Accept
<1>2. queue' \in Seq(Tasks)
  BY <1>1, PushAdds DEF TypeOK, Accept, Queued
<1>3. thread' \in ThreadPoints /\ deadline' \in Int
  BY SignalType DEF Accept, SignalIfFront
<1> QED BY <1>1, <1>2, <1>3 DEF TypeOK, Accept, threadVars

LEMMA RescheduleType ==
    ASSUME TypeOK, IsInjective(queue), NEW t \in Tasks, Reschedule(t)
    PROVE  TypeOK'
<1>1. PICK d \in Delays, per \in Periods, i \in DOMAIN queue :
        /\ queue[i] = t
        /\ SetTimes(t, now + d, per)
        /\ Push(RemoveAt(queue, i), t, impl')
        /\ SignalIfFront(t)
        /\ owner' = [owner EXCEPT ![t] = IF @ = "caller" THEN "both" ELSE @]
        /\ UNCHANGED <<isCancelled, sem, freed, threadVars, caller, now>>
  BY DEF Reschedule
<1>2. now + d \in Int /\ per \in Nat
  BY TimesAssumption DEF TypeOK
<1>3. impl' \in [Tasks -> Impl] /\ external' \subseteq Tasks
  BY <1>1, <1>2, SetTimesType
<1>4. queue \in Seq(Tasks) /\ i \in 1 .. Len(queue)
  BY LenProperties DEF TypeOK
<1>5. /\ RemoveAt(queue, i) \in Seq(Tasks) /\ IsInjective(RemoveAt(queue, i))
      /\ t \notin ToSet(RemoveAt(queue, i))
  BY <1>1, <1>4, RemoveAtElements, RemoveAtSet
<1>6. queue' \in Seq(Tasks)
  BY <1>1, <1>3, <1>5, PushAdds
<1>7. thread' \in ThreadPoints /\ deadline' \in Int
  BY <1>1, SignalType DEF SignalIfFront
<1>8. owner' \in [Tasks -> {"caller", "timer", "both", "nobody"}]
  BY <1>1 DEF TypeOK
<1> QED BY <1>1, <1>3, <1>6, <1>7, <1>8 DEF TypeOK, threadVars

LEMMA FireRepeatingType ==
    ASSUME TypeOK, IsInjective(queue), FireRepeating
    PROVE  TypeOK'
<1> DEFINE t == Head(queue)
<1>1. queue \in Seq(Tasks) /\ queue # <<>>
  BY DEF TypeOK, FireRepeating, HasFront
<1>2. /\ t \in Tasks /\ Tail(queue) \in Seq(Tasks) /\ IsInjective(Tail(queue))
      /\ t \notin ToSet(Tail(queue))
  BY <1>1, TailDrops
<1>3. impl' \in [Tasks -> Impl]
  <2>1. impl' = [impl EXCEPT ![t].nextExecutionTime = @ + impl[t].period]
    BY DEF FireRepeating
  <2> HIDE DEF t
  <2>2. /\ impl \in [Tasks -> Impl] /\ impl[t] \in Impl
        /\ impl[t].period \in Int /\ impl[t].nextExecutionTime \in Int
    BY <1>2 DEF TypeOK, Impl
  <2> DEFINE later == impl[t].nextExecutionTime + impl[t].period
  <2>3. later \in Int
    BY <2>2
  <2>4. impl' = [impl EXCEPT ![t].nextExecutionTime = later]
    BY <2>1
  <2> HIDE DEF later
  <2>5. [impl[t] EXCEPT !.nextExecutionTime = later] \in Impl
    BY <2>2, <2>3 DEF Impl
  <2>6. impl' = [impl EXCEPT ![t] = [impl[t] EXCEPT !.nextExecutionTime = later]]
    BY <2>4
  <2> QED BY <1>2, <2>2, <2>5, <2>6
<1>4. queue' \in Seq(Tasks)
  BY <1>2, <1>3, PushAdds DEF FireRepeating
<1> QED BY <1>2, <1>3, <1>4 DEF TypeOK, FireRepeating, StartTask, ThreadPoints

\* Every step keeps the types.
LEMMA TypeStep ==
    ASSUME TypeOK, IsInjective(queue), thread = "destroy" => executedTask # NoTask,
           [Next]_vars
    PROVE  TypeOK'
<1> USE DEF implVars, threadVars, sleepVars
<1>1. ASSUME NEW t \in Tasks, Schedule(t) PROVE TypeOK'
  <2>1. PICK d \in Delays, per \in Periods : Accept(t, now + d, per)
    BY <1>1 DEF Schedule
  <2>2. now + d \in Int /\ per \in Nat
    BY TimesAssumption DEF TypeOK
  <2> QED BY <2>1, <2>2, AcceptType
<1>2. ASSUME NEW t \in Tasks, ScheduleAtTime(t) PROVE TypeOK'
  <2>1. PICK time \in 0 .. MaxTime, per \in Periods : Accept(t, time, per)
    BY <1>2 DEF ScheduleAtTime
  <2>2. time \in Int /\ per \in Nat
    BY TimesAssumption
  <2> QED BY <2>1, <2>2, AcceptType
<1>3. ASSUME NEW t \in Tasks, Reschedule(t) PROVE TypeOK'
  BY <1>3, RescheduleType
<1>4. ASSUME NEW t \in Tasks, DeleteOwned(t) PROVE TypeOK'
  BY <1>4, DeleteType DEF TypeOK, DeleteOwned
<1>5. ASSUME NEW t \in Tasks, NEW take \in BOOLEAN, Mark(t, take) PROVE TypeOK'
  BY <1>5 DEF TypeOK, Mark, Impl, States
<1>6. ASSUME NEW t \in Tasks, NEW take \in BOOLEAN, CancelTask(t, take) PROVE TypeOK'
  BY <1>5, <1>6 DEF CancelTask
<1>7. ASSUME NEW n \in Names, NEW take \in BOOLEAN, CancelNamed(n, take) PROVE TypeOK'
  <2>1. PICK i \in DOMAIN queue : Mark(queue[i], take)
    BY <1>7 DEF CancelNamed
  <2>2. queue[i] \in Tasks
    BY LenProperties, ElementOfSeq DEF TypeOK
  <2> QED BY <1>5, <2>1, <2>2
<1>8. ASSUME NEW c \in Callers, CancelTimer(c) PROVE TypeOK'
  BY <1>8, SignalType DEF TypeOK, CancelTimer, CallerPoints
<1>9. ASSUME NEW c \in Callers, CancelWait(c) PROVE TypeOK'
  BY <1>9 DEF TypeOK, CancelWait, CallerPoints
<1>10. ASSUME NEW c \in Callers, CancelJoin(c) PROVE TypeOK'
  BY <1>10 DEF TypeOK, CancelJoin, CallerPoints
<1>11. ASSUME NEW c \in Callers, Clean(c) PROVE TypeOK'
  <2>1. Queued \ external \in SUBSET Tasks
    BY ToSetType DEF TypeOK, Queued
  <2>2. /\ impl' \in [Tasks -> Impl] /\ external' \subseteq Tasks /\ freed' \subseteq Tasks
    BY <1>11, <2>1, DeleteType DEF Clean
  <2>3. queue' \in Seq(Tasks)
    BY <1>11, EmptySeq DEF Clean
  <2> QED BY <1>11, <2>2, <2>3 DEF TypeOK, Clean, CallerPoints
<1>12. CASE WaitForTask
  BY <1>12 DEF TypeOK, WaitForTask, ThreadPoints, Asleep
<1>13. CASE Stop
  BY <1>13 DEF TypeOK, Stop, ThreadPoints
<1>14. CASE Exit
  BY <1>14 DEF TypeOK, Exit, ThreadPoints
<1>15. CASE DropCancelled
  <2>1. queue' \in Seq(Tasks) /\ {Head(queue)} \ external \in SUBSET Tasks
    BY <1>15, TailDrops DEF TypeOK, DropCancelled, HasFront
  <2>2. /\ impl' \in [Tasks -> Impl] /\ external' \subseteq Tasks /\ freed' \subseteq Tasks
    BY <1>15, <2>1, DeleteType DEF DropCancelled
  <2> QED BY <1>15, <2>1, <2>2 DEF TypeOK, DropCancelled
<1>16. CASE FireOnce
  <2>1. queue' \in Seq(Tasks) /\ Head(queue) \in Tasks
    BY <1>16, TailDrops DEF TypeOK, FireOnce, HasFront
  <2>2. impl' \in [Tasks -> Impl]
    BY <1>16, <2>1 DEF TypeOK, FireOnce, Impl, States
  <2> QED BY <1>16, <2>1, <2>2 DEF TypeOK, FireOnce, StartTask, ThreadPoints
<1>17. CASE FireRepeating
  BY <1>17, FireRepeatingType
<1>18. CASE SleepUntilDue
  <2>1. Head(queue) \in Tasks
    BY <1>18, TailDrops DEF TypeOK, SleepUntilDue, HasFront
  <2>2. impl[Head(queue)].nextExecutionTime \in Int
    BY <2>1 DEF TypeOK, Impl
  <2> QED BY <1>18, <2>2 DEF TypeOK, SleepUntilDue, ThreadPoints, Asleep
<1>19. CASE Timeout \/ SpuriousWakeup
  BY <1>19 DEF TypeOK, Timeout, SpuriousWakeup, WakeUp, ThreadPoints
<1>20. CASE RunReturns
  BY <1>20 DEF TypeOK, RunReturns, ThreadPoints
<1>21. CASE RunThrows
  BY <1>21 DEF TypeOK, RunThrows, ThreadPoints
<1>22. CASE DestroyExecuted
  <2>1. {executedTask} \in SUBSET Tasks
    BY <1>22 DEF TypeOK, DestroyExecuted
  <2>2. /\ impl' \in [Tasks -> Impl] /\ external' \subseteq Tasks /\ freed' \subseteq Tasks
    BY <1>22, <2>1, DeleteType DEF DestroyExecuted
  <2> QED BY <1>22, <2>2 DEF TypeOK, DestroyExecuted, ThreadPoints
<1>23. CASE Tick
  BY <1>23 DEF TypeOK, Tick
<1>24. CASE UNCHANGED vars
  BY <1>24 DEF TypeOK, vars
<1> QED
  BY <1>1, <1>2, <1>3, <1>4, <1>6, <1>7, <1>8, <1>9, <1>10, <1>11, <1>12, <1>13, <1>14,
     <1>15, <1>16, <1>17, <1>18, <1>19, <1>20, <1>21, <1>22, <1>23, <1>24
     DEF Next, Call, Terminate, TimerThread

-----------------------------------------------------------------------------
(* Memory *)

\* The list stays as it is in every step that does not write it.
LEMMA SameQueue ==
    ASSUME UNCHANGED queue, IsInjective(queue)
    PROVE  Queued' = Queued /\ IsInjective(queue')
BY DEF Queued

\* A task comes into the queue: it was its caller's, or stood elsewhere in the list.
LEMMA AcceptMemory ==
    ASSUME TypeOK, MemoryInv,
           NEW t \in Tasks, NEW time \in Int, NEW per \in Nat, Accept(t, time, per)
    PROVE  MemoryInv'
<1> USE DEF MemoryInv
<1>1. /\ owner[t] = "caller" /\ ~isCancelled /\ t \notin Queued /\ t \notin freed
      /\ owner' = [owner EXCEPT ![t] = "timer"]
      /\ UNCHANGED <<isCancelled, freed, executedTask, current, caller, external>>
  BY DEF Accept, SetTimes, threadVars, OwnedAlive
<1>2. /\ Queued' = Queued \cup {t} /\ IsInjective(queue')
  <2>1. impl' \in [Tasks -> Impl]
    BY SetTimesType DEF Accept
  <2> QED BY <1>1, <2>1, PushAdds DEF TypeOK, MemorySafe, Accept, Queued
<1>3. \A u \in Tasks : u # t => impl'[u] = impl[u] /\ owner'[u] = owner[u]
  BY <1>1 DEF TypeOK, Accept, SetTimes
<1>4. thread' = thread \/ (thread \in Asleep /\ thread' = "lock")
  BY DEF Accept, SignalIfFront, Signal, WakeUp, sleepVars
<1>5. executedTask # t /\ t # NoTask
  BY <1>1, NoTaskAssumption DEF Ownership
<1>6. Queued \subseteq Tasks
  BY ToSetType DEF TypeOK, Queued
<1>7. MemorySafe'
  BY <1>1, <1>2, <1>5 DEF MemorySafe
<1>8. ThreadLocals'
  BY <1>1, <1>2, <1>4 DEF ThreadLocals, Asleep
<1>9. Ownership'
  BY <1>1, <1>2, <1>3, <1>5, <1>6 DEF Ownership, TypeOK
<1>10. OwnedAlive' /\ NoTaskLost'
  BY <1>1, <1>2, <1>3 DEF OwnedAlive, NoTaskLost, TypeOK
<1>11. Termination'
  BY <1>1, <1>4 DEF Termination, Asleep
<1> QED BY <1>7, <1>8, <1>9, <1>10, <1>11

LEMMA RescheduleMemory ==
    ASSUME TypeOK, MemoryInv, NEW t \in Tasks, Reschedule(t)
    PROVE  MemoryInv'
<1> USE DEF MemoryInv
<1>1. PICK d \in Delays, per \in Periods, i \in DOMAIN queue :
        /\ ~isCancelled
        /\ queue[i] = t
        /\ SetTimes(t, now + d, per)
        /\ Push(RemoveAt(queue, i), t, impl')
        /\ SignalIfFront(t)
        /\ owner' = [owner EXCEPT ![t] = IF @ = "caller" THEN "both" ELSE @]
        /\ UNCHANGED <<isCancelled, sem, freed, threadVars, caller, now>>
  BY DEF Reschedule
<1>2. t \in Queued /\ Queued' = Queued /\ IsInjective(queue')
  <2>1. queue \in Seq(Tasks) /\ i \in 1 .. Len(queue) /\ now + d \in Int /\ per \in Nat
    BY LenProperties, TimesAssumption DEF TypeOK
  <2>2. impl' \in [Tasks -> Impl]
    BY <1>1, <2>1, SetTimesType
  <2>3. /\ RemoveAt(queue, i) \in Seq(Tasks) /\ IsInjective(RemoveAt(queue, i))
        /\ ToSet(RemoveAt(queue, i)) = Queued \ {t}
    BY <1>1, <2>1, RemoveAtElements, RemoveAtSet DEF MemorySafe, Queued
  <2>4. t \in Queued
    BY <1>1, <2>1 DEF Queued, ToSet
  <2>5. t \notin ToSet(RemoveAt(queue, i))
    BY <2>3
  <2>6. Queued' = ToSet(RemoveAt(queue, i)) \cup {t} /\ IsInjective(queue')
    BY <1>1, <2>2, <2>3, <2>5, PushAdds
  <2> QED BY <2>3, <2>4, <2>6
<1>3. /\ \A u \in Tasks : u # t => impl'[u] = impl[u] /\ owner'[u] = owner[u]
      /\ impl'[t].state = "SCHEDULED"
      /\ owner'[t] = IF owner[t] = "caller" THEN "both" ELSE owner[t]
  BY <1>1 DEF TypeOK, SetTimes
<1>4. thread' = thread \/ (thread \in Asleep /\ thread' = "lock")
  BY <1>1 DEF SignalIfFront, Signal, WakeUp, sleepVars
<1>5. UNCHANGED <<isCancelled, freed, executedTask, current, caller, external>>
  BY <1>1 DEF threadVars, SetTimes
<1>6. Queued \subseteq Tasks
  BY ToSetType DEF TypeOK, Queued
<1>7. MemorySafe'
  BY <1>2, <1>5 DEF MemorySafe
<1>8. ThreadLocals'
  BY <1>2, <1>4, <1>5 DEF ThreadLocals, Asleep
<1>9. Ownership'
  <2>1. ASSUME NEW u \in Queued
        PROVE  \/ owner'[u] = "timer"
               \/ owner'[u] = "caller" /\ u \in external' /\ impl'[u].state = "CANCELLED"
               \/ owner'[u] = "both" /\ u \in external' /\ impl'[u].state = "SCHEDULED"
    <3>1. CASE u = t
      BY <1>3, <1>5, <3>1 DEF Ownership
    <3>2. CASE u # t
      BY <1>3, <1>5, <1>6, <3>2 DEF Ownership
    <3> QED BY <3>1, <3>2
  <2>2. executedTask # NoTask => owner'[executedTask] \in {"timer", "both"}
    BY <1>2, <1>3 DEF Ownership, MemorySafe, TypeOK
  <2> QED BY <1>2, <1>5, <2>1, <2>2 DEF Ownership
<1>10. OwnedAlive' /\ NoTaskLost'
  BY <1>2, <1>3, <1>5 DEF OwnedAlive, NoTaskLost
<1>11. Termination'
  BY <1>1, <1>4, <1>5 DEF Termination, Asleep
<1> QED BY <1>7, <1>8, <1>9, <1>10, <1>11

LEMMA MarkMemory ==
    ASSUME TypeOK, MemoryInv, NEW t \in Queued, NEW take \in BOOLEAN, Mark(t, take)
    PROVE  MemoryInv'
<1> USE DEF MemoryInv
<1>1. Queued' = Queued /\ IsInjective(queue')
  BY SameQueue DEF Mark, MemorySafe
<1>2. Queued \subseteq Tasks
  BY ToSetType DEF TypeOK, Queued
<1>3. /\ UNCHANGED <<isCancelled, freed, executedTask, current, thread, caller>>
      /\ external' = IF take THEN external \cup {t} ELSE external \ {t}
      /\ owner'[t] = IF take THEN "caller" ELSE "timer"
      /\ impl'[t].state = "CANCELLED"
      /\ \A u \in Tasks : u # t => impl'[u] = impl[u] /\ owner'[u] = owner[u]
  BY <1>2 DEF TypeOK, Mark, threadVars, sleepVars, Impl
<1>4. executedTask # t /\ t \notin freed
  BY DEF MemorySafe
<1>5. MemorySafe'
  BY <1>1, <1>3 DEF MemorySafe
<1>6. ThreadLocals'
  BY <1>1, <1>3 DEF ThreadLocals
<1>7. Ownership'
  <2>1. ASSUME NEW u \in Queued
        PROVE  \/ owner'[u] = "timer"
               \/ owner'[u] = "caller" /\ u \in external' /\ impl'[u].state = "CANCELLED"
               \/ owner'[u] = "both" /\ u \in external' /\ impl'[u].state = "SCHEDULED"
    BY <1>2, <1>3 DEF Ownership
  <2>2. executedTask # NoTask => owner'[executedTask] \in {"timer", "both"}
    BY <1>3, <1>4 DEF Ownership, TypeOK
  <2> QED BY <1>1, <1>3, <2>1, <2>2 DEF Ownership
<1>8. OwnedAlive' /\ NoTaskLost'
  BY <1>1, <1>2, <1>3, <1>4 DEF OwnedAlive, NoTaskLost
<1>9. Termination'
  BY <1>3 DEF Termination, Mark
<1> QED BY <1>5, <1>6, <1>7, <1>8, <1>9

LEMMA DeleteOwnedMemory ==
    ASSUME TypeOK, MemoryInv, NEW t \in Tasks, DeleteOwned(t)
    PROVE  MemoryInv'
<1> USE DEF MemoryInv
<1>1. Queued' = Queued /\ IsInjective(queue')
  BY SameQueue DEF DeleteOwned, MemorySafe
<1>2. Queued \subseteq Tasks
  BY ToSetType DEF TypeOK, Queued
<1>3. /\ UNCHANGED <<queue, isCancelled, executedTask, current, thread, caller>>
      /\ owner[t] = "caller" /\ t \notin Queued
      /\ freed' = freed \cup {t} /\ external' = external \ {t}
      /\ owner'[t] = "nobody"
      /\ \A u \in Tasks : u # t => impl'[u] = impl[u] /\ owner'[u] = owner[u]
  BY DEF TypeOK, DeleteOwned, Delete, threadVars, sleepVars
<1>4. executedTask # t /\ current # t
  BY <1>3, NoTaskAssumption DEF Ownership, ThreadLocals
<1>5. MemorySafe'
  BY <1>1, <1>3, <1>4 DEF MemorySafe
<1>6. ThreadLocals'
  BY <1>1, <1>3 DEF ThreadLocals
<1>7. Ownership'
  BY <1>1, <1>2, <1>3, <1>4 DEF Ownership, TypeOK
<1>8. OwnedAlive' /\ NoTaskLost'
  BY <1>1, <1>3 DEF OwnedAlive, NoTaskLost
<1>9. Termination'
  BY <1>3 DEF Termination
<1> QED BY <1>5, <1>6, <1>7, <1>8, <1>9

\* The front of the queue is dropped, and deleted unless somebody else owns it.
LEMMA DropCancelledMemory ==
    ASSUME TypeOK, MemoryInv, DropCancelled
    PROVE  MemoryInv'
<1> USE DEF MemoryInv
<1> DEFINE t == Head(queue)
<1>1. /\ Queued' = Queued \ {t} /\ IsInjective(queue')
      /\ t \in Queued /\ t \in Tasks
  BY TailDrops DEF TypeOK, MemorySafe, DropCancelled, HasFront, Queued
<1>2. /\ UNCHANGED <<isCancelled, executedTask, current, thread, owner, caller>>
      /\ thread = "lock"
      /\ t \in external => freed' = freed /\ external' = external
      /\ t \notin external => freed' = freed \cup {t} /\ external' = external
      /\ \A u \in Tasks : u # t => impl'[u] = impl[u]
  BY DEF TypeOK, DropCancelled, HasFront, Delete, threadVars, sleepVars
<1> HIDE DEF t
<1>3. Queued \subseteq Tasks
  BY ToSetType DEF TypeOK, Queued
<1>4. executedTask = NoTask /\ current = NoTask
  BY <1>2 DEF ThreadLocals
<1>5. MemorySafe'
  BY <1>1, <1>2, <1>3, <1>4, NoTaskAssumption DEF MemorySafe
<1>6. ThreadLocals'
  BY <1>1, <1>2, <1>4 DEF ThreadLocals
<1>7. Ownership'
  BY <1>1, <1>2, <1>3, <1>4 DEF Ownership
<1>8. OwnedAlive'
  BY <1>1, <1>2 DEF OwnedAlive, Ownership
<1>9. NoTaskLost'
  BY <1>1, <1>2 DEF NoTaskLost
<1>10. Termination'
  BY <1>2 DEF Termination
<1> QED BY <1>5, <1>6, <1>7, <1>8, <1>9, <1>10

\* A one-shot task leaves the queue for executedTask.
LEMMA FireOnceMemory ==
    ASSUME TypeOK, MemoryInv, FireOnce
    PROVE  MemoryInv'
<1> USE DEF MemoryInv
<1> DEFINE t == Head(queue)
<1>1. /\ Queued' = Queued \ {t} /\ IsInjective(queue')
      /\ t \in Queued /\ t \in Tasks
  BY TailDrops DEF TypeOK, MemorySafe, FireOnce, HasFront, Queued
<1>2. /\ UNCHANGED <<isCancelled, freed, owner, external, caller>>
      /\ thread = "lock" /\ thread' = "run" /\ executedTask' = t /\ current' = t
      /\ impl[t].state # "CANCELLED"
      /\ \A u \in Tasks : u # t => impl'[u] = impl[u]
  BY DEF TypeOK, FireOnce, IsDue, HasFront, StartTask
<1> HIDE DEF t
<1>3. Queued \subseteq Tasks
  BY ToSetType DEF TypeOK, Queued
<1>4. t # NoTask /\ t \notin freed /\ owner[t] \in {"timer", "both"}
  BY <1>1, <1>2, NoTaskAssumption DEF MemorySafe, Ownership
<1>5. executedTask = NoTask
  BY <1>2 DEF ThreadLocals
<1>6. MemorySafe'
  BY <1>1, <1>2, <1>4 DEF MemorySafe
<1>7. ThreadLocals'
  BY <1>1, <1>2, <1>4 DEF ThreadLocals
<1>8. Ownership'
  BY <1>1, <1>2, <1>3, <1>4 DEF Ownership
<1>9. OwnedAlive'
  BY <1>2 DEF OwnedAlive
<1>10. NoTaskLost'
  BY <1>1, <1>2, <1>5, NoTaskAssumption DEF NoTaskLost
<1>11. Termination'
  <2>1. \A c \in Callers : caller[c] \notin {"clean", "done"}
    BY <1>2 DEF Termination
  <2> QED BY <1>2, <2>1 DEF Termination
<1> QED BY <1>6, <1>7, <1>8, <1>9, <1>10, <1>11

\* A repeating task moves within the queue.
LEMMA FireRepeatingMemory ==
    ASSUME TypeOK, TypeOK', MemoryInv, FireRepeating
    PROVE  MemoryInv'
<1> USE DEF MemoryInv
<1> DEFINE t == Head(queue)
<1>1. t \in Queued /\ t \in Tasks
  BY TailDrops DEF TypeOK, MemorySafe, FireRepeating, HasFront, Queued
<1>2. /\ UNCHANGED <<isCancelled, freed, owner, external, executedTask, caller>>
      /\ thread = "lock" /\ thread' = "run" /\ current' = t
      /\ \A u \in Tasks : impl'[u].state = impl[u].state
  BY <1>1 DEF TypeOK, FireRepeating, HasFront, StartTask, Impl
<1>3. Queued' = Queued /\ IsInjective(queue')
  <2>1. /\ Tail(queue) \in Seq(Tasks) /\ IsInjective(Tail(queue))
        /\ ToSet(Tail(queue)) = Queued \ {t}
    BY TailDrops DEF TypeOK, MemorySafe, FireRepeating, HasFront, Queued
  <2>2. impl' \in [Tasks -> Impl] /\ Push(Tail(queue), t, impl') /\ t \notin ToSet(Tail(queue))
    BY <2>1 DEF TypeOK, FireRepeating
  <2>3. Queued' = ToSet(Tail(queue)) \cup {t} /\ IsInjective(queue')
    BY <1>1, <2>1, <2>2, PushAdds
  <2> QED BY <1>1, <2>1, <2>3
<1> HIDE DEF t
<1>4. Queued \subseteq Tasks
  BY ToSetType DEF TypeOK, Queued
<1>5. t # NoTask /\ t \notin freed /\ executedTask = NoTask
  BY <1>1, <1>2, NoTaskAssumption DEF MemorySafe, ThreadLocals
<1>6. MemorySafe'
  BY <1>2, <1>3, <1>5 DEF MemorySafe
<1>7. ThreadLocals'
  BY <1>1, <1>2, <1>3, <1>5 DEF ThreadLocals
<1>8. Ownership'
  BY <1>2, <1>3, <1>4 DEF Ownership
<1>9. OwnedAlive' /\ NoTaskLost'
  BY <1>2, <1>3 DEF OwnedAlive, NoTaskLost
<1>10. Termination'
  <2>1. \A c \in Callers : caller[c] \notin {"clean", "done"}
    BY <1>2 DEF Termination
  <2> QED BY <1>2, <2>1 DEF Termination
<1> QED BY <1>6, <1>7, <1>8, <1>9, <1>10

\* The task that has run is deleted, and was nowhere else.
LEMMA DestroyExecutedMemory ==
    ASSUME TypeOK, MemoryInv, DestroyExecuted
    PROVE  MemoryInv'
<1> USE DEF MemoryInv
<1>1. Queued' = Queued /\ IsInjective(queue')
  BY SameQueue DEF DestroyExecuted, MemorySafe
<1>2. /\ UNCHANGED <<queue, isCancelled, current, owner, caller>>
      /\ thread = "destroy" /\ thread' = "lock" /\ executedTask' = NoTask
      /\ freed' = freed \cup {executedTask} /\ external' = external \ {executedTask}
      /\ \A u \in Tasks : u # executedTask => impl'[u] = impl[u]
  BY DEF TypeOK, DestroyExecuted, Delete
<1>3. Queued \subseteq Tasks
  BY ToSetType DEF TypeOK, Queued
<1>4. current = NoTask /\ executedTask # NoTask /\ executedTask \notin Queued
  BY <1>2 DEF ThreadLocals, MemorySafe
<1>5. MemorySafe'
  BY <1>1, <1>2, <1>3, <1>4, NoTaskAssumption DEF MemorySafe, TypeOK
<1>6. ThreadLocals'
  BY <1>1, <1>2, <1>4 DEF ThreadLocals
<1>7. Ownership'
  BY <1>1, <1>2, <1>3, <1>4 DEF Ownership
<1>8. OwnedAlive'
  BY <1>2, <1>4 DEF OwnedAlive, Ownership
<1>9. NoTaskLost'
  BY <1>1, <1>2 DEF NoTaskLost
<1>10. Termination'
  BY <1>2 DEF Termination
<1> QED BY <1>5, <1>6, <1>7, <1>8, <1>9, <1>10

\* Timer::cancel() deletes what is left when the timer thread is gone.
LEMMA CleanMemory ==
    ASSUME TypeOK, MemoryInv, NEW c \in Callers, Clean(c)
    PROVE  MemoryInv'
<1> USE DEF MemoryInv
<1>1. Queued' = {} /\ IsInjective(queue') /\ queue' = <<>>
  BY DEF Clean, Queued, ToSet, IsInjective
<1>2. /\ UNCHANGED <<isCancelled, executedTask, current, owner, thread>>
      /\ caller[c] = "clean" /\ caller' = [caller EXCEPT ![c] = "done"]
      /\ freed' = freed \cup (Queued \ external) /\ external' = external
  BY DEF Clean, Delete, threadVars, sleepVars
<1>3. thread = "exited" /\ executedTask = NoTask /\ current = NoTask
  BY <1>2 DEF Termination, ThreadLocals
<1>4. Queued \subseteq Tasks
  BY ToSetType DEF TypeOK, Queued
<1>5. MemorySafe'
  BY <1>1, <1>2, <1>3, <1>4, NoTaskAssumption DEF MemorySafe
<1>6. ThreadLocals'
  BY <1>1, <1>2, <1>3 DEF ThreadLocals
<1>7. Ownership'
  BY <1>1, <1>2, <1>3 DEF Ownership
<1>8. OwnedAlive'
  BY <1>2 DEF OwnedAlive, Ownership
<1>9. NoTaskLost'
  BY <1>1, <1>2 DEF NoTaskLost
<1>10. Termination'
  BY <1>1, <1>2, <1>3 DEF Termination, TypeOK
<1> QED BY <1>5, <1>6, <1>7, <1>8, <1>9, <1>10

\* The other steps move the thread or a caller, and leave every task where it is.
LEMMA QuietMemory ==
    ASSUME TypeOK, MemoryInv,
           UNCHANGED <<queue, implVars, freed, owner, executedTask>>,
           ThreadLocals', Termination', current' \in {current, NoTask}
    PROVE  MemoryInv'
<1> USE DEF MemoryInv, implVars
<1>1. Queued' = Queued /\ IsInjective(queue')
  BY SameQueue DEF MemorySafe
<1>2. Queued \subseteq Tasks
  BY ToSetType DEF TypeOK, Queued
<1>3. MemorySafe'
  BY <1>1, NoTaskAssumption DEF MemorySafe, TypeOK
<1>4. Ownership' /\ OwnedAlive' /\ NoTaskLost'
  BY <1>1 DEF Ownership, OwnedAlive, NoTaskLost
<1> QED BY <1>3, <1>4

LEMMA MemoryStep ==
    ASSUME TypeOK, TypeOK', MemoryInv, [Next]_vars
    PROVE  MemoryInv'
<1> USE DEF implVars, threadVars, sleepVars
<1>0. UNCHANGED queue => Queued' = Queued
  BY DEF Queued
<1>1. ASSUME NEW t \in Tasks, Schedule(t) PROVE MemoryInv'
  <2>1. PICK d \in Delays, per \in Periods : Accept(t, now + d, per)
    BY <1>1 DEF Schedule
  <2>2. now + d \in Int /\ per \in Nat
    BY TimesAssumption DEF TypeOK
  <2> QED BY <2>1, <2>2, AcceptMemory
<1>2. ASSUME NEW t \in Tasks, ScheduleAtTime(t) PROVE MemoryInv'
  <2>1. PICK time \in 0 .. MaxTime, per \in Periods : Accept(t, time, per)
    BY <1>2 DEF ScheduleAtTime
  <2>2. time \in Int /\ per \in Nat
    BY TimesAssumption
  <2> QED BY <2>1, <2>2, AcceptMemory
<1>3. ASSUME NEW t \in Tasks, Reschedule(t) PROVE MemoryInv'
  BY <1>3, RescheduleMemory
<1>4. ASSUME NEW t \in Tasks, DeleteOwned(t) PROVE MemoryInv'
  BY <1>4, DeleteOwnedMemory
<1>5. ASSUME NEW t \in Tasks, NEW take \in BOOLEAN, CancelTask(t, take) PROVE MemoryInv'
  BY <1>5, MarkMemory DEF CancelTask
<1>6. ASSUME NEW n \in Names, NEW take \in BOOLEAN, CancelNamed(n, take) PROVE MemoryInv'
  <2>1. PICK i \in DOMAIN queue : Mark(queue[i], take)
    BY <1>6 DEF CancelNamed
  <2>2. queue[i] \in Queued
    BY DEF Queued, ToSet
  <2> QED BY <2>1, <2>2, MarkMemory
<1>7. ASSUME NEW c \in Callers, CancelTimer(c) PROVE MemoryInv'
  <2>1. ThreadLocals' /\ Termination'
    BY <1>0, <1>7 DEF MemoryInv, ThreadLocals, Termination, CancelTimer, Signal, WakeUp,
                      Asleep, TypeOK
  <2> QED BY <1>7, <2>1, QuietMemory DEF CancelTimer
<1>8. ASSUME NEW c \in Callers, CancelWait(c) PROVE MemoryInv'
  <2>1. ThreadLocals' /\ Termination'
    BY <1>0, <1>8 DEF MemoryInv, ThreadLocals, Termination, CancelWait, TypeOK
  <2> QED BY <1>8, <2>1, QuietMemory DEF CancelWait
<1>9. ASSUME NEW c \in Callers, CancelJoin(c) PROVE MemoryInv'
  <2>1. ThreadLocals' /\ Termination'
    BY <1>0, <1>9 DEF MemoryInv, ThreadLocals, Termination, CancelJoin, TypeOK
  <2> QED BY <1>9, <2>1, QuietMemory DEF CancelJoin
<1>10. ASSUME NEW c \in Callers, Clean(c) PROVE MemoryInv'
  BY <1>10, CleanMemory
<1>11. CASE WaitForTask
  <2>1. ThreadLocals' /\ Termination'
    BY <1>0, <1>11 DEF MemoryInv, ThreadLocals, Termination, WaitForTask
  <2> QED BY <1>11, <2>1, QuietMemory DEF WaitForTask
<1>12. CASE Stop
  <2>1. ThreadLocals' /\ Termination'
    BY <1>0, <1>12 DEF MemoryInv, ThreadLocals, Termination, Stop
  <2> QED BY <1>12, <2>1, QuietMemory DEF Stop
<1>13. CASE Exit
  <2>1. ThreadLocals' /\ Termination'
    BY <1>0, <1>13 DEF MemoryInv, ThreadLocals, Termination, Exit
  <2> QED BY <1>13, <2>1, QuietMemory DEF Exit
<1>14. CASE DropCancelled
  BY <1>14, DropCancelledMemory
<1>15. CASE FireOnce
  BY <1>15, FireOnceMemory
<1>16. CASE FireRepeating
  BY <1>16, FireRepeatingMemory
<1>17. CASE SleepUntilDue
  <2>1. ThreadLocals' /\ Termination'
    BY <1>0, <1>17 DEF MemoryInv, ThreadLocals, Termination, SleepUntilDue, HasFront
  <2> QED BY <1>17, <2>1, QuietMemory DEF SleepUntilDue
<1>18. CASE Timeout \/ SpuriousWakeup
  <2>1. ThreadLocals' /\ Termination'
    BY <1>0, <1>18 DEF MemoryInv, ThreadLocals, Termination, Timeout, SpuriousWakeup,
                       WakeUp, Asleep
  <2> QED BY <1>18, <2>1, QuietMemory DEF Timeout, SpuriousWakeup
<1>19. CASE RunReturns
  <2>1. ThreadLocals' /\ Termination'
    BY <1>0, <1>19 DEF MemoryInv, ThreadLocals, Termination, RunReturns
  <2> QED BY <1>19, <2>1, QuietMemory DEF RunReturns
<1>20. CASE RunThrows
  <2>1. ThreadLocals' /\ Termination'
    BY <1>0, <1>20 DEF MemoryInv, ThreadLocals, Termination, RunThrows
  <2> QED BY <1>20, <2>1, QuietMemory DEF RunThrows
<1>21. CASE DestroyExecuted
  BY <1>21, DestroyExecutedMemory
<1>22. CASE Tick
  <2>1. ThreadLocals' /\ Termination'
    BY <1>0, <1>22 DEF MemoryInv, ThreadLocals, Termination, Tick
  <2> QED BY <1>22, <2>1, QuietMemory DEF Tick
<1>23. CASE UNCHANGED vars
  <2>1. ThreadLocals' /\ Termination'
    BY <1>0, <1>23 DEF MemoryInv, ThreadLocals, Termination, vars
  <2> QED BY <1>23, <2>1, QuietMemory DEF vars
<1> QED
  BY <1>1, <1>2, <1>3, <1>4, <1>5, <1>6, <1>7, <1>8, <1>9, <1>10, <1>11, <1>12, <1>13,
     <1>14, <1>15, <1>16, <1>17, <1>18, <1>19, <1>20, <1>21, <1>22, <1>23
     DEF Next, Call, Terminate, TimerThread

\* No task is followed after it was deleted, none is deleted twice or by two owners,
\* and none is forgotten, whatever calls are made in whatever order.
THEOREM MemoryCorrect == Spec => [](TypeOK /\ MemoryInv)
<1>1. Init => TypeOK /\ MemoryInv
  <2> SUFFICES ASSUME Init PROVE TypeOK /\ MemoryInv
    OBVIOUS
  <2>1. TypeOK
    <3>1. NewImpl \in Impl
      BY DEF NewImpl, Impl, States
    <3>2. <<>> \in Seq(Tasks)
      BY EmptySeq
    <3>3. impl \in [Tasks -> Impl]
      BY <3>1 DEF Init
    <3>4. owner \in [Tasks -> {"caller", "timer", "both", "nobody"}] /\ caller \in [Callers -> CallerPoints]
      BY DEF Init, CallerPoints
    <3>5. thread \in ThreadPoints
      BY DEF Init, ThreadPoints
    <3>6. queue \in Seq(Tasks)
      BY <3>2 DEF Init
    <3>7. isCancelled \in BOOLEAN
      BY Zenon DEF Init
    <3>10. sem \in Nat /\ deadline \in Int /\ now \in Nat
      BY SMT DEF Init
    <3>8. external \subseteq Tasks /\ freed \subseteq Tasks
      BY DEF Init
    <3>9. executedTask \in Tasks \cup {NoTask} /\ current \in Tasks \cup {NoTask}
      BY DEF Init
    <3> QED BY <3>3, <3>4, <3>5, <3>6, <3>7, <3>8, <3>9, <3>10 DEF TypeOK
  <2>2. Queued = {} /\ IsInjective(queue)
    BY DEF Init, Queued, ToSet, IsInjective
  <2>3. MemoryInv
    BY <2>2 DEF Init, MemoryInv, MemorySafe, ThreadLocals, Ownership, OwnedAlive,
                NoTaskLost, Termination
  <2> QED BY <2>1, <2>3
<1>2. TypeOK /\ MemoryInv /\ [Next]_vars => (TypeOK /\ MemoryInv)'
  <2> SUFFICES ASSUME TypeOK, MemoryInv, [Next]_vars PROVE TypeOK' /\ MemoryInv'
    OBVIOUS
  <2>1. TypeOK'
    BY TypeStep DEF MemoryInv, MemorySafe, ThreadLocals
  <2> QED BY <2>1, MemoryStep
<1> QED BY <1>1, <1>2, PTL DEF Spec

\* The parts of MemoryInv that the runs check, each for itself.
THEOREM TypesCorrect == Spec => []TypeOK
BY MemoryCorrect, PTL

THEOREM PointersSafe == Spec => []MemorySafe
<1>1. MemoryInv => MemorySafe
  BY DEF MemoryInv
<1> QED BY <1>1, MemoryCorrect, PTL

\* What a caller took back stays its own: the one task of another owner that the timer
\* deletes is one that was rescheduled since, and has run.
THEOREM OwnershipRespected == Spec => TakenNeverDestroyed
<1>1. TypeOK /\ MemoryInv /\ [Next]_vars =>
        [\A t \in freed' \ freed :
            \/ owner'[t] = "nobody"
            \/ owner[t] = "timer"
            \/ owner[t] = "both" /\ t = executedTask]_vars
  <2> SUFFICES ASSUME TypeOK, MemoryInv, Next, NEW t \in freed' \ freed
      PROVE  \/ owner'[t] = "nobody"
             \/ owner[t] = "timer"
             \/ owner[t] = "both" /\ t = executedTask
    BY DEF vars
  <2> USE DEF MemoryInv
  <2>1. Queued \subseteq Tasks
    BY ToSetType DEF TypeOK, Queued
  <2>2. ASSUME NEW u \in Tasks, DeleteOwned(u) PROVE t = u /\ owner'[u] = "nobody"
    BY <2>2 DEF DeleteOwned, Delete, TypeOK
  <2>3. CASE DropCancelled
    <3>1. t = Head(queue) /\ t \notin external /\ impl[t].state = "CANCELLED"
      BY <2>3 DEF DropCancelled, Delete
    <3>2. t \in Queued
      BY <2>3, <3>1, TailDrops DEF TypeOK, DropCancelled, HasFront, Queued, MemorySafe
    <3> QED BY <3>1, <3>2 DEF Ownership
  <2>4. CASE DestroyExecuted
    <3>1. t = executedTask /\ executedTask # NoTask
      BY <2>4 DEF DestroyExecuted, Delete, ThreadLocals
    <3> QED BY <3>1 DEF Ownership
  <2>5. ASSUME NEW c \in Callers, Clean(c)
        PROVE  owner[t] = "timer"
    <3>1. t \in Queued \ external
      BY <2>5 DEF Clean, Delete
    <3> QED BY <3>1 DEF Ownership
  <2>6. freed' = freed \/ DropCancelled \/ DestroyExecuted
        \/ (\E u \in Tasks : DeleteOwned(u)) \/ (\E c \in Callers : Clean(c))
    BY DEF Next, Call, Terminate, TimerThread, Schedule, ScheduleAtTime, Accept, Reschedule,
           CancelTask, CancelNamed, Mark, CancelTimer, CancelWait, CancelJoin, WaitForTask,
           Stop, Exit, FireOnce, FireRepeating, StartTask, SleepUntilDue, Timeout,
           SpuriousWakeup, RunReturns, RunThrows, Tick
  <2> QED BY <2>2, <2>3, <2>4, <2>5, <2>6
<1> QED BY <1>1, MemoryCorrect, PTL DEF Spec, TakenNeverDestroyed

\* What the timer must delete it has, or has deleted.
THEOREM NothingLost == Spec => []NoTaskLost
<1>1. MemoryInv => NoTaskLost
  BY DEF MemoryInv
<1> QED BY <1>1, MemoryCorrect, PTL

\* After Timer::cancel() nothing runs and nothing is left.
THEOREM TerminationQuiet == Spec => []TerminatedIsQuiet
<1>1. TypeOK /\ MemoryInv => TerminatedIsQuiet
  <2> SUFFICES ASSUME TypeOK, MemoryInv, NEW c \in Callers
      PROVE  /\ caller[c] \in {"clean", "done"} => thread = "exited" /\ current = NoTask
             /\ caller[c] = "done" =>
                 /\ queue = <<>>
                 /\ \A t \in Tasks : owner[t] = "timer" => t \in freed \cup external
    BY DEF TerminatedIsQuiet
  <2>1. ASSUME caller[c] \in {"clean", "done"}
        PROVE  thread = "exited" /\ current = NoTask /\ executedTask = NoTask
    BY <2>1 DEF MemoryInv, Termination, ThreadLocals
  <2>2. ASSUME caller[c] = "done" PROVE queue = <<>> /\ Queued = {}
    BY <2>2 DEF MemoryInv, Termination, Queued, ToSet
  <2>3. ASSUME caller[c] = "done", NEW t \in Tasks, owner[t] = "timer"
        PROVE  t \in freed \cup external
    BY <2>1, <2>2, <2>3, NoTaskAssumption DEF MemoryInv, NoTaskLost
  <2> QED BY <2>1, <2>2, <2>3
<1> QED BY <1>1, MemoryCorrect, PTL

-----------------------------------------------------------------------------
(* Sleep *)

\* The front of a list in order is the earliest.
LEMMA FrontIsEarliest ==
    ASSUME NEW q \in Seq(Tasks), q # <<>>, NEW ts \in [Tasks -> Impl], Ordered(q, ts),
           NEW i \in DOMAIN q
    PROVE  ts[Head(q)].nextExecutionTime <= ts[q[i]].nextExecutionTime
<1>1. 1 \in 1 .. Len(q) /\ Head(q) = q[1] /\ DOMAIN q = 1 .. Len(q)
  BY TailIsRemoveAt, LenProperties
<1>2. ts[q[1]].nextExecutionTime \in Int
  BY <1>1, ElementOfSeq DEF Impl
<1>3. CASE i = 1
  BY <1>1, <1>2, <1>3
<1>4. CASE i # 1
  BY <1>1, <1>4 DEF Ordered
<1> QED BY <1>3, <1>4

\* A step that leaves the list and the tasks in it alone keeps the order; if it does
\* not put the thread to sleep, it keeps the thread from oversleeping.
LEMMA QuietSleep ==
    ASSUME TypeOK, SleepInv, UNCHANGED queue,
           \A t \in Queued : impl'[t].nextExecutionTime = impl[t].nextExecutionTime,
           \/ UNCHANGED <<thread, deadline>> /\ (thread \in Asleep => UNCHANGED isCancelled)
           \/ thread' \notin Asleep
    PROVE  SleepInv'
<1>1. QueueOrdered'
  BY OrderedByTimes DEF SleepInv, QueueOrdered, TypeOK, Queued
<1>2. queue # <<>> => Head(queue) \in Queued
  BY TailIsRemoveAt DEF TypeOK, Queued
<1>3. NeverOversleeps'
  BY <1>2 DEF SleepInv, NeverOversleeps, Asleep
<1> QED BY <1>1, <1>3 DEF SleepInv

\* An arrival: the thread is woken when it must get up earlier than it meant to.
LEMMA AcceptSleep ==
    ASSUME TypeOK, TypeOK', MemoryInv, SleepInv,
           NEW t \in Tasks, NEW time \in Int, NEW per \in Nat, Accept(t, time, per)
    PROVE  SleepInv'
<1>1. /\ t \notin Queued /\ Push(queue, t, impl') /\ SignalIfFront(t) /\ ~isCancelled
      /\ UNCHANGED isCancelled
  BY DEF Accept
<1>2. \A u \in Queued : impl'[u].nextExecutionTime = impl[u].nextExecutionTime
  BY <1>1, ToSetType DEF Accept, SetTimes, TypeOK, Queued
<1>3. Ordered(queue, impl')
  BY <1>2, OrderedByTimes DEF SleepInv, QueueOrdered, TypeOK, Queued
<1>4. /\ Ordered(queue', impl') /\ Len(queue') = Len(queue) + 1
      /\ queue'[1] = t \/ (Len(queue) > 0 /\ queue'[1] = queue[1])
  BY <1>1, <1>3, PushAdds DEF TypeOK, MemoryInv, MemorySafe, Queued
<1>5. CASE queue'[1] = t
  <2>1. thread' \notin Asleep
    BY <1>1, <1>5 DEF SignalIfFront, Signal, WakeUp, sleepVars, Asleep
  <2> QED BY <1>4, <2>1 DEF SleepInv, QueueOrdered, NeverOversleeps, Asleep
<1>6. CASE queue'[1] # t
  <2>1. UNCHANGED <<thread, deadline>>
    BY <1>1, <1>6 DEF SignalIfFront, sleepVars
  <2>2. queue # <<>> /\ Head(queue) = queue[1] /\ Head(queue) \in Queued
    BY <1>4, <1>6, EmptySeq, TailIsRemoveAt DEF TypeOK, Queued
  <2>3. queue' # <<>> /\ Head(queue') = queue'[1]
    BY <1>4, <1>6, <2>2, EmptySeq, TailIsRemoveAt DEF TypeOK
  <2>4. Head(queue') = Head(queue)
    BY <1>4, <1>6, <2>2, <2>3
  <2> QED BY <1>1, <1>2, <1>4, <2>1, <2>2, <2>3, <2>4
          DEF SleepInv, QueueOrdered, NeverOversleeps, Asleep
<1> QED BY <1>5, <1>6

\* A task in the queue is moved: where it leaves the front, the next one is later.
LEMMA RescheduleSleep ==
    ASSUME TypeOK, TypeOK', MemoryInv, SleepInv, NEW t \in Tasks, Reschedule(t)
    PROVE  SleepInv'
<1>1. PICK d \in Delays, per \in Periods, i \in DOMAIN queue :
        /\ queue[i] = t
        /\ SetTimes(t, now + d, per)
        /\ Push(RemoveAt(queue, i), t, impl')
        /\ SignalIfFront(t)
        /\ UNCHANGED isCancelled
  BY DEF Reschedule
<1> DEFINE rest == RemoveAt(queue, i)
<1>2. queue \in Seq(Tasks) /\ i \in 1 .. Len(queue) /\ queue # <<>> /\ IsInjective(queue)
  BY LenProperties, EmptySeq DEF TypeOK, MemoryInv, MemorySafe
<1>3. /\ rest \in Seq(Tasks) /\ IsInjective(rest) /\ ToSet(rest) = Queued \ {t}
      /\ Len(rest) = Len(queue) - 1
  BY <1>1, <1>2, RemoveAtElements, RemoveAtSet DEF Queued
<1>4. \A u \in Tasks : u # t => impl'[u] = impl[u]
  BY <1>1 DEF SetTimes, TypeOK
<1>5. Ordered(rest, impl')
  <2>1. Ordered(rest, impl)
    BY <1>2, RemoveAtOrdered DEF TypeOK, SleepInv, QueueOrdered
  <2>2. \A u \in ToSet(rest) : impl'[u].nextExecutionTime = impl[u].nextExecutionTime
    BY <1>3, <1>4, ToSetType
  <2> QED BY <1>3, <2>1, <2>2, OrderedByTimes
<1>6. /\ Ordered(queue', impl') /\ Len(queue') = Len(rest) + 1
      /\ queue'[1] = t \/ (Len(rest) > 0 /\ queue'[1] = rest[1])
  BY <1>1, <1>3, <1>5, PushAdds DEF TypeOK
<1>7. CASE queue'[1] = t
  <2>1. thread' \notin Asleep
    BY <1>1, <1>7 DEF SignalIfFront, Signal, WakeUp, sleepVars, Asleep
  <2> QED BY <1>6, <2>1 DEF SleepInv, QueueOrdered, NeverOversleeps, Asleep
<1>8. CASE queue'[1] # t
  <2>1. UNCHANGED <<thread, deadline>>
    BY <1>1, <1>8 DEF SignalIfFront, sleepVars
  <2>2. Len(rest) > 0 /\ queue'[1] = rest[1] /\ rest[1] \in ToSet(rest)
    BY <1>3, <1>6, <1>8, LenProperties DEF ToSet
  <2>3. queue' # <<>> /\ Head(queue') = rest[1]
    <3>1. queue' \in Seq(Tasks) /\ Len(queue') # 0
      BY <1>2, <1>3, <1>6, LenProperties DEF TypeOK
    <3> QED BY <2>2, <3>1, EmptySeq, TailIsRemoveAt
  <2>4. PICK j \in DOMAIN queue : queue[j] = rest[1] /\ rest[1] # t /\ rest[1] \in Tasks
    BY <1>3, <2>2, ToSetType DEF Queued, ToSet
  <2>5. impl[Head(queue)].nextExecutionTime <= impl'[Head(queue')].nextExecutionTime
    BY <1>2, <1>4, <2>3, <2>4, FrontIsEarliest DEF TypeOK, SleepInv, QueueOrdered
  <2>6. /\ impl[Head(queue)].nextExecutionTime \in Int
        /\ impl'[Head(queue')].nextExecutionTime \in Int
        /\ deadline \in Int
    BY <1>2, <1>4, <2>3, <2>4, TailIsRemoveAt DEF TypeOK, Impl
  <2> HIDE DEF rest
  <2>7. thread = "timed_wait" => deadline <= impl'[Head(queue')].nextExecutionTime
    BY <2>5, <2>6 DEF SleepInv, NeverOversleeps
  <2> QED BY <1>1, <1>2, <1>6, <2>1, <2>3, <2>7
          DEF SleepInv, QueueOrdered, NeverOversleeps
<1> QED BY <1>7, <1>8

\* The thread takes the front of the queue: what is left is in order, and the thread
\* is awake.
LEMMA TakeFrontSleep ==
    ASSUME TypeOK, TypeOK', MemoryInv, SleepInv, queue # <<>>, thread' \notin Asleep,
           \A u \in Queued \ {Head(queue)} :
                impl'[u].nextExecutionTime = impl[u].nextExecutionTime,
           queue' = Tail(queue) \/ Push(Tail(queue), Head(queue), impl')
    PROVE  SleepInv'
<1> DEFINE t == Head(queue)
           rest == Tail(queue)
<1>1. /\ rest \in Seq(Tasks) /\ t \in Tasks /\ ToSet(rest) = Queued \ {t}
      /\ IsInjective(rest) /\ Ordered(rest, impl)
  BY TailDrops DEF TypeOK, MemoryInv, MemorySafe, SleepInv, QueueOrdered, Queued
<1>2. Ordered(rest, impl')
  BY <1>1, OrderedByTimes
<1>3. CASE queue' = rest
  BY <1>2, <1>3 DEF SleepInv, QueueOrdered, NeverOversleeps, Asleep
<1>4. CASE Push(rest, t, impl')
  <2>1. Ordered(queue', impl')
    BY <1>1, <1>2, <1>4, PushAdds DEF TypeOK
  <2> QED BY <2>1 DEF SleepInv, QueueOrdered, NeverOversleeps, Asleep
<1> QED BY <1>3, <1>4

\* Every step keeps the queue in order and the sleep short enough.
LEMMA SleepStep ==
    ASSUME TypeOK, TypeOK', MemoryInv, SleepInv, [Next]_vars
    PROVE  SleepInv'
<1> USE DEF implVars, threadVars, sleepVars
<1>0. Queued \subseteq Tasks
  BY ToSetType DEF TypeOK, Queued
<1>1. ASSUME NEW t \in Tasks, Schedule(t) PROVE SleepInv'
  <2>1. PICK d \in Delays, per \in Periods : Accept(t, now + d, per)
    BY <1>1 DEF Schedule
  <2>2. now + d \in Int /\ per \in Nat
    BY TimesAssumption DEF TypeOK
  <2> QED BY <2>1, <2>2, AcceptSleep
<1>2. ASSUME NEW t \in Tasks, ScheduleAtTime(t) PROVE SleepInv'
  <2>1. PICK time \in 0 .. MaxTime, per \in Periods : Accept(t, time, per)
    BY <1>2 DEF ScheduleAtTime
  <2>2. time \in Int /\ per \in Nat
    BY TimesAssumption
  <2> QED BY <2>1, <2>2, AcceptSleep
<1>3. ASSUME NEW t \in Tasks, Reschedule(t) PROVE SleepInv'
  BY <1>3, RescheduleSleep
<1>4. ASSUME NEW t \in Tasks, DeleteOwned(t) PROVE SleepInv'
  <2>1. \A u \in Queued : impl'[u] = impl[u]
    BY <1>0, <1>4 DEF DeleteOwned, Delete
  <2> QED BY <1>4, <2>1, QuietSleep DEF DeleteOwned
<1>5. ASSUME NEW t \in Tasks, NEW take \in BOOLEAN, Mark(t, take) PROVE SleepInv'
  <2>1. impl' = [impl EXCEPT ![t].state = "CANCELLED"]
    BY <1>5 DEF Mark
  <2>2. \A u \in Tasks : impl'[u].nextExecutionTime = impl[u].nextExecutionTime
    BY <2>1 DEF TypeOK, Impl
  <2> QED BY <1>0, <1>5, <2>2, QuietSleep DEF Mark
<1>6. ASSUME NEW t \in Tasks, NEW take \in BOOLEAN, CancelTask(t, take) PROVE SleepInv'
  BY <1>5, <1>6 DEF CancelTask
<1>7. ASSUME NEW n \in Names, NEW take \in BOOLEAN, CancelNamed(n, take) PROVE SleepInv'
  <2>1. PICK i \in DOMAIN queue : Mark(queue[i], take)
    BY <1>7 DEF CancelNamed
  <2>2. queue[i] \in Tasks
    BY LenProperties, ElementOfSeq DEF TypeOK
  <2> QED BY <1>5, <2>1, <2>2
<1>8. ASSUME NEW c \in Callers, CancelTimer(c) PROVE SleepInv'
  BY <1>8, QuietSleep DEF CancelTimer, Signal, WakeUp, Asleep
<1>9. ASSUME NEW c \in Callers, CancelWait(c) \/ CancelJoin(c) PROVE SleepInv'
  BY <1>9, QuietSleep DEF CancelWait, CancelJoin
<1>10. ASSUME NEW c \in Callers, Clean(c) PROVE SleepInv'
  <2>1. thread' = "exited" /\ queue' = <<>>
    BY <1>10 DEF Clean, MemoryInv, Termination
  <2>2. Ordered(queue', impl')
    BY <2>1, EmptySeq DEF Ordered
  <2> QED BY <2>1, <2>2 DEF SleepInv, QueueOrdered, NeverOversleeps, Asleep
<1>11. CASE WaitForTask
  BY <1>11 DEF WaitForTask, SleepInv, QueueOrdered, NeverOversleeps, Asleep
<1>12. CASE Stop \/ Exit
  BY <1>12, QuietSleep DEF Stop, Exit, Asleep
<1>13. CASE DropCancelled
  <2>1. \A u \in Queued \ {Head(queue)} : impl'[u] = impl[u]
    BY <1>0, <1>13 DEF DropCancelled, Delete
  <2> QED BY <1>13, <2>1, TakeFrontSleep DEF DropCancelled, HasFront, Asleep
<1>14. CASE FireOnce
  <2>1. \A u \in Queued \ {Head(queue)} : impl'[u] = impl[u]
    BY <1>0, <1>14 DEF FireOnce, TypeOK
  <2> QED BY <1>14, <2>1, TakeFrontSleep DEF FireOnce, StartTask, HasFront, Asleep
<1>15. CASE FireRepeating
  <2>1. \A u \in Queued \ {Head(queue)} : impl'[u] = impl[u]
    BY <1>0, <1>15 DEF FireRepeating, TypeOK
  <2> QED BY <1>15, <2>1, TakeFrontSleep DEF FireRepeating, StartTask, HasFront, Asleep
<1>16. CASE SleepUntilDue
  <2>1. Head(queue) \in Tasks
    BY <1>16, TailIsRemoveAt DEF SleepUntilDue, HasFront, TypeOK
  <2>2. impl[Head(queue)].nextExecutionTime \in Int
    BY <2>1 DEF TypeOK, Impl
  <2> QED BY <1>16, <2>2
          DEF SleepUntilDue, HasFront, SleepInv, QueueOrdered, NeverOversleeps, Asleep
<1>17. CASE Timeout \/ SpuriousWakeup
  BY <1>17, QuietSleep DEF Timeout, SpuriousWakeup, WakeUp, Asleep
<1>18. CASE RunReturns \/ RunThrows
  BY <1>18, QuietSleep DEF RunReturns, RunThrows, Asleep
<1>19. CASE DestroyExecuted
  <2>1. \A u \in Queued : impl'[u] = impl[u]
    BY <1>0, <1>19 DEF DestroyExecuted, Delete, MemoryInv, MemorySafe
  <2> QED BY <1>19, <2>1, QuietSleep DEF DestroyExecuted, Asleep
<1>20. CASE Tick
  BY <1>20, QuietSleep DEF Tick
<1>21. CASE UNCHANGED vars
  BY <1>21, QuietSleep DEF vars
<1> QED
  BY <1>1, <1>2, <1>3, <1>4, <1>6, <1>7, <1>8, <1>9, <1>10, <1>11, <1>12, <1>13,
     <1>14, <1>15, <1>16, <1>17, <1>18, <1>19, <1>20, <1>21
     DEF Next, Call, Terminate, TimerThread

\* The queue is in order and no wakeup is lost, whatever is scheduled, moved, cancelled
\* or fired, and whenever.
THEOREM SleepCorrect == Spec => []SleepInv
<1>1. Init => SleepInv
  BY EmptySeq DEF Init, SleepInv, QueueOrdered, Ordered, NeverOversleeps, Asleep
<1>2. TypeOK /\ TypeOK' /\ MemoryInv /\ SleepInv /\ [Next]_vars => SleepInv'
  BY SleepStep
<1> QED BY <1>1, <1>2, MemoryCorrect, PTL DEF Spec

\* The list is in order of time.
THEOREM OrderKept == Spec => []QueueOrdered
<1>1. SleepInv => QueueOrdered
  BY DEF SleepInv
<1> QED BY <1>1, SleepCorrect, PTL

\* No wakeup is lost.
THEOREM WakeupsNotLost == Spec => []NeverOversleeps
<1>1. SleepInv => NeverOversleeps
  BY DEF SleepInv
<1> QED BY <1>1, SleepCorrect, PTL

-----------------------------------------------------------------------------
(* Termination *)

Past == {"posted", "exited"}

\* A call touches the thread only to wake it.
LEMMA CallMoves ==
    ASSUME Call
    PROVE  /\ UNCHANGED <<sem, caller, isCancelled>>
           /\ thread' = thread \/ (thread \in Asleep /\ thread' = "lock")
<1> USE DEF Accept, SignalIfFront, Signal, WakeUp, sleepVars
<1>1. ASSUME NEW t \in Tasks, Schedule(t) \/ ScheduleAtTime(t) \/ Reschedule(t)
      PROVE  /\ UNCHANGED <<sem, caller, isCancelled>>
             /\ thread' = thread \/ (thread \in Asleep /\ thread' = "lock")
  BY <1>1 DEF Schedule, ScheduleAtTime, Reschedule
<1>2. ASSUME NEW t \in Tasks, DeleteOwned(t) \/ \E take \in BOOLEAN : CancelTask(t, take)
      PROVE  UNCHANGED <<sem, caller, isCancelled, thread>>
  BY <1>2 DEF DeleteOwned, CancelTask, Mark
<1>3. ASSUME NEW n \in Names, NEW take \in BOOLEAN, CancelNamed(n, take)
      PROVE  UNCHANGED <<sem, caller, isCancelled, thread>>
  BY <1>3 DEF CancelNamed, Mark
<1> QED BY <1>1, <1>2, <1>3 DEF Call

\* Nor does the thread touch what a caller of cancel() waits for, but for the post.
LEMMA ThreadMoves ==
    ASSUME TimerThread \/ SpuriousWakeup \/ Tick, ~Stop, ~Exit
    PROVE  /\ UNCHANGED <<sem, caller, isCancelled>>
           /\ thread' = thread \/ (thread \notin Past /\ thread' \notin Past)
<1> USE DEF implVars, threadVars, sleepVars, Past, Asleep, HasFront, StartTask, WakeUp
<1>1. CASE WaitForTask \/ DropCancelled \/ SleepUntilDue
  BY <1>1 DEF WaitForTask, DropCancelled, SleepUntilDue
<1>2. CASE FireOnce \/ FireRepeating
  BY <1>2 DEF FireOnce, FireRepeating
<1>3. CASE Timeout \/ SpuriousWakeup \/ Tick
  BY <1>3 DEF Timeout, SpuriousWakeup, Tick
<1>4. CASE RunReturns \/ RunThrows \/ DestroyExecuted
  BY <1>4 DEF RunReturns, RunThrows, DestroyExecuted
<1> QED BY <1>1, <1>2, <1>3, <1>4 DEF TimerThread

\* The one post is for the one caller that terminates the timer.
LEMMA PostStep ==
    ASSUME TypeOK, MemoryInv, PostInv, [Next]_vars
    PROVE  PostInv'
<1> USE DEF PostInv, TypeOK, CallerPoints, Past
<1>1. CASE Call
  BY <1>1, CallMoves DEF Asleep
<1>2. CASE (TimerThread \/ SpuriousWakeup \/ Tick) /\ ~Stop /\ ~Exit
  BY <1>2, ThreadMoves
<1>3. CASE Stop
  BY <1>3 DEF Stop
<1>4. CASE Exit
  BY <1>4 DEF Exit
<1>5. ASSUME NEW c \in Callers, CancelTimer(c) PROVE PostInv'
  <2>1. \A d \in Callers : caller[d] = "idle"
    BY <1>5 DEF CancelTimer
  <2>2. thread' = thread \/ (thread \in Asleep /\ thread' = "lock")
    BY <1>5 DEF CancelTimer, Signal, WakeUp, sleepVars
  <2>3. thread \notin Past
    BY <1>5 DEF CancelTimer, MemoryInv, Termination
  <2>4. caller' = [caller EXCEPT ![c] = "sem_wait"] /\ isCancelled' /\ sem' = sem
    BY <1>5, Zenon DEF CancelTimer
  <2>5. \A d \in Callers : caller'[d] = IF d = c THEN "sem_wait" ELSE "idle"
    BY <2>1, <2>4
  <2>6. thread' \notin Past
    BY <2>2, <2>3
  <2>7. ~(sem' > 0)
    BY <2>3, <2>4
  <2> QED BY ONLY <2>4, <2>5, <2>6, <2>7 DEF PostInv, Past
<1>6. ASSUME NEW c \in Callers, CancelWait(c) PROVE PostInv'
  BY <1>6 DEF CancelWait, sleepVars
<1>7. ASSUME NEW c \in Callers, CancelJoin(c) PROVE PostInv'
  BY <1>7 DEF CancelJoin, sleepVars
<1>8. ASSUME NEW c \in Callers, Clean(c) PROVE PostInv'
  BY <1>8 DEF Clean, sleepVars
<1>9. CASE UNCHANGED vars
  BY <1>9 DEF vars
<1> QED BY <1>1, <1>2, <1>3, <1>4, <1>5, <1>6, <1>7, <1>8, <1>9 DEF Next, Terminate

\* Whoever waits for the end of the timer is answered.
THEOREM PostCorrect == Spec => []PostInv
<1>1. Init => PostInv
  BY DEF Init, PostInv
<1>2. TypeOK /\ MemoryInv /\ PostInv /\ [Next]_vars => PostInv'
  BY PostStep
<1> QED BY <1>1, <1>2, MemoryCorrect, PTL DEF Spec

\* cancel() is stranded by nothing but an exception that has ended the timer's thread:
\* neither is the post lost, nor does the thread sleep while somebody waits for it.
THEOREM CancelAnswered == Spec => []CancelIsAnswered
<1>1. TypeOK /\ SleepInv /\ PostInv => CancelIsAnswered
  BY DEF TypeOK, SleepInv, NeverOversleeps, PostInv, CancelIsAnswered, ThreadPoints, Asleep
<1> QED BY <1>1, MemoryCorrect, SleepCorrect, PostCorrect, PTL

\* From the call of cancel() on the thread only finishes what it is doing.
THEOREM EndComesNearer == Spec => EndNears
<1>1. TypeOK /\ SleepInv /\ [Next]_vars =>
        [isCancelled => thread' = thread \/ ThreadLeft' < ThreadLeft]_vars
  <2> SUFFICES ASSUME TypeOK, SleepInv, [Next]_vars, isCancelled
               PROVE  thread' = thread \/ ThreadLeft' < ThreadLeft
    OBVIOUS
  <2>1. thread \notin Asleep
    BY DEF SleepInv, NeverOversleeps
  <2>2. CASE Call
    BY <2>1, <2>2, CallMoves
  <2>3. CASE \E c \in Callers : Terminate(c)
    BY <2>1, <2>3
    DEF Terminate, CancelTimer, CancelWait, CancelJoin, Clean, Signal, sleepVars
  <2>4. CASE TimerThread
    <3>1. \/ thread = "run" /\ thread' \in {"lock", "destroy", "dead"}
          \/ thread = "destroy" /\ thread' = "lock"
          \/ thread = "lock" /\ thread' = "posted"
          \/ thread = "posted" /\ thread' = "exited"
      BY <2>1, <2>4
      DEF TimerThread, WaitForTask, Stop, Exit, HasFront, DropCancelled, FireOnce,
          FireRepeating, SleepUntilDue, Timeout, RunReturns, RunThrows, DestroyExecuted, Asleep
    <3> QED BY ONLY <3>1 DEF ThreadLeft
  <2>5. CASE SpuriousWakeup \/ Tick
    BY <2>1, <2>5 DEF SpuriousWakeup, Tick, sleepVars
  <2>6. CASE UNCHANGED vars
    BY <2>6 DEF vars
  <2> QED BY <2>2, <2>3, <2>4, <2>5, <2>6 DEF Next
<1> QED BY <1>1, MemoryCorrect, SleepCorrect, PTL DEF Spec, EndNears

-----------------------------------------------------------------------------
(* The promise *)

DueOf == [t \in Tasks |-> IF t \in Scheduled THEN impl[t].nextExecutionTime ELSE 0]
Ended == \E c \in Callers : caller[c] = "done"

\* What is queued is to be run, or to be dropped.
QueuedStates == \A t \in Queued : impl[t].state \in {"SCHEDULED", "CANCELLED"}

\* The steps of the promise, of the timer's variables
LEMMA PromisedSteps ==
    ASSUME NEW t
    PROVE  /\ Promise!Schedule(t) <=>
                 /\ ~isCancelled /\ Scheduled' = Scheduled \cup {t}
                 /\ DueOf' = [DueOf EXCEPT ![t] = DueOf'[t]]
                 /\ UNCHANGED <<current, isCancelled, Ended, now>>
           /\ Promise!Cancel(t) <=>
                 /\ ~Ended /\ Scheduled' = Scheduled \ {t}
                 /\ DueOf' = [DueOf EXCEPT ![t] = 0]
                 /\ UNCHANGED <<current, isCancelled, Ended, now>>
           /\ Promise!CanStart(t) <=>
                 /\ ~isCancelled /\ current = NoTask /\ t \in Scheduled /\ DueOf[t] <= now
                 /\ \A u \in Scheduled : DueOf[t] <= DueOf[u]
           /\ Promise!StartOnce(t) <=>
                 /\ Promise!CanStart(t) /\ current' = t /\ Scheduled' = Scheduled \ {t}
                 /\ DueOf' = [DueOf EXCEPT ![t] = 0]
                 /\ UNCHANGED <<isCancelled, Ended, now>>
           /\ Promise!StartRepeating(t) <=>
                 /\ Promise!CanStart(t) /\ current' = t
                 /\ DueOf' = [DueOf EXCEPT ![t] = DueOf'[t]] /\ DueOf'[t] > DueOf[t]
                 /\ UNCHANGED <<Scheduled, isCancelled, Ended, now>>
BY DEF Promise!Schedule, Promise!Cancel, Promise!CanStart, Promise!StartOnce,
       Promise!StartRepeating, DueOf, Ended

\* The queue and the times decide what is promised.
LEMMA DueIs ==
    ASSUME TypeOK, TypeOK'
    PROVE  /\ Scheduled \subseteq Tasks /\ Scheduled' \subseteq Tasks
           /\ DueOf \in [Tasks -> Int] /\ DueOf' \in [Tasks -> Int]
           /\ \A t \in Scheduled : DueOf[t] = impl[t].nextExecutionTime
           /\ \A t \in Scheduled' : DueOf'[t] = impl'[t].nextExecutionTime
           /\ \A t \in Tasks \ Scheduled : DueOf[t] = 0
           /\ \A t \in Tasks \ Scheduled' : DueOf'[t] = 0
<1>1. Scheduled \subseteq Tasks /\ Scheduled' \subseteq Tasks
  BY ToSetType DEF Scheduled, Queued, TypeOK
<1>2. /\ \A t \in Tasks : impl[t].nextExecutionTime \in Int
      /\ \A t \in Tasks : impl'[t].nextExecutionTime \in Int
  BY DEF TypeOK, Impl
<1> QED
  BY <1>1, <1>2 DEF DueOf

\* A step that changes what is promised of one task alone.
LEMMA DueOfOne ==
    ASSUME TypeOK, TypeOK', NEW t \in Tasks,
           \A u \in Tasks \ {t} :
              /\ u \in Scheduled' <=> u \in Scheduled
              /\ u \in Scheduled => impl'[u].nextExecutionTime = impl[u].nextExecutionTime
    PROVE  DueOf' = [DueOf EXCEPT ![t] = DueOf'[t]]
<1>1. \A u \in Tasks \ {t} : DueOf'[u] = DueOf[u]
  BY DueIs
<1> QED
  BY <1>1, DueIs

\* A step that changes nothing of what is promised.
LEMMA PromiseStutters ==
    ASSUME TypeOK, TypeOK', Scheduled' = Scheduled, UNCHANGED <<current, isCancelled, now>>,
           \A u \in Scheduled : impl'[u].nextExecutionTime = impl[u].nextExecutionTime,
           Ended' <=> Ended
    PROVE  UNCHANGED Promise!vars
<1>1. \A u \in Tasks : DueOf'[u] = DueOf[u]
  BY DueIs
<1>2. DueOf' = DueOf
  BY <1>1, DueIs
<1>3. Ended' = Ended
  OBVIOUS
<1> QED
  BY <1>2, <1>3 DEF Promise!vars, DueOf, Ended

\* A queued task that gets its state and time is scheduled, new or not.
LEMMA ArrivalPromised ==
    ASSUME TypeOK, TypeOK', QueuedStates, NEW t \in Tasks, ~isCancelled,
           Queued' = Queued \cup {t}, impl'[t].state = "SCHEDULED",
           \A u \in Tasks : u # t => impl'[u] = impl[u],
           UNCHANGED <<current, isCancelled, caller, now>>
    PROVE  QueuedStates' /\ Promise!Schedule(t)
<1>1. Queued \subseteq Tasks
  BY ToSetType DEF Queued, TypeOK
<1>2. QueuedStates'
  BY <1>1 DEF QueuedStates
<1>3. Scheduled' = Scheduled \cup {t}
  BY <1>1 DEF Scheduled
<1>4. DueOf' = [DueOf EXCEPT ![t] = DueOf'[t]]
  <2>1. \A u \in Tasks \ {t} :
              /\ u \in Scheduled' <=> u \in Scheduled
              /\ u \in Scheduled => impl'[u].nextExecutionTime = impl[u].nextExecutionTime
    BY <1>3
  <2> QED
    BY <2>1, DueOfOne
<1>5. Ended' = Ended
  BY DEF Ended
<1> QED
  BY <1>2, <1>3, <1>4, <1>5, PromisedSteps

\* Every arrival in the queue schedules a task.
LEMMA AcceptPromised ==
    ASSUME TypeOK, TypeOK', MemoryInv, QueuedStates, NEW t \in Tasks, NEW time \in Int,
           NEW per \in Nat, Accept(t, time, per)
    PROVE  QueuedStates' /\ Promise!Schedule(t)
<1>1. Queued' = Queued \cup {t}
  <2>1. impl' \in [Tasks -> Impl]
    BY DEF TypeOK
  <2> QED
    BY <2>1, PushAdds DEF TypeOK, MemoryInv, MemorySafe, Accept, Queued
<1>2. /\ impl'[t].state = "SCHEDULED" /\ \A u \in Tasks : u # t => impl'[u] = impl[u]
      /\ UNCHANGED <<current, isCancelled, caller, now>> /\ ~isCancelled
  BY DEF TypeOK, Accept, SetTimes, threadVars
<1> QED
  BY <1>1, <1>2, ArrivalPromised

\* So does a task's move within it.
LEMMA ReschedulePromised ==
    ASSUME TypeOK, TypeOK', MemoryInv, QueuedStates, NEW t \in Tasks, Reschedule(t)
    PROVE  QueuedStates' /\ Promise!Schedule(t)
<1>1. PICK d \in Delays, per \in Periods, i \in DOMAIN queue :
        /\ ~isCancelled
        /\ queue[i] = t
        /\ SetTimes(t, now + d, per)
        /\ Push(RemoveAt(queue, i), t, impl')
        /\ UNCHANGED <<isCancelled, threadVars, caller, now>>
  BY DEF Reschedule
<1>2. queue \in Seq(Tasks) /\ i \in 1 .. Len(queue) /\ IsInjective(queue)
  BY LenProperties DEF TypeOK, MemoryInv, MemorySafe
<1> DEFINE rest == RemoveAt(queue, i)
<1>3. rest \in Seq(Tasks) /\ IsInjective(rest) /\ ToSet(rest) = Queued \ {t}
  BY <1>1, <1>2, RemoveAtElements, RemoveAtSet DEF Queued
<1>4. impl' \in [Tasks -> Impl] /\ t \notin ToSet(rest) /\ Push(rest, t, impl')
  BY <1>1, <1>3 DEF TypeOK
<1> HIDE DEF rest
<1>5. Queued' = ToSet(rest) \cup {t}
  BY <1>3, <1>4, PushAdds
<1>6. Queued' = Queued \cup {t}
  BY <1>3, <1>5
<1>7. /\ impl'[t].state = "SCHEDULED" /\ \A u \in Tasks : u # t => impl'[u] = impl[u]
      /\ UNCHANGED <<current, isCancelled, caller, now>>
  BY <1>1 DEF TypeOK, SetTimes, threadVars
<1> QED
  BY <1>1, <1>6, <1>7, ArrivalPromised

\* A mark is a cancellation, and Timer::cancel() has not returned.
LEMMA MarkPromised ==
    ASSUME TypeOK, TypeOK', MemoryInv, QueuedStates, NEW t \in Queued, NEW take \in BOOLEAN,
           Mark(t, take)
    PROVE  QueuedStates' /\ Promise!Cancel(t)
<1>1. Queued \subseteq Tasks /\ Queued' = Queued
  BY ToSetType DEF Queued, TypeOK, Mark
<1>2. /\ impl'[t].state = "CANCELLED" /\ \A u \in Tasks : u # t => impl'[u] = impl[u]
      /\ UNCHANGED <<current, isCancelled, caller, now>>
  BY <1>1 DEF TypeOK, Mark, Impl, threadVars
<1>3. ~Ended
  <2>1. queue # <<>>
    BY DEF Queued, ToSet
  <2> QED
    BY <2>1 DEF Ended, MemoryInv, Termination
<1>4. QueuedStates'
  BY <1>1, <1>2 DEF QueuedStates
<1>5. Scheduled' = Scheduled \ {t}
  BY <1>1, <1>2 DEF Scheduled
<1>6. DueOf' = [DueOf EXCEPT ![t] = 0]
  <2>1. \A u \in Tasks \ {t} :
              /\ u \in Scheduled' <=> u \in Scheduled
              /\ u \in Scheduled => impl'[u].nextExecutionTime = impl[u].nextExecutionTime
    BY <1>2, <1>5
  <2>2. DueOf' = [DueOf EXCEPT ![t] = DueOf'[t]]
    BY <1>1, <2>1, DueOfOne
  <2>3. DueOf'[t] = 0
    BY <1>1, <1>5, DueIs
  <2> QED
    BY <2>2, <2>3
<1>7. Ended' = Ended
  BY <1>2 DEF Ended
<1> QED
  BY <1>2, <1>3, <1>4, <1>5, <1>6, <1>7, PromisedSteps

\* The front may start: it is due, nothing runs, and nothing is due before it.
LEMMA FrontCanStart ==
    ASSUME TypeOK, TypeOK', MemoryInv, SleepInv, QueuedStates, HasFront,
           NEW t \in Tasks, t = Head(queue), IsDue(t)
    PROVE  Promise!CanStart(t)
<1>1. queue \in Seq(Tasks) /\ queue # <<>> /\ t \in Queued /\ t \in Tasks
  BY TailIsRemoveAt DEF TypeOK, HasFront, Queued
<1>2. t \in Scheduled /\ impl[t].nextExecutionTime <= now
  BY <1>1 DEF IsDue, QueuedStates, Scheduled
<1>3. ASSUME NEW u \in Scheduled
      PROVE  impl[t].nextExecutionTime <= impl[u].nextExecutionTime
  <2>1. PICK i \in DOMAIN queue : queue[i] = u
    BY DEF Scheduled, Queued, ToSet
  <2> QED
    BY <1>1, <2>1, FrontIsEarliest DEF TypeOK, SleepInv, QueueOrdered
<1>4. ~isCancelled /\ current = NoTask
  BY DEF HasFront, MemoryInv, ThreadLocals
<1> QED
  BY <1>2, <1>3, <1>4, DueIs, PromisedSteps

\* A one-shot task starts, and is promised no more.
LEMMA FireOncePromised ==
    ASSUME TypeOK, TypeOK', MemoryInv, SleepInv, QueuedStates, FireOnce,
           NEW t \in Tasks, t = Head(queue)
    PROVE  QueuedStates' /\ Promise!StartOnce(t)
<1>1. Queued' = Queued \ {t} /\ t \in Tasks
  BY TailDrops DEF TypeOK, MemoryInv, MemorySafe, FireOnce, HasFront, Queued
<1>2. /\ \A u \in Tasks : u # t => impl'[u] = impl[u]
      /\ current' = t /\ UNCHANGED <<isCancelled, caller, now>>
  BY DEF TypeOK, FireOnce, StartTask
<1>3. Promise!CanStart(t)
  BY FrontCanStart DEF FireOnce, IsDue
<1>4. Queued \subseteq Tasks
  BY ToSetType DEF Queued, TypeOK
<1>5. QueuedStates'
  BY <1>1, <1>2, <1>4 DEF QueuedStates
<1>6. Scheduled' = Scheduled \ {t}
  BY <1>1, <1>2, <1>4 DEF Scheduled
<1>7. DueOf' = [DueOf EXCEPT ![t] = 0]
  <2>1. \A u \in Tasks \ {t} :
              /\ u \in Scheduled' <=> u \in Scheduled
              /\ u \in Scheduled => impl'[u].nextExecutionTime = impl[u].nextExecutionTime
    BY <1>2, <1>6
  <2>2. DueOf' = [DueOf EXCEPT ![t] = DueOf'[t]]
    BY <1>1, <2>1, DueOfOne
  <2>3. DueOf'[t] = 0
    BY <1>1, <1>6, DueIs
  <2> QED
    BY <2>2, <2>3
<1>8. Ended' = Ended
  BY <1>2 DEF Ended
<1>9. Promise!StartOnce(t)
  BY <1>2, <1>3, <1>6, <1>7, <1>8, PromisedSteps
<1> QED
  BY <1>5, <1>9

\* A repeating task starts, and is promised again at a later time.
LEMMA FireRepeatingPromised ==
    ASSUME TypeOK, TypeOK', MemoryInv, SleepInv, QueuedStates, FireRepeating,
           NEW t \in Tasks, t = Head(queue)
    PROVE  QueuedStates' /\ Promise!StartRepeating(t)
<1>1. Queued' = Queued /\ t \in Tasks /\ t \in Queued
  <2>1. /\ Tail(queue) \in Seq(Tasks) /\ IsInjective(Tail(queue))
        /\ ToSet(Tail(queue)) = Queued \ {t} /\ t \in Queued /\ t \in Tasks
    BY TailDrops DEF TypeOK, MemoryInv, MemorySafe, FireRepeating, HasFront, Queued
  <2>2. impl' \in [Tasks -> Impl] /\ Push(Tail(queue), t, impl') /\ t \notin ToSet(Tail(queue))
    BY <2>1 DEF TypeOK, FireRepeating
  <2>3. Queued' = ToSet(Tail(queue)) \cup {t}
    BY <2>1, <2>2, PushAdds
  <2> QED
    BY <2>1, <2>3
<1>2. /\ \A u \in Tasks : u # t => impl'[u] = impl[u]
      /\ impl'[t].state = impl[t].state
      /\ impl'[t].nextExecutionTime = impl[t].nextExecutionTime + impl[t].period
      /\ impl[t].period # 0
      /\ current' = t /\ UNCHANGED <<isCancelled, caller, now>>
  BY <1>1 DEF TypeOK, Impl, FireRepeating, StartTask
<1>3. Promise!CanStart(t)
  BY FrontCanStart DEF FireRepeating, IsDue
<1>4. Queued \subseteq Tasks
  BY ToSetType DEF Queued, TypeOK
<1>5. impl[t].period \in Nat /\ impl[t].nextExecutionTime \in Int
  BY <1>1 DEF TypeOK, Impl
<1>6. QueuedStates'
  BY <1>1, <1>2, <1>4 DEF QueuedStates
<1>7. Scheduled' = Scheduled /\ t \in Scheduled
  BY <1>1, <1>2, <1>3, <1>4, PromisedSteps DEF Scheduled
<1>8. DueOf' = [DueOf EXCEPT ![t] = DueOf'[t]]
  <2>1. \A u \in Tasks \ {t} :
              /\ u \in Scheduled' <=> u \in Scheduled
              /\ u \in Scheduled => impl'[u].nextExecutionTime = impl[u].nextExecutionTime
    BY <1>2, <1>7
  <2> QED
    BY <1>1, <2>1, DueOfOne
<1>9. DueOf'[t] > DueOf[t]
  <2>1. DueOf'[t] = impl'[t].nextExecutionTime /\ DueOf[t] = impl[t].nextExecutionTime
    BY <1>7, DueIs
  <2> QED
    BY <1>2, <1>5, <2>1
<1>10. Ended' = Ended
  BY <1>2 DEF Ended
<1>11. Promise!StartRepeating(t)
  BY <1>2, <1>3, <1>7, <1>8, <1>9, <1>10, PromisedSteps
<1> QED
  BY <1>6, <1>11

\* Timer::cancel() returns: the thread has ended, so that nothing runs.
LEMMA CleanPromised ==
    ASSUME TypeOK, TypeOK', MemoryInv, NEW c \in Callers, Clean(c)
    PROVE  QueuedStates' /\ Promise!Terminated
<1>1. Queued' = {} /\ Scheduled' = {}
  BY DEF Clean, Queued, Scheduled, ToSet
<1>2. QueuedStates'
  BY <1>1 DEF QueuedStates
<1>3. isCancelled /\ current = NoTask /\ UNCHANGED <<current, isCancelled, now>>
  BY DEF Clean, MemoryInv, Termination, ThreadLocals, threadVars
<1>4. Ended'
  BY DEF Ended, Clean, TypeOK
<1>5. DueOf' = [t \in Tasks |-> 0]
  BY <1>1 DEF DueOf
<1>6. Ended' = TRUE
  BY <1>4
<1> QED
  BY <1>1, <1>2, <1>3, <1>5, <1>6 DEF Promise!Terminated, DueOf, Ended

\* Every step of the timer is one that the promise allows, or changes nothing of it.
LEMMA PromiseStep ==
    ASSUME TypeOK, TypeOK', MemoryInv, SleepInv, QueuedStates, [Next]_vars
    PROVE  QueuedStates' /\ [Promise!Next]_Promise!vars
<1> DEFINE Goal == QueuedStates' /\ [Promise!Next]_Promise!vars
<1> USE DEF implVars, threadVars, sleepVars
<1>a. Queued \subseteq Tasks /\ Scheduled \subseteq Queued
  BY ToSetType DEF Queued, Scheduled, TypeOK
\* The tasks that are queued stay so, with their states and times.
<1>b. ASSUME Queued' = Queued, \A u \in Queued : impl'[u] = impl[u],
             UNCHANGED <<current, isCancelled, now>>, Ended' <=> Ended
      PROVE  Goal
  <2>1. QueuedStates' /\ Scheduled' = Scheduled
    BY <1>b DEF QueuedStates, Scheduled
  <2>2. UNCHANGED Promise!vars
    BY <1>a, <1>b, <2>1, PromiseStutters
  <2> QED
    BY <2>1, <2>2
<1>c. UNCHANGED queue => Queued' = Queued
  BY DEF Queued
<1>d. UNCHANGED caller => (Ended' <=> Ended)
  BY DEF Ended
<1>1. ASSUME NEW t \in Tasks, Schedule(t) \/ ScheduleAtTime(t) \/ Reschedule(t) PROVE Goal
  <2>1. ASSUME Schedule(t) PROVE QueuedStates' /\ Promise!Schedule(t)
    <3>1. PICK d \in Delays, per \in Periods : Accept(t, now + d, per)
      BY <2>1 DEF Schedule
    <3>2. now + d \in Int /\ per \in Nat
      BY TimesAssumption DEF TypeOK
    <3> QED
      BY <3>1, <3>2, AcceptPromised
  <2>2. ASSUME ScheduleAtTime(t) PROVE QueuedStates' /\ Promise!Schedule(t)
    <3>1. PICK time \in 0 .. MaxTime, per \in Periods : Accept(t, time, per)
      BY <2>2 DEF ScheduleAtTime
    <3>2. time \in Int /\ per \in Nat
      BY TimesAssumption
    <3> QED
      BY <3>1, <3>2, AcceptPromised
  <2>3. QueuedStates' /\ Promise!Schedule(t)
    BY <1>1, <2>1, <2>2, ReschedulePromised
  <2> QED
    BY <2>3 DEF Promise!Next
<1>2. ASSUME NEW t \in Queued, NEW take \in BOOLEAN, Mark(t, take) PROVE Goal
  BY <1>a, <1>2, MarkPromised DEF Promise!Next
<1>3. ASSUME NEW t \in Tasks, NEW take \in BOOLEAN, CancelTask(t, take) PROVE Goal
  BY <1>2, <1>3 DEF CancelTask
<1>4. ASSUME NEW n \in Names, NEW take \in BOOLEAN, CancelNamed(n, take) PROVE Goal
  <2>1. PICK i \in DOMAIN queue : Mark(queue[i], take)
    BY <1>4 DEF CancelNamed
  <2>2. queue[i] \in Queued
    BY DEF Queued, ToSet
  <2> QED
    BY <1>2, <2>1, <2>2
<1>5. ASSUME NEW t \in Tasks, DeleteOwned(t) PROVE Goal
  <2>1. \A u \in Queued : impl'[u] = impl[u]
    BY <1>a, <1>5 DEF DeleteOwned, Delete
  <2> QED
    BY <1>5, <1>b, <1>c, <1>d, <2>1 DEF DeleteOwned
<1>6. ASSUME NEW c \in Callers, CancelTimer(c) PROVE Goal
  <2>1. /\ UNCHANGED <<queue, impl, current, now>> /\ isCancelled' = TRUE
        /\ caller[c] = "idle" /\ caller' = [caller EXCEPT ![c] = "sem_wait"]
    BY <1>6 DEF CancelTimer
  <2>2. Ended' = Ended
    BY <2>1 DEF Ended, TypeOK
  <2>3. QueuedStates' /\ Scheduled' = Scheduled /\ DueOf' = DueOf
    BY <1>c, <2>1 DEF QueuedStates, Scheduled, DueOf
  <2>4. Promise!Terminate
    BY <2>1, <2>2, <2>3 DEF Promise!Terminate, DueOf, Ended
  <2> QED
    BY <2>3, <2>4 DEF Promise!Next
<1>7. ASSUME NEW c \in Callers, CancelWait(c) \/ CancelJoin(c) PROVE Goal
  <2>1. Ended' <=> Ended
    BY <1>7 DEF CancelWait, CancelJoin, Ended, TypeOK
  <2> QED
    BY <1>7, <1>b, <1>c, <2>1 DEF CancelWait, CancelJoin
<1>8. ASSUME NEW c \in Callers, Clean(c) PROVE Goal
  BY <1>8, CleanPromised DEF Promise!Next
<1>9. CASE WaitForTask \/ Stop \/ Exit \/ SleepUntilDue \/ Timeout \/ SpuriousWakeup
  BY <1>9, <1>b, <1>c, <1>d DEF WaitForTask, Stop, Exit, SleepUntilDue, Timeout, SpuriousWakeup
<1>10. CASE DropCancelled
  <2> DEFINE t == Head(queue)
  <2>1. Queued' = Queued \ {t} /\ impl[t].state = "CANCELLED"
    BY <1>10, TailDrops DEF TypeOK, MemoryInv, MemorySafe, DropCancelled, HasFront, Queued
  <2>2. /\ \A u \in Queued \ {t} : impl'[u] = impl[u]
        /\ UNCHANGED <<current, isCancelled, caller, now>>
    BY <1>a, <1>10 DEF DropCancelled, Delete
  <2> HIDE DEF t
  <2>3. QueuedStates' /\ Scheduled' = Scheduled
    BY <2>1, <2>2 DEF QueuedStates, Scheduled
  <2>4. \A u \in Scheduled : u \in Queued \ {t}
    BY <2>1 DEF Scheduled
  <2>5. UNCHANGED Promise!vars
    BY <1>d, <2>2, <2>3, <2>4, PromiseStutters
  <2> QED
    BY <2>3, <2>5
<1>11. CASE FireOnce
  <2>1. PICK t \in Tasks : t = Head(queue)
    BY <1>11, TailIsRemoveAt DEF FireOnce, HasFront, TypeOK
  <2> QED
    BY <1>11, <2>1, FireOncePromised DEF Promise!Next
<1>12. CASE FireRepeating
  <2>1. PICK t \in Tasks : t = Head(queue)
    BY <1>12, TailIsRemoveAt DEF FireRepeating, HasFront, TypeOK
  <2> QED
    BY <1>12, <2>1, FireRepeatingPromised DEF Promise!Next
<1>13. CASE RunReturns \/ RunThrows
  <2>1. /\ UNCHANGED <<queue, impl, isCancelled, caller, now>>
        /\ current # NoTask /\ current' = NoTask
    BY <1>13 DEF RunReturns, RunThrows, MemoryInv, ThreadLocals
  <2>2. QueuedStates' /\ Scheduled' = Scheduled /\ DueOf' = DueOf
    BY <1>c, <2>1 DEF QueuedStates, Scheduled, DueOf
  <2>3. Ended' = Ended
    BY <2>1 DEF Ended
  <2>4. Promise!End
    BY <2>1, <2>2, <2>3 DEF Promise!End, DueOf, Ended
  <2> QED
    BY <2>2, <2>4 DEF Promise!Next
<1>14. CASE DestroyExecuted
  <2>1. \A u \in Queued : impl'[u] = impl[u]
    BY <1>a, <1>14 DEF DestroyExecuted, Delete, MemoryInv, MemorySafe
  <2> QED
    BY <1>14, <1>b, <1>c, <1>d, <2>1 DEF DestroyExecuted
<1>15. CASE Tick
  <2>1. UNCHANGED <<queue, impl, isCancelled, caller, current>> /\ now < MaxTime /\ now' = now + 1
    BY <1>15 DEF Tick
  <2>2. QueuedStates' /\ Scheduled' = Scheduled /\ DueOf' = DueOf
    BY <1>c, <2>1 DEF QueuedStates, Scheduled, DueOf
  <2>3. Ended' = Ended
    BY <2>1 DEF Ended
  <2>4. Promise!Tick
    BY <2>1, <2>2, <2>3 DEF Promise!Tick, DueOf, Ended
  <2> QED
    BY <2>2, <2>4 DEF Promise!Next
<1>16. CASE UNCHANGED vars
  BY <1>16, <1>b, <1>c, <1>d DEF vars
<1> QED
  BY <1>1, <1>3, <1>4, <1>5, <1>6, <1>7, <1>8, <1>9, <1>10, <1>11, <1>12, <1>13, <1>14,
     <1>15, <1>16
     DEF Next, Call, Terminate, TimerThread

\* The timer implements what timer.h tells its users: no queue, no wakeup, no rescheduling
\* and no cancellation, of one task or of the timer, makes a task start early, out of its
\* order, beside another, after it was cancelled or after cancel() has returned.
THEOREM PromiseKept == Spec => KeepsPromise
<1>1. Init => Promise!Init /\ QueuedStates
  <2> SUFFICES ASSUME Init PROVE Promise!Init /\ QueuedStates
    OBVIOUS
  <2>1. Queued = {} /\ Scheduled = {}
    BY DEF Init, Queued, Scheduled, ToSet
  <2>2. ~Ended
    BY DEF Init, Ended
  <2>3. Ended = FALSE
    BY <2>2
  <2> QED
    BY <2>1, <2>3 DEF Init, QueuedStates, Promise!Init, Ended
<1>2. TypeOK /\ TypeOK' /\ MemoryInv /\ SleepInv /\ QueuedStates /\ [Next]_vars
         => QueuedStates' /\ [Promise!Next]_Promise!vars
  BY PromiseStep
<1> QED
  BY <1>1, <1>2, MemoryCorrect, SleepCorrect, PTL DEF Spec, KeepsPromise, Promise!Spec

=============================================================================
