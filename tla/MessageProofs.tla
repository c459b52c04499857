---------------------------- MODULE MessageProofs ----------------------------
(***************************************************************************)
(* Theorems about Message, for every set of messages, every set of bytes   *)
(* and every largest block.                                                *)
(***************************************************************************)
EXTENDS Message, SequenceTheorems, TLAPS

Values == Bytes \cup {Junk}

\* The inductive invariant
IInv ==
    /\ size_ \in [Messages -> Nat] /\ allocated_ \in [Messages -> Nat]
    /\ TypeOK
    /\ HoldsPromised

-----------------------------------------------------------------------------
(* Blocks and what is done with them *)

\* A block is a sequence that is not too long.
LEMMA ContentsAreSequences ==
    ASSUME NEW b
    PROVE  b \in Contents <=> b \in Seq(Values) /\ Len(b) <= MaxSize
<1>1. ASSUME b \in Contents PROVE b \in Seq(Values) /\ Len(b) <= MaxSize
  <2>1. PICK n \in 0..MaxSize : b \in [1..n -> Values]
    BY <1>1 DEF Contents, Values
  <2>2. n \in Nat /\ n <= MaxSize
    BY MessageAssumption
  <2>3. b \in Seq(Values)
    BY <2>1, <2>2, SeqDef
  <2>4. Len(b) = n
    BY <2>1, <2>2, <2>3, LenProperties
  <2> QED BY <2>2, <2>3, <2>4
<1>2. ASSUME b \in Seq(Values), Len(b) <= MaxSize PROVE b \in Contents
  <2>1. Len(b) \in 0..MaxSize /\ b \in [1..Len(b) -> Values]
    BY <1>2, MessageAssumption, LenProperties
  <2> QED BY <2>1 DEF Contents, Values
<1> QED BY <1>1, <1>2

\* A source is a block with bytes in it.
LEMMA SourcesAreContents ==
    ASSUME NEW src \in Sources
    PROVE  src \in Contents /\ Len(src) \in 1..MaxSize
<1>1. PICK n \in 1..MaxSize : src \in [1..n -> Bytes]
  BY DEF Sources
<1>2. n \in 0..MaxSize /\ n \in Nat /\ src \in [1..n -> Values]
  BY <1>1, MessageAssumption DEF Values
<1>3. src \in Seq(Values) /\ Len(src) = n
  BY <1>2, SeqDef, LenProperties
<1> QED BY <1>1, <1>2, <1>3 DEF Contents, Values

\* A function of 1..n with values of a block is one.
LEMMA BlockOf ==
    ASSUME NEW n \in 0..MaxSize, NEW b \in [1..n -> Values]
    PROVE  b \in Contents /\ Len(b) = n
<1>1. n \in Nat
  BY MessageAssumption
<1>2. b \in Seq(Values)
  BY <1>1, SeqDef
<1>3. Len(b) = n
  BY <1>1, <1>2, LenProperties
<1> QED BY <1>3 DEF Contents, Values

LEMMA EmptyIsContents == <<>> \in Contents /\ Len(<<>>) = 0
<1>1. <<>> \in Seq(Values) /\ Len(<<>>) = 0
  BY EmptySeq
<1>2. 0 <= MaxSize
  BY MessageAssumption
<1> QED BY <1>1, <1>2, ContentsAreSequences

LEMMA ReallocIs ==
    ASSUME NEW b \in Contents, NEW n \in 0..MaxSize
    PROVE  /\ Realloc(b, n) \in Contents /\ Len(Realloc(b, n)) = n
           /\ \A i \in 1..n : i <= Len(b) => Realloc(b, n)[i] = b[i]
<1>1. b \in Seq(Values) /\ Len(b) \in Nat /\ b \in [1..Len(b) -> Values]
  BY ContentsAreSequences, LenProperties
<1>2. \A i \in 1..n : (IF i <= Len(b) THEN b[i] ELSE Junk) \in Values
  BY <1>1 DEF Values
<1>3. Realloc(b, n) \in [1..n -> Values]
  BY <1>2 DEF Realloc
<1> QED BY <1>3, BlockOf DEF Realloc

\* memcpy() of n bytes that lie inside the block and inside the source
LEMMA MemcpyIs ==
    ASSUME NEW b \in Contents, NEW src \in Contents, NEW n \in 0..Len(src),
           NEW at \in Nat, at + n <= Len(b)
    PROVE  /\ Memcpy(b, at, src, n) \in Contents
           /\ Len(Memcpy(b, at, src, n)) = Len(b)
           /\ \A i \in 1..Len(b) : Memcpy(b, at, src, n)[i] =
                 IF i \in at + 1..at + n THEN src[i - at] ELSE b[i]
<1>1. /\ b \in [1..Len(b) -> Values] /\ Len(b) \in 0..MaxSize
      /\ src \in [1..Len(src) -> Values] /\ Len(src) \in Nat
  BY ContentsAreSequences, LenProperties, MessageAssumption
<1>2. \A i \in 1..Len(b) : (IF i \in at + 1..at + n THEN src[i - at] ELSE b[i]) \in Values
  BY <1>1
<1>3. Memcpy(b, at, src, n) \in [1..Len(b) -> Values]
  BY <1>2 DEF Memcpy
<1> QED BY <1>1, <1>3, BlockOf DEF Memcpy

LEMMA SubSeqIs ==
    ASSUME NEW b \in Contents, NEW k \in Nat, NEW n \in 0..Len(b), k <= n
    PROVE  /\ SubSeq(b, k + 1, n) \in Contents
           /\ Len(SubSeq(b, k + 1, n)) = n - k
           /\ \A i \in 1..n - k : SubSeq(b, k + 1, n)[i] = b[k + i]
<1>1. b \in Seq(Values) /\ Len(b) \in 0..MaxSize
  BY ContentsAreSequences, LenProperties, MessageAssumption
<1>2. \A i \in k + 1..n : b[i] \in Values
  BY <1>1, LenProperties
<1>3. /\ SubSeq(b, k + 1, n) \in Seq(Values)
      /\ Len(SubSeq(b, k + 1, n)) = IF k + 1 <= n THEN n - (k + 1) + 1 ELSE 0
      /\ \A i \in 1..n - (k + 1) + 1 : SubSeq(b, k + 1, n)[i] = b[k + 1 + i - 1]
  BY <1>1, <1>2, SubSeqProperties
<1>4. n \in Nat /\ n - (k + 1) + 1 = n - k /\ \A i \in 1..n - k : k + 1 + i - 1 = k + i
  BY <1>1
<1>5. Len(SubSeq(b, k + 1, n)) = n - k /\ n - k <= MaxSize
  BY <1>1, <1>3, MessageAssumption
<1>6. \A i \in 1..n - k : SubSeq(b, k + 1, n)[i] = b[k + i]
  BY <1>3, <1>4
<1> QED BY <1>3, <1>5, <1>6, ContentsAreSequences

\* To hold what was promised is to have its length, and its bytes at the start of the block.
LEMMA HoldsIs ==
    ASSUME NEW b \in Contents, NEW p \in Contents, NEW k \in 0..Len(b)
    PROVE  SubSeq(b, 1, k) = p <=> Len(p) = k /\ \A i \in 1..k : p[i] = b[i]
<1>1. /\ SubSeq(b, 1, k) \in Contents /\ Len(SubSeq(b, 1, k)) = k
      /\ \A i \in 1..k : SubSeq(b, 1, k)[i] = b[i]
  <2>1. 0 + 1 = 1 /\ k - 0 = k /\ 0 <= k /\ \A i \in 1..k : 0 + i = i
    OBVIOUS
  <2> QED BY <2>1, SubSeqIs
<1>2. p \in Seq(Values) /\ SubSeq(b, 1, k) \in Seq(Values)
  BY <1>1, ContentsAreSequences
<1> QED BY <1>1, <1>2, SeqEqual

-----------------------------------------------------------------------------
(* One call *)

\* A message that is given a block, a size inside it, and what it should hold is right.
LEMMA BecomesRight ==
    ASSUME IInv, NEW m \in Messages, NEW b \in Contents, NEW p \in Contents,
           Becomes(m, b, Len(p), Len(b)), Promise(m, p), Len(p) <= Len(b),
           \A i \in 1..Len(p) : b[i] = p[i]
    PROVE  IInv'
<1>1. Len(p) \in Nat /\ Len(b) \in Nat
  BY ContentsAreSequences, LenProperties
<1>2. SubSeq(b, 1, Len(p)) = p
  BY <1>1, HoldsIs
<1>3. size_' \in [Messages -> Nat] /\ allocated_' \in [Messages -> Nat]
  BY <1>1 DEF Becomes, IInv
<1>4. TypeOK'
  BY <1>1 DEF Becomes, Promise, IInv, TypeOK
<1>5. HoldsPromised'
  BY <1>2 DEF Becomes, Promise, IInv, TypeOK, HoldsPromised
<1> QED BY <1>3, <1>4, <1>5 DEF IInv

\* What is known of a message before a call
LEMMA Before ==
    ASSUME IInv, NEW m \in Messages
    PROVE  /\ buffer_[m] \in Contents /\ promised[m] \in Contents
           /\ size_[m] \in Nat /\ allocated_[m] \in Nat /\ allocated_[m] <= MaxSize
           /\ size_[m] <= allocated_[m] /\ allocated_[m] = Len(buffer_[m])
           /\ Len(promised[m]) = size_[m]
           /\ \A i \in 1..size_[m] : promised[m][i] = buffer_[m][i]
<1>1. /\ buffer_[m] \in Contents /\ promised[m] \in Contents
      /\ size_[m] \in 0..Len(buffer_[m]) /\ allocated_[m] = Len(buffer_[m])
      /\ SubSeq(buffer_[m], 1, size_[m]) = promised[m]
  BY DEF IInv, TypeOK, HoldsPromised
<1>2. Len(buffer_[m]) \in Nat /\ Len(buffer_[m]) <= MaxSize
  BY <1>1, ContentsAreSequences, LenProperties
<1> QED BY <1>1, <1>2, HoldsIs

\* The block of a call keeps the bytes it has room for.
LEMMA RoomIs ==
    ASSUME IInv, NEW m \in Messages, NEW n \in 0..MaxSize, NEW grows \in BOOLEAN
    PROVE  LET room == Room(m, n, grows)
           IN  /\ room.block \in Contents /\ room.allocated = Len(room.block)
               /\ Len(room.block) = IF grows THEN n ELSE allocated_[m]
               /\ \A i \in 1..size_[m] : i <= Len(room.block) => room.block[i] = buffer_[m][i]
BY Before, ReallocIs DEF Room

LEMMA SetKeeps ==
    ASSUME IInv, NEW m \in Messages, NEW src \in Sources, Set(m, src)
    PROVE  IInv'
<1> DEFINE n == Len(src)
           room == Room(m, n, n > allocated_[m])
           size == SetSize(size_[m], allocated_[m], n)
           b == Memcpy(room.block, 0, src, size)
           p == IF n = allocated_[m] THEN SubSeq(src, 1, size_[m]) ELSE src
<1> HIDE DEF n, room, size, b, p
<1>1. src \in Contents /\ n \in 1..MaxSize
  BY SourcesAreContents DEF n
<1>2. size_[m] \in Nat /\ allocated_[m] \in Nat /\ size_[m] <= allocated_[m]
  BY Before
<1>3. /\ room.block \in Contents /\ room.allocated = Len(room.block)
      /\ Len(room.block) = IF n > allocated_[m] THEN n ELSE allocated_[m]
  <2>1. n \in 0..MaxSize /\ (n > allocated_[m]) \in BOOLEAN
    BY <1>1, <1>2
  <2> QED BY <2>1, RoomIs DEF room
<1>4. /\ size \in 0..n /\ size <= Len(room.block)
      /\ size = IF n = allocated_[m] THEN size_[m] ELSE n
  BY <1>1, <1>2, <1>3 DEF SetSize, size
<1>5. /\ b \in Contents /\ Len(b) = Len(room.block)
      /\ \A i \in 1..size : b[i] = src[i]
  <2>1. /\ b \in Contents /\ Len(b) = Len(room.block)
        /\ \A i \in 1..Len(room.block) :
              b[i] = IF i \in 0 + 1..0 + size THEN src[i - 0] ELSE room.block[i]
    <3>1. size \in 0..Len(src) /\ 0 + size <= Len(room.block)
      BY <1>1, <1>4 DEF n
    <3> QED BY <1>1, <1>3, <3>1, MemcpyIs DEF b
  <2>2. Len(room.block) \in Nat
    BY <1>1, <1>2, <1>3
  <2> QED BY <1>1, <1>4, <2>1, <2>2
<1>6. p \in Contents /\ Len(p) = size /\ \A i \in 1..size : p[i] = src[i]
  <2>1. CASE n = allocated_[m]
    <3>1. size = size_[m] /\ p = SubSeq(src, 0 + 1, size)
      BY <1>4, <2>1 DEF p
    <3>2. /\ SubSeq(src, 0 + 1, size) \in Contents
          /\ Len(SubSeq(src, 0 + 1, size)) = size - 0
          /\ \A i \in 1..size - 0 : SubSeq(src, 0 + 1, size)[i] = src[0 + i]
      BY <1>1, <1>4, SubSeqIs DEF n
    <3> QED BY <1>1, <1>4, <3>1, <3>2
  <2>2. CASE n # allocated_[m]
    BY <1>1, <1>4, <2>2 DEF p, n
  <2> QED BY <2>1, <2>2
<1>7. Becomes(m, b, Len(p), Len(b)) /\ Promise(m, p)
  <2>1. Becomes(m, b, size, room.allocated) /\ Promise(m, p)
    BY DEF Set, b, p, size, room, n
  <2> QED BY <1>3, <1>5, <1>6, <2>1
<1> QED BY <1>4, <1>5, <1>6, <1>7, BecomesRight

LEMMA AddKeeps ==
    ASSUME IInv, NEW m \in Messages, NEW src \in Sources, Add(m, src)
    PROVE  IInv'
<1> DEFINE n == size_[m] + Len(src)
           room == Room(m, n, n > allocated_[m])
           b == Memcpy(room.block, size_[m], src, Len(src))
           p == promised[m] \o src
<1> HIDE DEF n, room, b, p
<1>1. src \in Contents /\ Len(src) \in 1..MaxSize
  BY SourcesAreContents
<1>2. size_[m] \in Nat /\ allocated_[m] \in Nat /\ size_[m] <= allocated_[m]
  BY Before
<1>3. n \in 0..MaxSize /\ n = size_[m] + Len(src)
  BY <1>1, <1>2, MessageAssumption DEF Add, n
<1>4. /\ room.block \in Contents /\ room.allocated = Len(room.block)
      /\ Len(room.block) = IF n > allocated_[m] THEN n ELSE allocated_[m]
      /\ \A i \in 1..size_[m] : i <= Len(room.block) => room.block[i] = buffer_[m][i]
  <2>1. (n > allocated_[m]) \in BOOLEAN
    BY <1>2, <1>3
  <2> QED BY <1>3, <2>1, RoomIs DEF room
<1>5. /\ b \in Contents /\ Len(b) = Len(room.block)
      /\ \A i \in 1..Len(room.block) :
            b[i] = IF i \in size_[m] + 1..size_[m] + Len(src) THEN src[i - size_[m]]
                   ELSE room.block[i]
  <2> DEFINE at == size_[m]
             k == Len(src)
             block == room.block
  <2>1. block \in Contents /\ src \in Contents /\ at \in Nat
    BY <1>1, <1>2, <1>4
  <2>2. k \in 0..Len(src) /\ at + k <= Len(block)
    BY <1>1, <1>2, <1>3, <1>4
  <2>3. b = Memcpy(block, at, src, k)
    BY DEF b
  <2> HIDE DEF at, k, block
  <2>4. /\ b \in Contents /\ Len(b) = Len(block)
        /\ \A i \in 1..Len(block) :
              b[i] = IF i \in at + 1..at + k THEN src[i - at] ELSE block[i]
    BY ONLY <2>1, <2>2, <2>3, MemcpyIs
  <2> QED BY <2>4 DEF at, k, block
<1>6. /\ p \in Contents /\ Len(p) = n
      /\ \A i \in 1..n : p[i] = IF i <= size_[m] THEN promised[m][i] ELSE src[i - size_[m]]
  <2>1. promised[m] \in Seq(Values) /\ src \in Seq(Values) /\ Len(promised[m]) = size_[m]
    BY <1>1, Before, ContentsAreSequences
  <2>2. /\ p \in Seq(Values) /\ Len(p) = size_[m] + Len(src)
        /\ \A i \in 1..size_[m] + Len(src) :
              p[i] = IF i <= size_[m] THEN promised[m][i] ELSE src[i - size_[m]]
    BY <2>1, ConcatProperties DEF p
  <2> QED BY <1>3, <2>2, ContentsAreSequences
<1>7. \A i \in 1..n : b[i] = p[i]
  <2>1. \A i \in 1..size_[m] : promised[m][i] = buffer_[m][i]
    BY Before
  <2> QED BY <1>1, <1>2, <1>3, <1>4, <1>5, <1>6, <2>1
<1>8. Becomes(m, b, Len(p), Len(b)) /\ Promise(m, p)
  <2>1. Becomes(m, b, n, room.allocated) /\ Promise(m, p)
    BY DEF Add, AddAt, b, p, room, n
  <2> QED BY <1>4, <1>5, <1>6, <2>1
<1>9. Len(p) <= Len(b)
  BY <1>2, <1>3, <1>4, <1>5, <1>6
<1> QED BY <1>5, <1>6, <1>7, <1>8, <1>9, BecomesRight

\* reserve() and resize(), whatever they do to the block
LEMMA ResizeKeeps ==
    ASSUME IInv, NEW m \in Messages, NEW n \in 0..MaxSize, NEW grows \in BOOLEAN,
           ~grows => n <= allocated_[m],
           ResizeIn(m, n, Room(m, n, grows))
    PROVE  IInv'
<1> DEFINE room == Room(m, n, grows)
           p == Resized(m, room.block, n)
<1> HIDE DEF room, p
<1>1. n \in 0..MaxSize /\ n \in Nat
  BY MessageAssumption
<1>2. /\ room.block \in Contents /\ room.allocated = Len(room.block)
      /\ n <= Len(room.block)
      /\ \A i \in 1..size_[m] : i <= Len(room.block) => room.block[i] = buffer_[m][i]
  BY <1>1, RoomIs DEF room
<1>3. /\ size_[m] \in Nat /\ promised[m] \in Contents /\ Len(promised[m]) = size_[m]
      /\ \A i \in 1..size_[m] : promised[m][i] = buffer_[m][i]
  BY Before
<1>4. Len(room.block) \in Nat
  BY <1>2, ContentsAreSequences, LenProperties
<1>5. \A i \in 1..n : (IF i <= size_[m] THEN promised[m][i] ELSE room.block[i]) = room.block[i]
  BY <1>1, <1>2, <1>3, <1>4
<1>6. \A i \in 1..n : room.block[i] \in Values
  BY <1>1, <1>2, <1>4, ContentsAreSequences, LenProperties
<1>7. p \in [1..n -> Values] /\ \A i \in 1..n : p[i] = room.block[i]
  BY <1>5, <1>6 DEF p, Resized
<1>8. p \in Contents /\ Len(p) = n
  BY <1>1, <1>7, BlockOf
<1>9. Becomes(m, room.block, Len(p), Len(room.block)) /\ Promise(m, p)
  BY <1>2, <1>8 DEF ResizeIn, room, p
<1> QED BY <1>2, <1>7, <1>8, <1>9, BecomesRight

LEMMA ReserveKeeps ==
    ASSUME IInv, NEW m \in Messages, NEW n \in 0..MaxSize, Reserve(m, n) \/ Resize(m, n)
    PROVE  IInv'
<1>1. size_[m] \in Nat /\ allocated_[m] \in Nat /\ size_[m] <= allocated_[m]
  BY Before
<1>2. CASE Reserve(m, n)
  <2> DEFINE grows == IsNull(m) \/ n > size_[m]
  <2>1. grows \in BOOLEAN /\ (~grows => n <= allocated_[m])
    BY <1>1 DEF IsNull
  <2> QED BY <1>2, <2>1, ResizeKeeps DEF Reserve, ReserveRoom
<1>3. CASE Resize(m, n)
  <2> DEFINE grows == n > allocated_[m]
  <2>1. grows \in BOOLEAN /\ (~grows => n <= allocated_[m])
    BY <1>1
  <2> QED BY <1>3, <2>1, ResizeKeeps DEF Resize
<1> QED BY <1>2, <1>3

LEMMA ClearKeeps ==
    ASSUME IInv, NEW m \in Messages, Clear(m)
    PROVE  IInv'
<1>1. <<>> \in Contents /\ Len(<<>>) = 0
  BY EmptyIsContents
<1>2. Becomes(m, <<>>, Len(<<>>), Len(<<>>)) /\ Promise(m, <<>>)
  BY <1>1 DEF Clear
<1> QED BY <1>1, <1>2, BecomesRight

LEMMA EraseKeeps ==
    ASSUME IInv, NEW m \in Messages, NEW n \in 0..MaxSize, Erase(m, n)
    PROVE  IInv'
<1> DEFINE rest == SubSeq(buffer_[m], n + 1, size_[m])
           b == Memcpy(buffer_[m], 0, rest, Kept(m, n))
           p == SubSeq(promised[m], n + 1, size_[m])
<1> HIDE DEF rest, b, p
<1>1. /\ buffer_[m] \in Contents /\ promised[m] \in Contents
      /\ size_[m] \in Nat /\ allocated_[m] \in Nat
      /\ size_[m] <= allocated_[m] /\ allocated_[m] = Len(buffer_[m])
      /\ Len(promised[m]) = size_[m]
      /\ \A i \in 1..size_[m] : promised[m][i] = buffer_[m][i]
  BY Before
<1>2. n \in Nat /\ n <= size_[m]
  BY MessageAssumption DEF Erase
<1>3. /\ rest \in Contents /\ Len(rest) = size_[m] - n
      /\ \A i \in 1..size_[m] - n : rest[i] = buffer_[m][n + i]
  <2>1. size_[m] \in 0..Len(buffer_[m])
    BY <1>1
  <2> QED BY <1>1, <1>2, <2>1, SubSeqIs DEF rest
<1>4. /\ p \in Contents /\ Len(p) = size_[m] - n
      /\ \A i \in 1..size_[m] - n : p[i] = promised[m][n + i]
  <2>1. size_[m] \in 0..Len(promised[m])
    BY <1>1
  <2> QED BY <1>1, <1>2, <2>1, SubSeqIs DEF p
<1>5. /\ b \in Contents /\ Len(b) = Len(buffer_[m])
      /\ \A i \in 1..Len(buffer_[m]) :
            b[i] = IF i \in 0 + 1..0 + Kept(m, n) THEN rest[i - 0] ELSE buffer_[m][i]
  <2>1. Kept(m, n) \in 0..Len(rest) /\ 0 + Kept(m, n) <= Len(buffer_[m])
    BY <1>1, <1>2, <1>3 DEF Kept
  <2> QED BY ONLY <1>1, <1>3, <2>1, MemcpyIs DEF b
<1>6. Len(p) <= Len(b)
  BY <1>1, <1>2, <1>4, <1>5
<1>7. ASSUME NEW i \in 1..Len(p) PROVE b[i] = p[i]
  <2>1. i \in 1..size_[m] - n /\ n + i \in 1..size_[m]
    BY <1>1, <1>2, <1>4
  <2>2. i \in 1..Len(buffer_[m]) /\ i \in 0 + 1..0 + Kept(m, n) /\ i - 0 = i
    BY <1>1, <1>2, <2>1 DEF Kept
  <2>3. b[i] = rest[i]
    BY <1>5, <2>2
  <2>4. rest[i] = buffer_[m][n + i] /\ p[i] = promised[m][n + i]
    BY <1>3, <1>4, <2>1
  <2> QED BY <1>1, <2>1, <2>3, <2>4
<1>8. Becomes(m, b, Len(p), Len(b)) /\ Promise(m, p)
  <2>1. Becomes(m, b, size_[m] - n, allocated_[m]) /\ Promise(m, p)
    BY DEF Erase, b, p, rest
  <2> QED BY <1>1, <1>4, <1>5, <2>1
<1> QED BY <1>4, <1>5, <1>6, <1>7, <1>8, BecomesRight

LEMMA CopyKeeps ==
    ASSUME IInv, NEW m \in Messages, NEW from \in Messages, Copy(m, from)
    PROVE  IInv'
<1> DEFINE n == size_[from]
           room == ReserveRoom(m, n)
           size == SetSize(n, room.allocated, n)
           b == Memcpy(room.block, 0, buffer_[from], size)
<1> HIDE DEF n, room, size, b
<1>1. /\ buffer_[from] \in Contents /\ promised[from] \in Contents
      /\ Len(promised[from]) = n /\ n \in 0..Len(buffer_[from]) /\ n \in 0..MaxSize
      /\ \A i \in 1..n : promised[from][i] = buffer_[from][i]
  BY Before, MessageAssumption DEF n
<1>2. size_[m] \in Nat /\ allocated_[m] \in Nat /\ size_[m] <= allocated_[m]
  BY Before
<1>3. /\ room.block \in Contents /\ room.allocated = Len(room.block)
      /\ n <= Len(room.block)
  <2> DEFINE grows == IsNull(m) \/ n > size_[m]
  <2> HIDE DEF grows
  <2>1. grows \in BOOLEAN /\ (~grows => n <= allocated_[m])
    BY <1>1, <1>2 DEF IsNull, grows
  <2>2. room = Room(m, n, grows)
    BY DEF room, ReserveRoom, grows
  <2> QED BY <1>1, <2>1, <2>2, RoomIs
<1>4. size = n
  BY DEF SetSize, size
<1>5. /\ b \in Contents /\ Len(b) = Len(room.block)
      /\ \A i \in 1..Len(room.block) :
            b[i] = IF i \in 0 + 1..0 + n THEN buffer_[from][i - 0] ELSE room.block[i]
  <2>1. 0 + n <= Len(room.block)
    BY <1>1, <1>3
  <2> QED BY ONLY <1>1, <1>3, <1>4, <2>1, MemcpyIs DEF b
<1>6. \A i \in 1..n : b[i] = promised[from][i]
  <2>1. Len(room.block) \in Nat
    BY <1>3, ContentsAreSequences, LenProperties
  <2> QED BY <1>1, <1>3, <1>5, <2>1
<1>7. Becomes(m, b, Len(promised[from]), Len(b)) /\ Promise(m, promised[from])
  <2>1. Becomes(m, b, size, room.allocated) /\ Promise(m, promised[from])
    BY DEF Copy, b, size, room, n
  <2> QED BY <1>1, <1>3, <1>4, <1>5, <2>1
<1> QED BY <1>1, <1>3, <1>5, <1>6, <1>7, BecomesRight

LEMMA Step == IInv /\ [Next]_vars => IInv'
<1> SUFFICES ASSUME IInv, [Next]_vars PROVE IInv'
  OBVIOUS
<1>1. CASE UNCHANGED vars
  BY <1>1 DEF vars, IInv, TypeOK, HoldsPromised
<1>2. CASE Next
  BY <1>2, SetKeeps, AddKeeps, ReserveKeeps, EraseKeeps, ClearKeeps, CopyKeeps DEF Next
<1> QED BY <1>1, <1>2

-----------------------------------------------------------------------------

\* Whatever calls are made on the messages, in whatever order and on whatever sources.
THEOREM MessageCorrect == Spec => []IInv
<1>1. Init => IInv
  <2> SUFFICES ASSUME Init PROVE IInv
    OBVIOUS
  <2>1. <<>> \in Contents /\ Len(<<>>) = 0 /\ SubSeq(<<>>, 1, 0) = <<>>
    <3>1. <<>> \in Contents /\ Len(<<>>) = 0
      BY EmptyIsContents
    <3>2. SubSeq(<<>>, 1, 0) = <<>> <=>
              Len(<<>>) = 0 /\ \A i \in 1..0 : <<>>[i] = <<>>[i]
      BY <3>1, HoldsIs
    <3> QED BY <3>1, <3>2
  <2> QED BY <2>1 DEF Init, IInv, TypeOK, HoldsPromised
<1> QED BY <1>1, Step, PTL DEF Spec

\* Nothing is read or written outside a block: size_ is at most allocated_, and that is
\* the block's length (message.h:212-213).
THEOREM BlocksBounded == Spec => []TypeOK
<1>1. IInv => TypeOK
  BY DEF IInv
<1> QED BY <1>1, MessageCorrect, PTL

\* A message holds what was put into it (message.h:55).
THEOREM PromisesHeld == Spec => []HoldsPromised
<1>1. IInv => HoldsPromised
  BY DEF IInv
<1> QED BY <1>1, MessageCorrect, PTL

=============================================================================
