--------------------------- MODULE TransferProofs ---------------------------
(***************************************************************************)
(* Theorems about Transfer, for every set of connections and files, every  *)
(* size of the files and of the packages and every length of the tags.     *)
(***************************************************************************)
EXTENDS Transfer, SequenceTheorems, TLAPS

-----------------------------------------------------------------------------
(* The inductive invariant *)

\* No client makes two connections, and so no two chains of it share filePartSent.
OneConnEach == \A c, d \in Conns : ClientOf[c] = ClientOf[d] => c = d

Data(f, i) == [part |-> "data", of |-> f, at |-> i]

\* After the first `from` bytes of f, s goes on with it as far as f goes.
Follows(s, from, f) ==
    \A i \in 1 .. Len(s) : from + i <= Size[f] => s[i] = Data(f, from + i)

StartEnd(f) == [part |-> "start", of |-> f, at |-> StartLen]

TypedSender ==
    /\ file \in [Conns -> [name : Files \cup {NoFile}, pos : Nat, eof : BOOLEAN]]
    /\ sending \subseteq Conns /\ running \subseteq sending
    /\ filePartSent \in [Clients -> BOOLEAN]
    /\ timer \in [Clients -> {"alive", "dead"}]
    /\ reported \subseteq Conns \X Files
    /\ assigned \subseteq Conns \X Files

TypedWire ==
    /\ link \in [Conns -> {"up", "shut", "broken"}]
    /\ wire \in [Conns -> Seq(Byte)]

TypedReceiver ==
    /\ server \in {"up", "crashed"}
    /\ receiving \subseteq Conns
    /\ opened \in [Conns -> Files \cup {NoFile}]
    /\ stored \in [Conns -> Seq(Byte)]
    /\ commonsize \in Nat
    /\ dirty \subseteq errors /\ errors \subseteq Conns
    /\ closed \subseteq [file : Files, data : Seq(Byte), clean : BOOLEAN]

\* A task has a file, and reads it to its end.
Reading ==
    \A c \in Conns :
        /\ file[c].name # NoFile => file[c].pos <= Size[file[c].name]
        /\ file[c].eof => file[c].name # NoFile /\ file[c].pos = Size[file[c].name]
        /\ c \in sending => file[c].name # NoFile

Types == TypedSender /\ TypedWire /\ TypedReceiver /\ Reading

\* Before its start tags are sent, nothing of a file has been read.
Begins(c) == c \in sending /\ ~filePartSent[ClientOf[c]] => file[c].pos = 0

\* The chain of c has begun to send f.
GoesOn(c, f) == c \in sending /\ file[c].name = f /\ filePartSent[ClientOf[c]]

\* What follows start tags on the wire is their file; where its end is missing, it is
\* to be sent next.
WireInOrder(c) ==
    \A f \in Files : \A k \in 1 .. Len(wire[c]) : wire[c][k] = StartEnd(f) =>
        /\ \A i \in 1 .. Len(wire[c]) - k : i <= Size[f] => wire[c][k + i] = Data(f, i)
        /\ link[c] = "up" /\ Len(wire[c]) - k < Size[f] =>
              GoesOn(c, f) /\ file[c].pos = Len(wire[c]) - k

\* The same of what has been written without an error.
StoredInOrder(c) ==
    server = "up" /\ opened[c] # NoFile /\ c \notin dirty =>
        /\ Follows(stored[c], 0, opened[c])
        /\ Follows(wire[c], Len(stored[c]), opened[c])
        /\ link[c] = "up" /\ Len(stored[c]) + Len(wire[c]) < Size[opened[c]] =>
              GoesOn(c, opened[c]) /\ file[c].pos = Len(stored[c]) + Len(wire[c])

OrderOf(c) == Begins(c) /\ WireInOrder(c) /\ StoredInOrder(c)

InOrder == Types /\ (\A c \in Conns : OrderOf(c)) /\ DoneHasContent

\* The files chosen for a connection
Assigned(c) == {a \in assigned : a[1] = c}

\* Only a file that was chosen is sent, and called sent.
SendsAssigned ==
    /\ \A c \in sending : <<c, file[c].name>> \in assigned
    /\ reported \subseteq assigned

\* All that has been sent on a connection that is used for f alone
Sent(c, f) ==
    (IF file[c].pos = 0 THEN <<>> ELSE StartTags(f) \o Bytes("data", f, 0, file[c].pos))
        \o (IF <<c, f>> \in reported THEN FinishTagSent ELSE <<>>)

Unused(c) ==
    link[c] = "up" /\ Assigned(c) = {} =>
        /\ wire[c] = <<>> /\ opened[c] = NoFile /\ stored[c] = <<>>
        /\ c \notin sending

UsedOnce(c, f) ==
    link[c] = "up" /\ Assigned(c) = {<<c, f>>} =>
        /\ file[c].name = f
        /\ <<c, f>> \in reported => c \notin sending /\ file[c].pos = Size[f]

\* Every byte of f that has been sent is on the wire or written.
Flowing(c, f) ==
    \/ opened[c] = NoFile /\ stored[c] = <<>> /\ wire[c] = Sent(c, f)
    \/ /\ opened[c] = f /\ c \notin dirty
       /\ (StartTags(f) \o stored[c]) \o wire[c] = Sent(c, f)

\* A chain on another connection of the client has failed and left filePartSent set: the
\* file was sent without its start tags, and the server will not take it for one.
Headless(c) == opened[c] = NoFile /\ wire[c] # <<>> /\ wire[c][1].part = "data"

Told(c, f) == c \in errors \/ server = "crashed" \/ Received(f)

KeepsBytes(c, f) ==
    link[c] = "up" /\ Assigned(c) = {<<c, f>>} =>
        Told(c, f) \/ Flowing(c, f) \/ Headless(c)

LossOf(c) == Unused(c) /\ \A f \in Files : UsedOnce(c, f) /\ KeepsBytes(c, f)

IInv == InOrder /\ SendsAssigned /\ \A c \in Conns : LossOf(c)

-----------------------------------------------------------------------------
(* Bytes and parts of what is on the wire *)

\* The smaller of two numbers
LEMMA LeastIs ==
    ASSUME NEW a \in Int, NEW b \in Int
    PROVE  Least({a, b}) = IF a <= b THEN a ELSE b
<1> DEFINE x == IF a <= b THEN a ELSE b
<1>1. x \in {a, b} /\ \A y \in {a, b} : x <= y
  OBVIOUS
<1>2. \A z \in {a, b} : (\A y \in {a, b} : z <= y) => z = x
  OBVIOUS
<1> HIDE DEF x
<1>3. Least({a, b}) = x
  BY <1>1, <1>2 DEF Least
<1> QED
  BY <1>3 DEF x

\* Bytes of one part of a file
LEMMA BytesAre ==
    ASSUME NEW part \in {"start", "data", "finish"}, NEW f \in Files \cup {NoFile},
           NEW from \in Nat, NEW n \in Nat
    PROVE  /\ Bytes(part, f, from, n) \in Seq(Byte)
           /\ Len(Bytes(part, f, from, n)) = n
           /\ \A i \in 1 .. n :
                 Bytes(part, f, from, n)[i] = [part |-> part, of |-> f, at |-> from + i]
<1>1. \A i \in 1 .. n : [part |-> part, of |-> f, at |-> from + i] \in Byte
  BY DEF Byte
<1>2. Bytes(part, f, from, n) \in [1 .. n -> Byte]
  BY <1>1 DEF Bytes
<1>3. Bytes(part, f, from, n) \in Seq(Byte)
  BY <1>2, SeqDef
<1>4. Len(Bytes(part, f, from, n)) = n
  BY <1>2, <1>3, LenProperties
<1> QED
  BY <1>3, <1>4 DEF Bytes

\* Bytes of the file itself
LEMMA DataAre ==
    ASSUME NEW f \in Files, NEW from \in Nat, NEW n \in Nat
    PROVE  /\ Bytes("data", f, from, n) \in Seq(Byte)
           /\ Len(Bytes("data", f, from, n)) = n
           /\ \A i \in 1 .. n : Bytes("data", f, from, n)[i] = Data(f, from + i)
<1>1. f \in Files \cup {NoFile}
  OBVIOUS
<1> QED
  BY <1>1, BytesAre DEF Data

\* The two parts of a cut
LEMMA CutIs ==
    ASSUME NEW s \in Seq(Byte), NEW n \in 0 .. Len(s)
    PROVE  /\ SubSeq(s, 1, n) \in Seq(Byte) /\ Len(SubSeq(s, 1, n)) = n
           /\ \A i \in 1 .. n : SubSeq(s, 1, n)[i] = s[i]
           /\ SubSeq(s, n + 1, Len(s)) \in Seq(Byte)
           /\ Len(SubSeq(s, n + 1, Len(s))) = Len(s) - n
           /\ \A i \in 1 .. Len(s) - n : SubSeq(s, n + 1, Len(s))[i] = s[n + i]
<1>1. Len(s) \in Nat /\ \A i \in 1 .. Len(s) : s[i] \in Byte
  BY LenProperties, ElementOfSeq
<1> DEFINE l == Len(s)
<1> HIDE DEF l
<1>2. l \in Nat /\ n \in 0 .. l /\ \A i \in 1 .. l : s[i] \in Byte
  BY <1>1 DEF l
<1>3. /\ SubSeq(s, 1, n) \in Seq(Byte) /\ Len(SubSeq(s, 1, n)) = n
      /\ \A i \in 1 .. n : SubSeq(s, 1, n)[i] = s[i]
  <2>1. \A i \in 1 .. n : s[i] \in Byte
    BY <1>2
  <2>2. 1 \in Int /\ n \in Int
    BY <1>2
  <2> QED
    BY <2>1, <2>2, <1>2, SubSeqProperties
<1>4. /\ SubSeq(s, n + 1, l) \in Seq(Byte) /\ Len(SubSeq(s, n + 1, l)) = l - n
      /\ \A i \in 1 .. l - n : SubSeq(s, n + 1, l)[i] = s[n + i]
  <2> DEFINE m == n + 1
  <2>1. m \in Int /\ l \in Int /\ \A i \in m .. l : s[i] \in Byte
    BY <1>2
  <2> HIDE DEF m
  <2>2. /\ SubSeq(s, m, l) \in Seq(Byte)
        /\ Len(SubSeq(s, m, l)) = IF m <= l THEN l - m + 1 ELSE 0
        /\ \A i \in 1 .. l - m + 1 : SubSeq(s, m, l)[i] = s[m + i - 1]
    BY ONLY <2>1, SubSeqProperties
  <2> QED
    BY <2>2, <1>2 DEF m
<1> QED
  BY <1>3, <1>4 DEF l

\* The start tags and the content of a file
LEMMA TagsAre ==
    ASSUME NEW f \in Files
    PROVE  /\ StartTags(f) \in Seq(Byte) /\ Len(StartTags(f)) = StartLen
           /\ \A i \in 1 .. StartLen : StartTags(f)[i] = [part |-> "start", of |-> f, at |-> i]
           /\ Content(f) \in Seq(Byte) /\ Len(Content(f)) = Size[f]
           /\ \A i \in 1 .. Size[f] : Content(f)[i] = [part |-> "data", of |-> f, at |-> i]
<1>1. StartLen \in Nat /\ Size[f] \in Nat /\ 0 \in Nat /\ f \in Files \cup {NoFile}
  BY LengthsAssumption, FilesAssumption
<1>2. \A i \in Nat : 0 + i = i
  OBVIOUS
<1>3. /\ StartTags(f) \in Seq(Byte) /\ Len(StartTags(f)) = StartLen
      /\ \A i \in 1 .. StartLen :
            StartTags(f)[i] = [part |-> "start", of |-> f, at |-> 0 + i]
  BY <1>1, BytesAre, ZenonT(30) DEF StartTags
<1>4. /\ Content(f) \in Seq(Byte) /\ Len(Content(f)) = Size[f]
      /\ \A i \in 1 .. Size[f] : Content(f)[i] = [part |-> "data", of |-> f, at |-> 0 + i]
  BY <1>1, BytesAre, ZenonT(30) DEF Content
<1> QED
  BY <1>1, <1>2, <1>3, <1>4

\* The finish tag, and what is sent of it
LEMMA FinishIs ==
    /\ FinishTag \in Seq(Byte) /\ Len(FinishTag) = FinishLen
    /\ \A i \in 1 .. FinishLen : FinishTag[i] = [part |-> "finish", of |-> NoFile, at |-> i]
    /\ FinishTagSent \in Seq(Byte) /\ Len(FinishTagSent) = FinishLen + 1
    /\ \A i \in 1 .. FinishLen + 1 :
          FinishTagSent[i] = [part |-> "finish", of |-> NoFile, at |-> i]
<1>1. FinishLen \in Nat /\ FinishLen + 1 \in Nat /\ 0 \in Nat
  BY LengthsAssumption
<1>2. \A i \in Nat : 0 + i = i
  OBVIOUS
<1>3. /\ FinishTag \in Seq(Byte) /\ Len(FinishTag) = FinishLen
      /\ \A i \in 1 .. FinishLen :
            FinishTag[i] = [part |-> "finish", of |-> NoFile, at |-> 0 + i]
  BY <1>1, BytesAre, ZenonT(30) DEF FinishTag
<1>4. /\ FinishTagSent \in Seq(Byte) /\ Len(FinishTagSent) = FinishLen + 1
      /\ \A i \in 1 .. FinishLen + 1 :
            FinishTagSent[i] = [part |-> "finish", of |-> NoFile, at |-> 0 + i]
  BY <1>1, BytesAre DEF FinishTagSent
<1> QED
  BY <1>1, <1>2, <1>3, <1>4

\* A buffer is what the wire begins with, one byte or more of it.
LEMMA BufferIs ==
    ASSUME NEW c \in Conns, wire[c] \in Seq(Byte), NEW buffer \in Buffers(c)
    PROVE  /\ buffer \in Seq(Byte) /\ Len(buffer) \in 1 .. Len(wire[c])
           /\ \A i \in 1 .. Len(buffer) : buffer[i] = wire[c][i]
<1>1. PICK n \in 1 .. Least({RecvMax, Len(wire[c])}) : buffer = SubSeq(wire[c], 1, n)
  BY DEF Buffers
<1>2. RecvMax \in Nat /\ Len(wire[c]) \in Nat
  BY LengthsAssumption, LenProperties
<1>3. n \in 1 .. Len(wire[c])
  BY <1>1, <1>2, LeastIs
<1> QED
  BY <1>1, <1>3, CutIs

\* What a task reads ends where the file ends.
LEMMA ReadIs ==
    ASSUME NEW c \in Conns, file[c].name \in Files, file[c].pos \in Nat,
           file[c].pos <= Size[file[c].name]
    PROVE  /\ ReadCount(c) \in Nat
           /\ file[c].pos + ReadCount(c) <= Size[file[c].name]
           /\ ReadCount(c) < Package => file[c].pos + ReadCount(c) = Size[file[c].name]
           /\ ReadCount(c) = 0 => file[c].pos = Size[file[c].name]
<1>1. Package \in Nat \ {0} /\ Size[file[c].name] \in Nat
  BY LengthsAssumption, FilesAssumption
<1>2. ReadCount(c) = IF Package <= Size[file[c].name] - file[c].pos THEN Package
                     ELSE Size[file[c].name] - file[c].pos
  BY <1>1, LeastIs DEF ReadCount
<1> QED
  BY <1>1, <1>2

-----------------------------------------------------------------------------
(* Types *)

\* What is put on the wire and taken from it
LEMMA PutTyped ==
    ASSUME TypedWire, NEW c \in Conns, NEW bytes \in Seq(Byte), Transmit(c, bytes)
    PROVE  wire' \in [Conns -> Seq(Byte)]
<1>1. wire[c] \o bytes \in Seq(Byte)
  BY ConcatProperties DEF TypedWire
<1> QED
  BY <1>1 DEF TypedWire, Transmit

\* What recv() takes, and what it leaves on the wire
LEMMA TakeTyped ==
    ASSUME TypedWire, NEW c \in Conns, NEW buffer \in Buffers(c), Recv(c, buffer)
    PROVE  /\ wire' \in [Conns -> Seq(Byte)]
           /\ wire' = [wire EXCEPT ![c] = SubSeq(wire[c], Len(buffer) + 1, Len(wire[c]))]
           /\ buffer \in Seq(Byte) /\ Len(buffer) \in 1 .. Len(wire[c])
           /\ \A i \in 1 .. Len(buffer) : buffer[i] = wire[c][i]
           /\ SubSeq(wire[c], Len(buffer) + 1, Len(wire[c])) \in Seq(Byte)
           /\ server = "up" /\ c \in receiving /\ UNCHANGED <<clientVars, link>>
<1>1. wire[c] \in Seq(Byte)
  BY DEF TypedWire
<1>2. /\ buffer \in Seq(Byte) /\ Len(buffer) \in 1 .. Len(wire[c])
      /\ \A i \in 1 .. Len(buffer) : buffer[i] = wire[c][i]
  BY <1>1, BufferIs
<1>3. Len(buffer) \in 0 .. Len(wire[c])
  BY <1>1, <1>2, LenProperties
<1>4. SubSeq(wire[c], Len(buffer) + 1, Len(wire[c])) \in Seq(Byte)
  BY <1>1, <1>3, CutIs
<1>5. wire' = [wire EXCEPT ![c] = SubSeq(wire[c], Len(buffer) + 1, Len(wire[c]))]
  BY DEF Recv
<1> QED
  BY <1>2, <1>4, <1>5 DEF TypedWire, Recv, Receives

\* The bytes after the start tags of a buffer that begins with them
LEMMA AfterTags ==
    ASSUME NEW f \in Files, NEW buffer \in Seq(Byte), BeginsWithTags(f, buffer)
    PROVE  /\ StartLen \in 1 .. Len(buffer)
           /\ \A i \in 1 .. StartLen : buffer[i] = [part |-> "start", of |-> f, at |-> i]
           /\ SubSeq(buffer, StartLen + 1, Len(buffer)) \in Seq(Byte)
           /\ Len(SubSeq(buffer, StartLen + 1, Len(buffer))) = Len(buffer) - StartLen
           /\ \A i \in 1 .. Len(buffer) - StartLen :
                 SubSeq(buffer, StartLen + 1, Len(buffer))[i] = buffer[StartLen + i]
<1>1. StartLen \in Nat \ {0} /\ Len(buffer) \in Nat
  BY LengthsAssumption, LenProperties
<1>2. StartLen <= Len(buffer) /\ SubSeq(StartTags(f), 1, StartLen) = SubSeq(buffer, 1, StartLen)
  BY TagsAre DEF BeginsWithTags, IsPrefix
<1>3. StartLen \in 0 .. Len(buffer) /\ StartLen \in 0 .. Len(StartTags(f))
  BY <1>1, <1>2, TagsAre
<1>4. \A i \in 1 .. StartLen : buffer[i] = StartTags(f)[i]
  <2>1. \A i \in 1 .. StartLen : SubSeq(buffer, 1, StartLen)[i] = buffer[i]
    BY <1>3, CutIs
  <2>2. \A i \in 1 .. StartLen : SubSeq(StartTags(f), 1, StartLen)[i] = StartTags(f)[i]
    BY <1>3, CutIs, TagsAre
  <2> QED
    BY <2>1, <2>2, <1>2
<1>5. \A i \in 1 .. StartLen : buffer[i] = [part |-> "start", of |-> f, at |-> i]
  BY <1>4, TagsAre
<1>6. /\ SubSeq(buffer, StartLen + 1, Len(buffer)) \in Seq(Byte)
      /\ Len(SubSeq(buffer, StartLen + 1, Len(buffer))) = Len(buffer) - StartLen
      /\ \A i \in 1 .. Len(buffer) - StartLen :
            SubSeq(buffer, StartLen + 1, Len(buffer))[i] = buffer[StartLen + i]
  BY <1>3, CutIs
<1> QED
  BY <1>1, <1>2, <1>5, <1>6

\* The bytes before a finish tag
LEMMA BeforeFinish ==
    ASSUME NEW bytes \in Seq(Byte), HasFinishTag(bytes)
    PROVE  /\ Len(bytes) - FinishLen - 1 \in 0 .. Len(bytes)
           /\ SubSeq(bytes, 1, Len(bytes) - FinishLen - 1) \in Seq(Byte)
           /\ Len(SubSeq(bytes, 1, Len(bytes) - FinishLen - 1)) = Len(bytes) - FinishLen - 1
           /\ \A i \in 1 .. Len(bytes) - FinishLen - 1 :
                 SubSeq(bytes, 1, Len(bytes) - FinishLen - 1)[i] = bytes[i]
           /\ bytes[Len(bytes) - FinishLen] = [part |-> "finish", of |-> NoFile, at |-> 1]
<1>1. /\ FinishLen \in Nat \ {0} /\ Len(bytes) \in Nat /\ Len(bytes) > FinishLen
      /\ \A i \in 1 .. Len(bytes) : bytes[i] \in Byte
  BY LengthsAssumption, LenProperties, ElementOfSeq DEF HasFinishTag
<1>2. Len(bytes) - FinishLen - 1 \in 0 .. Len(bytes)
  BY <1>1
<1> DEFINE from == Len(bytes) - FinishLen
           to == Len(bytes) - 1
<1>3. from \in Int /\ to \in Int /\ from <= to /\ \A i \in from .. to : bytes[i] \in Byte
  BY <1>1
<1>4. SubSeq(bytes, from, to) = FinishTag
  BY DEF HasFinishTag
<1> HIDE DEF from, to
<1>5. \A i \in 1 .. to - from + 1 : SubSeq(bytes, from, to)[i] = bytes[from + i - 1]
  BY ONLY <1>3, SubSeqProperties
<1>6. 1 \in 1 .. to - from + 1 /\ from + 1 - 1 = from
  BY <1>3
<1>7. FinishTag[1] = bytes[from]
  BY <1>4, <1>5, <1>6
<1>8. FinishTag[1] = [part |-> "finish", of |-> NoFile, at |-> 1]
  BY <1>1, FinishIs
<1> QED
  BY <1>2, <1>7, <1>8, CutIs DEF from

\* Every way a buffer is handled keeps the server's types.
LEMMA StoreTyped ==
    ASSUME TypedReceiver, NEW c \in Conns, NEW f \in Files, NEW written \in Seq(Byte),
           NEW clean \in BOOLEAN, NEW before \in Nat, NEW bytes \in Seq(Byte),
           Store(c, f, written, clean, before, bytes)
    PROVE  TypedReceiver'
<1>1. before + Len(bytes) \in Nat /\ written \o bytes \in Seq(Byte) /\ <<>> \in Seq(Byte)
  BY ConcatProperties, LenProperties, EmptySeq
<1> DEFINE data == SubSeq(bytes, 1, Len(bytes) - FinishLen - 1)
           total == before + Len(bytes)
<1>2. CASE /\ HasFinishTag(bytes)
           /\ commonsize' = 0
           /\ opened' = [opened EXCEPT ![c] = NoFile]
           /\ stored' = [stored EXCEPT ![c] = <<>>]
           /\ closed' = closed \cup {[file |-> f, data |-> written \o data, clean |-> clean]}
           /\ UNCHANGED <<server, receiving, dirty, errors>>
  <2>1. written \o data \in Seq(Byte)
    BY <1>2, BeforeFinish, ConcatProperties
  <2> HIDE DEF data
  <2>2. [file |-> f, data |-> written \o data, clean |-> clean]
            \in [file : Files, data : Seq(Byte), clean : BOOLEAN]
    BY <2>1
  <2> QED
    BY <1>1, <1>2, <2>2 DEF TypedReceiver
<1>3. CASE /\ commonsize' = total
           /\ opened' = [opened EXCEPT ![c] = f]
           /\ stored' = [stored EXCEPT ![c] = written \o bytes]
           /\ dirty' = IF clean THEN dirty \ {c} ELSE dirty
           /\ UNCHANGED <<server, receiving, errors, closed>>
  BY <1>1, <1>3 DEF TypedReceiver
<1>4. CASE Garbled(c, f, total) /\ stored' = [stored EXCEPT ![c] = written]
  BY <1>1, <1>4 DEF TypedReceiver, Garbled
<1>5. CASE Crash
  BY <1>5 DEF TypedReceiver, Crash
<1> QED
  BY <1>2, <1>3, <1>4, <1>5 DEF Store

\* What a run of SendingTask reads and sends
LEMMA ReadPartTyped ==
    ASSUME TypedSender, Reading, NEW c \in Conns, ReadPart(c)
    PROVE  /\ file[c].name \in Files /\ c \in sending /\ c \in running
           /\ ReadCount(c) \in Nat
           /\ file[c].pos + ReadCount(c) <= Size[file[c].name]
           /\ ReadCount(c) = 0 => file[c].pos = Size[file[c].name]
           /\ file' \in [Conns -> [name : Files \cup {NoFile}, pos : Nat, eof : BOOLEAN]]
           /\ filePartSent' \in [Clients -> BOOLEAN] /\ filePartSent'[ClientOf[c]]
           /\ \A d \in Conns : ClientOf[d] # ClientOf[c] =>
                 filePartSent'[ClientOf[d]] = filePartSent[ClientOf[d]]
           /\ \A d \in Conns \ {c} : file'[d] = file[d]
           /\ file'[c].name = file[c].name /\ file'[c].pos = file[c].pos + ReadCount(c)
           /\ file'[c].eof => file'[c].pos = Size[file[c].name]
<1> USE ConnsAssumption
<1>1. /\ file[c].name \in Files /\ c \in sending /\ file[c].pos \in Nat
      /\ file[c].eof \in BOOLEAN /\ file[c].pos <= Size[file[c].name] /\ c \in running
      /\ file[c] \in [name : Files \cup {NoFile}, pos : Nat, eof : BOOLEAN]
  BY DEF TypedSender, Reading, ReadPart
<1>2. /\ ReadCount(c) \in Nat
      /\ file[c].pos + ReadCount(c) <= Size[file[c].name]
      /\ ReadCount(c) < Package => file[c].pos + ReadCount(c) = Size[file[c].name]
      /\ ReadCount(c) = 0 => file[c].pos = Size[file[c].name]
  BY <1>1, ReadIs
<1>3. Size[file[c].name] \in Nat
  BY <1>1, FilesAssumption
<1> DEFINE n == ReadCount(c)
<1> HIDE DEF n
<1>4. /\ file' = [file EXCEPT ![c].pos = @ + n, ![c].eof = @ \/ n < Package]
      /\ filePartSent' = [filePartSent EXCEPT ![ClientOf[c]] = TRUE]
  BY DEF ReadPart, n
<1>5. n \in Nat /\ (n < Package) \in BOOLEAN /\ file[c].pos + n \in Nat
      /\ (file[c].eof \/ n < Package) \in BOOLEAN
  BY <1>1, <1>2 DEF n
<1>6. file'[c] = [name |-> file[c].name, pos |-> file[c].pos + n,
                  eof |-> file[c].eof \/ n < Package]
  BY <1>1, <1>4 DEF TypedSender
<1>7. file' \in [Conns -> [name : Files \cup {NoFile}, pos : Nat, eof : BOOLEAN]]
  <2>1. file'[c] \in [name : Files \cup {NoFile}, pos : Nat, eof : BOOLEAN]
    BY <1>1, <1>5, <1>6
  <2>2. file' = [file EXCEPT ![c] = file'[c]]
    BY <1>4 DEF TypedSender
  <2> QED
    BY <2>1, <2>2 DEF TypedSender
<1>8. file'[c].eof => file'[c].pos = Size[file[c].name]
  <2>1. file[c].eof => file[c].pos = Size[file[c].name]
    BY DEF Reading
  <2>2. CASE n < Package
    BY <1>2, <1>6, <2>2 DEF n
  <2>3. CASE file[c].eof
    BY <1>1, <1>2, <1>3, <1>5, <1>6, <2>1, <2>3 DEF n
  <2> DEFINE e == file[c].eof \/ n < Package
  <2>4. file'[c].eof = e
    <3>1. file'[c] = [name |-> file[c].name, pos |-> file[c].pos + n, eof |-> e]
      BY <1>6
    <3> HIDE DEF e
    <3> QED
      BY <3>1
  <2> QED
    BY <2>2, <2>3, <2>4, Zenon
<1>9. /\ filePartSent' \in [Clients -> BOOLEAN] /\ filePartSent'[ClientOf[c]]
      /\ \A d \in Conns : ClientOf[d] # ClientOf[c] =>
            filePartSent'[ClientOf[d]] = filePartSent[ClientOf[d]]
  BY <1>4 DEF TypedSender
<1>10. \A d \in Conns \ {c} : file'[d] = file[d]
  BY <1>4 DEF TypedSender
<1> QED
  BY <1>1, <1>2, <1>6, <1>7, <1>8, <1>9, <1>10 DEF n

\* What is sent by SendPart
PartSent(c) ==
    (IF filePartSent[ClientOf[c]] THEN <<>> ELSE StartTags(file[c].name))
        \o Bytes("data", file[c].name, file[c].pos, ReadCount(c))

\* A part is a sequence of bytes.
LEMMA PartTyped ==
    ASSUME NEW c \in Conns, file[c].name \in Files, file[c].pos \in Nat, ReadCount(c) \in Nat
    PROVE  PartSent(c) \in Seq(Byte)
<1>1. file[c].name \in Files \cup {NoFile}
  OBVIOUS
<1>2. Bytes("data", file[c].name, file[c].pos, ReadCount(c)) \in Seq(Byte)
  BY <1>1, BytesAre
<1>3. (IF filePartSent[ClientOf[c]] THEN <<>> ELSE StartTags(file[c].name)) \in Seq(Byte)
  BY TagsAre, EmptySeq
<1> QED
  BY <1>2, <1>3, ConcatProperties DEF PartSent

\* Every step keeps the types, and leaves a task with a file read up to its position.
LEMMA TypesStep == Types /\ [Next]_vars => Types'
<1> SUFFICES ASSUME Types, [Next]_vars PROVE Types'
  OBVIOUS
<1> USE ConnsAssumption, FilesAssumption
<1> USE DEF Types
<1>1. ASSUME NEW c \in Conns, NEW f \in Files, Assign(c, f) PROVE Types'
  <2> USE <1>1 DEF Assign, serverVars
  <2>1. file'[c] \in [name : Files \cup {NoFile}, pos : Nat, eof : BOOLEAN]
    BY DEF TypedSender
  <2>2. TypedSender'
    BY <2>1 DEF TypedSender
  <2>3. TypedWire' /\ TypedReceiver'
    BY DEF TypedWire, TypedReceiver
  <2>4. Reading'
    <3>1. Size[f] \in Nat /\ f # NoFile
      OBVIOUS
    <3> QED
      BY <3>1 DEF Reading, TypedSender
  <2> QED
    BY <2>2, <2>3, <2>4
<1>2. ASSUME NEW c \in Conns, Close(c) \/ Break(c) PROVE Types'
  <2> USE <1>2 DEF Close, Break, serverVars, clientVars
  <2>1. TypedSender' /\ TypedReceiver' /\ Reading'
    BY DEF TypedSender, TypedReceiver, Reading
  <2>2. wire' \in [Conns -> Seq(Byte)]
    <3>1. \A n \in 0 .. Len(wire[c]) : SubSeq(wire[c], 1, n) \in Seq(Byte)
      BY CutIs DEF TypedWire
    <3> QED
      BY <3>1 DEF TypedWire
  <2>3. TypedWire'
    BY <2>2 DEF TypedWire
  <2> QED
    BY <2>1, <2>3
<1>3. ASSUME NEW c \in Conns, SessionClosed(c) \/ SessionOpen(c) PROVE Types'
  BY <1>3 DEF SessionClosed, SessionOpen, Starts, serverVars, TypedSender, TypedWire, TypedReceiver,
     Reading
<1>4. ASSUME NEW c \in Conns, SendFinish(c) \/ SendFinishThrows(c) PROVE Types'
  <2> USE <1>4 DEF SendFinish, SendFinishThrows, AtFinish, EndChain, serverVars
  <2>1. c \in sending /\ file[c].name \in Files
    BY DEF TypedSender, Reading
  <2>2. TypedSender'
    <3>1. reported' \subseteq Conns \X Files
      BY <2>1 DEF TypedSender
    <3>2. filePartSent' \in [Clients -> BOOLEAN] /\ timer' \in [Clients -> {"alive", "dead"}]
      BY DEF TypedSender
    <3> QED
      BY <3>1, <3>2 DEF TypedSender
  <2>3. TypedReceiver' /\ Reading'
    BY DEF TypedReceiver, Reading, TypedSender
  <2>4. TypedWire'
    <3>1. CASE SendFinish(c)
      BY <3>1, PutTyped, FinishIs DEF TypedWire
    <3>2. CASE SendFinishThrows(c)
      BY <3>2 DEF TypedWire
    <3> QED
      BY <3>1, <3>2
  <2> QED
    BY <2>2, <2>3, <2>4
<1>5. ASSUME NEW c \in Conns, SendPart(c) \/ SendNothing(c) \/ SendPartFails(c) PROVE Types'
  <2>1. ReadPart(c)
    BY <1>5 DEF SendPart, SendNothing, SendPartFails
  <2>2. /\ UNCHANGED <<timer, reported, assigned, link, serverVars>>
        /\ running' = running \ {c} /\ sending' \in {sending, sending \ {c}}
    BY <1>5 DEF SendPart, SendNothing, SendPartFails, NextTask, EndChain
  <2>3. TypedSender'
    BY <2>1, <2>2, ReadPartTyped DEF TypedSender
  <2>4. Reading'
    BY <2>1, <2>2, ReadPartTyped DEF Reading, TypedSender
  <2>5. TypedReceiver'
    BY <2>2 DEF TypedReceiver, serverVars
  <2>6. TypedWire'
    <3>1. CASE SendPart(c)
      <4>1. Transmit(c, PartSent(c))
        BY <3>1 DEF SendPart, PartSent
      <4>2. PartSent(c) \in Seq(Byte)
        BY <2>1, ReadPartTyped, PartTyped DEF TypedSender
      <4> QED
        BY <2>2, <4>1, <4>2, PutTyped DEF TypedWire
    <3>2. CASE ~SendPart(c)
      BY <1>5, <3>2 DEF SendNothing, SendPartFails, TypedWire
    <3> QED
      BY <3>1, <3>2
  <2> QED
    BY <2>3, <2>4, <2>5, <2>6
<1>6. ASSUME NEW c \in Conns, RecvEnds(c) PROVE Types'
  BY <1>6 DEF RecvEnds, Receives, clientVars, TypedSender, TypedWire, TypedReceiver, Reading
<1>7. ASSUME NEW c \in Conns, NEW buffer \in Buffers(c), Recv(c, buffer), TypedReceiver'
      PROVE  Types'
  BY <1>7, TakeTyped DEF clientVars, TypedSender, TypedWire, Reading
<1>8. ASSUME NEW c \in Conns, BadStart(c) PROVE Types'
  <2>1. PICK buffer \in Buffers(c) :
            /\ Recv(c, buffer)
            /\ \/ Garbled(c, NoFile, 0) /\ UNCHANGED stored
               \/ Crash
    BY <1>8 DEF BadStart
  <2>2. TypedReceiver'
    <3>1. CASE Garbled(c, NoFile, 0) /\ UNCHANGED stored
      BY <3>1 DEF Garbled, TypedReceiver
    <3>2. CASE Crash
      BY <3>2 DEF Crash, TypedReceiver
    <3> QED
      BY <2>1, <3>1, <3>2
  <2> QED
    BY <1>7, <2>1, <2>2
<1>9. ASSUME NEW c \in Conns, OpenFails(c) PROVE Types'
  <2>1. PICK buffer \in Buffers(c) :
            /\ Recv(c, buffer)
            /\ commonsize' = 0 /\ receiving' = receiving \ {c} /\ errors' = errors \cup {c}
            /\ UNCHANGED <<server, fileVars>>
    BY <1>9 DEF OpenFails
  <2>2. TypedReceiver'
    BY <2>1 DEF fileVars, TypedReceiver
  <2> QED
    BY <1>7, <2>1, <2>2
<1>10. ASSUME NEW c \in Conns, FirstBuffer(c) PROVE Types'
  <2>1. PICK f \in Files, buffer \in Buffers(c) :
            /\ Recv(c, buffer) /\ BeginsWithTags(f, buffer)
            /\ Store(c, f, <<>>, TRUE, 0, SubSeq(buffer, StartLen + 1, Len(buffer)))
    BY <1>10 DEF FirstBuffer
  <2>2. buffer \in Seq(Byte)
    BY <2>1, TakeTyped
  <2>3. SubSeq(buffer, StartLen + 1, Len(buffer)) \in Seq(Byte) /\ <<>> \in Seq(Byte)
    BY <2>1, <2>2, AfterTags, EmptySeq
  <2>4. TypedReceiver'
    BY <2>1, <2>3, StoreTyped
  <2> QED
    BY <1>7, <2>1, <2>4
<1>11. ASSUME NEW c \in Conns, NextBuffer(c) PROVE Types'
  <2>1. PICK buffer \in Buffers(c) :
            /\ Recv(c, buffer)
            /\ Store(c, opened[c], stored[c], c \notin dirty, commonsize, buffer)
    BY <1>11 DEF NextBuffer
  <2>2. buffer \in Seq(Byte)
    BY <2>1, TakeTyped
  <2>3. opened[c] \in Files /\ stored[c] \in Seq(Byte) /\ commonsize \in Nat
    BY <1>11 DEF NextBuffer, TypedReceiver
  <2>4. TypedReceiver'
    BY <2>1, <2>2, <2>3, StoreTyped
  <2> QED
    BY <1>7, <2>1, <2>4
<1>12. CASE UNCHANGED vars
  BY <1>12 DEF vars, clientVars, serverVars, TypedSender, TypedWire, TypedReceiver, Reading
<1> QED
  BY <1>1, <1>2, <1>3, <1>4, <1>5, <1>6, <1>8, <1>9, <1>10, <1>11, <1>12
  DEF Next, SendingTask, RecvTask

\* The program starts with the types it keeps.
LEMMA TypesInit == Init => Types
<1> SUFFICES ASSUME Init PROVE Types
  OBVIOUS
<1> USE DEF Init, Types
<1>1. <<>> \in Seq(Byte)
  BY EmptySeq
<1>2. TypedSender
  BY DEF TypedSender
<1>3. TypedWire /\ TypedReceiver
  BY <1>1 DEF TypedWire, TypedReceiver
<1>4. Reading
  BY DEF Reading
<1> QED
  BY <1>2, <1>3, <1>4

\* What either end and the wire may hold, for any number of clients and connections.
THEOREM TypesCorrect == Spec => []TypeOK
<1>1. Types => TypeOK
  BY DEF Types, TypeOK, TypedSender, TypedWire, TypedReceiver
<1> QED
  BY <1>1, TypesInit, TypesStep, PTL DEF Spec

-----------------------------------------------------------------------------
(* Order *)

\* A sequence that agrees with a shorter one begins with it.
LEMMA PrefixIs ==
    ASSUME NEW s \in Seq(Byte), NEW t \in Seq(Byte), Len(s) <= Len(t),
           \A i \in 1 .. Len(s) : t[i] = s[i]
    PROVE  IsPrefix(s, t)
<1>1. Len(s) \in 0 .. Len(t) /\ Len(s) \in 0 .. Len(s)
  BY LenProperties
<1>2. /\ SubSeq(t, 1, Len(s)) \in Seq(Byte) /\ Len(SubSeq(t, 1, Len(s))) = Len(s)
      /\ \A i \in 1 .. Len(s) : SubSeq(t, 1, Len(s))[i] = t[i]
  BY <1>1, CutIs
<1>3. /\ SubSeq(s, 1, Len(s)) \in Seq(Byte) /\ Len(SubSeq(s, 1, Len(s))) = Len(s)
      /\ \A i \in 1 .. Len(s) : SubSeq(s, 1, Len(s))[i] = s[i]
  BY <1>1, CutIs
<1>4. SubSeq(s, 1, Len(s)) = SubSeq(t, 1, Len(s))
  BY <1>2, <1>3, SeqEqual
<1> QED
  BY <1>4 DEF IsPrefix

\* The order is kept by a step that leaves the bytes alone, and a chain that has more of its
\* file to send.
LEMMA KeepsOrder ==
    ASSUME Types, NEW c \in Conns, OrderOf(c), Begins(c)', wire'[c] = wire[c],
           server' = "up" /\ c \notin dirty' =>
              /\ server = "up" /\ c \notin dirty
              /\ opened'[c] = opened[c] /\ stored'[c] = stored[c],
           link'[c] = "up" =>
              /\ link[c] = "up"
              /\ \A f \in Files : GoesOn(c, f) /\ file[c].pos < Size[f] =>
                    GoesOn(c, f)' /\ file'[c].pos = file[c].pos
    PROVE  OrderOf(c)'
<1>1. WireInOrder(c)'
  <2> SUFFICES ASSUME NEW f \in Files, NEW k \in 1 .. Len(wire[c]), wire[c][k] = StartEnd(f)
               PROVE  /\ \A i \in 1 .. Len(wire[c]) - k :
                            i <= Size[f] => wire[c][k + i] = Data(f, i)
                      /\ link'[c] = "up" /\ Len(wire[c]) - k < Size[f] =>
                            GoesOn(c, f)' /\ file'[c].pos = Len(wire[c]) - k
    BY DEF WireInOrder, StartEnd, Data
  <2> QED
    BY DEF OrderOf, WireInOrder
<1>2. StoredInOrder(c)'
  <2> SUFFICES ASSUME server' = "up", opened'[c] # NoFile, c \notin dirty'
               PROVE  /\ Follows(stored[c], 0, opened[c])
                      /\ Follows(wire[c], Len(stored[c]), opened[c])
                      /\ link'[c] = "up" /\ Len(stored[c]) + Len(wire[c]) < Size[opened[c]] =>
                            /\ GoesOn(c, opened[c])'
                            /\ file'[c].pos = Len(stored[c]) + Len(wire[c])
    BY DEF StoredInOrder, GoesOn, Follows, Data
  <2>1. opened[c] \in Files /\ server = "up" /\ c \notin dirty /\ opened'[c] = opened[c]
    BY DEF Types, TypedReceiver
  <2> QED
    BY <2>1 DEF OrderOf, StoredInOrder, GoesOn
<1> QED
  BY <1>1, <1>2 DEF OrderOf

\* It is kept by a step that puts bytes on the wire which go on with the file that is being
\* sent, or are another file from its start tags on.
LEMMA PutKeepsOrder ==
    ASSUME Types, NEW c \in Conns, OrderOf(c), Begins(c)', NEW bytes \in Seq(Byte),
           wire'[c] = wire[c] \o bytes, link[c] = "up",
           UNCHANGED <<server, dirty, opened, stored, link>>,
           \A f \in Files : GoesOn(c, f) /\ file[c].pos < Size[f] =>
              /\ \A i \in 1 .. Len(bytes) :
                    file[c].pos + i <= Size[f] => bytes[i] = Data(f, file[c].pos + i)
              /\ file[c].pos + Len(bytes) < Size[f] =>
                    GoesOn(c, f)' /\ file'[c].pos = file[c].pos + Len(bytes),
           \A f \in Files : \A k \in 1 .. Len(bytes) : bytes[k] = StartEnd(f) =>
              /\ \A i \in 1 .. Len(bytes) - k : i <= Size[f] => bytes[k + i] = Data(f, i)
              /\ Len(bytes) - k < Size[f] =>
                    GoesOn(c, f)' /\ file'[c].pos = Len(bytes) - k
    PROVE  OrderOf(c)'
<1> DEFINE w == wire[c]
           v == wire'[c]
<1>1. w \in Seq(Byte) /\ Len(w) \in Nat /\ Len(bytes) \in Nat /\ Len(stored[c]) \in Nat
  BY LenProperties DEF Types, TypedWire, TypedReceiver
<1>2. \A f \in Files : Size[f] \in Nat
  BY FilesAssumption
<1>3. /\ Len(v) = Len(w) + Len(bytes)
      /\ \A i \in 1 .. Len(w) : v[i] = w[i]
      /\ \A i \in 1 .. Len(bytes) : v[Len(w) + i] = bytes[i]
  <2>1. /\ Len(w \o bytes) = Len(w) + Len(bytes)
        /\ \A i \in 1 .. Len(w) + Len(bytes) :
              (w \o bytes)[i] = IF i <= Len(w) THEN w[i] ELSE bytes[i - Len(w)]
    BY <1>1, ConcatProperties
  <2> QED
    BY <1>1, <2>1
<1>4. /\ \A f \in Files : \A k \in 1 .. Len(w) : w[k] = StartEnd(f) =>
            /\ \A i \in 1 .. Len(w) - k : i <= Size[f] => w[k + i] = Data(f, i)
            /\ Len(w) - k < Size[f] => GoesOn(c, f) /\ file[c].pos = Len(w) - k
  BY DEF OrderOf, WireInOrder
<1> HIDE DEF w, v
<1>5. WireInOrder(c)'
  <2> SUFFICES ASSUME NEW f \in Files, NEW k \in 1 .. Len(v), v[k] = StartEnd(f)
               PROVE  /\ \A i \in 1 .. Len(v) - k : i <= Size[f] => v[k + i] = Data(f, i)
                      /\ Len(v) - k < Size[f] => GoesOn(c, f)' /\ file'[c].pos = Len(v) - k
    BY DEF WireInOrder, StartEnd, Data, v
  <2>1. CASE k <= Len(w)
    <3>1. /\ w[k] = StartEnd(f) /\ k \in 1 .. Len(w)
          /\ \A i \in 1 .. Len(w) - k : i <= Size[f] => w[k + i] = Data(f, i)
          /\ Len(w) - k < Size[f] => GoesOn(c, f) /\ file[c].pos = Len(w) - k
      BY <1>1, <1>3, <1>4, <2>1
    <3>2. CASE Len(w) - k < Size[f]
      <4>1. /\ \A i \in 1 .. Len(bytes) :
                  Len(w) - k + i <= Size[f] => bytes[i] = Data(f, Len(w) - k + i)
            /\ Len(w) - k + Len(bytes) < Size[f] =>
                  GoesOn(c, f)' /\ file'[c].pos = Len(w) - k + Len(bytes)
        BY <3>1, <3>2
      <4>2. ASSUME NEW i \in 1 .. Len(v) - k, i <= Size[f] PROVE v[k + i] = Data(f, i)
        <5>1. CASE k + i <= Len(w)
          BY <1>1, <1>3, <3>1, <4>2, <5>1
        <5>2. CASE k + i > Len(w)
          <6> DEFINE j == k + i - Len(w)
          <6>1. j \in 1 .. Len(bytes) /\ Len(w) - k + j = i /\ k + i = Len(w) + j
            BY <1>1, <1>3, <3>1, <4>2, <5>2
          <6> HIDE DEF j
          <6>2. bytes[j] = Data(f, i)
            BY <4>1, <4>2, <6>1
          <6>3. v[Len(w) + j] = bytes[j]
            BY <1>3, <6>1
          <6> QED
            BY <6>1, <6>2, <6>3
        <5> QED
          BY <1>1, <5>1, <5>2
      <4>3. Len(v) - k = Len(w) - k + Len(bytes)
        BY <1>1, <1>3
      <4> QED
        BY <4>1, <4>2, <4>3
    <3>3. CASE ~(Len(w) - k < Size[f])
      <4>1. \A i \in 1 .. Len(v) - k : i <= Size[f] => i \in 1 .. Len(w) - k /\ v[k + i] = w[k + i]
        <5> SUFFICES ASSUME NEW i \in 1 .. Len(v) - k, i <= Size[f]
                     PROVE  i \in 1 .. Len(w) - k /\ v[k + i] = w[k + i]
          OBVIOUS
        <5>1. i \in 1 .. Len(w) - k
          BY <1>1, <1>2, <3>3
        <5>2. k + i \in 1 .. Len(w)
          BY <1>1, <5>1
        <5> QED
          BY <1>3, <5>1, <5>2
      <4>2. ~(Len(v) - k < Size[f])
        BY <1>1, <1>2, <1>3, <2>1, <3>3
      <4> QED
        BY <3>1, <4>1, <4>2
    <3> QED
      BY <3>2, <3>3
  <2>2. CASE k > Len(w)
    <3> DEFINE j == k - Len(w)
    <3>1. j \in 1 .. Len(bytes) /\ k = Len(w) + j /\ Len(v) - k = Len(bytes) - j
      BY <1>1, <1>3, <2>2
    <3> HIDE DEF j
    <3>2. bytes[j] = StartEnd(f)
      BY <1>3, <3>1
    <3>3. /\ \A i \in 1 .. Len(bytes) - j : i <= Size[f] => bytes[j + i] = Data(f, i)
          /\ Len(bytes) - j < Size[f] => GoesOn(c, f)' /\ file'[c].pos = Len(bytes) - j
      BY <3>1, <3>2
    <3>4. \A i \in 1 .. Len(bytes) - j : v[k + i] = bytes[j + i]
      <4>1. \A i \in 1 .. Len(bytes) - j :
               j + i \in 1 .. Len(bytes) /\ k + i = Len(w) + (j + i)
        BY <1>1, <3>1
      <4> QED
        BY <1>3, <4>1
    <3> QED
      BY <3>1, <3>3, <3>4
  <2> QED
    BY <1>1, <2>1, <2>2
<1>6. StoredInOrder(c)'
  <2> SUFFICES ASSUME server = "up", opened[c] # NoFile, c \notin dirty
               PROVE  /\ Follows(stored[c], 0, opened[c])
                      /\ Follows(v, Len(stored[c]), opened[c])
                      /\ Len(stored[c]) + Len(v) < Size[opened[c]] =>
                            /\ GoesOn(c, opened[c])'
                            /\ file'[c].pos = Len(stored[c]) + Len(v)
    BY DEF StoredInOrder, GoesOn, Follows, Data, v
  <2> DEFINE f == opened[c]
             m == Len(stored[c])
  <2>1. f \in Files /\ f = opened[c]' /\ m \in Nat
    BY <1>1 DEF Types, TypedReceiver
  <2>2. /\ Follows(stored[c], 0, f)
        /\ \A i \in 1 .. Len(w) : m + i <= Size[f] => w[i] = Data(f, m + i)
        /\ m + Len(w) < Size[f] => GoesOn(c, f) /\ file[c].pos = m + Len(w)
    BY DEF OrderOf, StoredInOrder, Follows, w
  <2> HIDE DEF f, m
  <2>3. CASE m + Len(w) < Size[f]
    <3>1. /\ \A i \in 1 .. Len(bytes) :
                (m + Len(w)) + i <= Size[f] => bytes[i] = Data(f, (m + Len(w)) + i)
          /\ (m + Len(w)) + Len(bytes) < Size[f] =>
                GoesOn(c, opened[c])' /\ file'[c].pos = (m + Len(w)) + Len(bytes)
      <4>1. ASSUME NEW g \in Files, g = f
            PROVE  /\ \A i \in 1 .. Len(bytes) :
                         (m + Len(w)) + i <= Size[f] => bytes[i] = Data(f, (m + Len(w)) + i)
                   /\ (m + Len(w)) + Len(bytes) < Size[f] =>
                         /\ c \in sending' /\ file'[c].name = g /\ filePartSent'[ClientOf[c]]
                         /\ file'[c].pos = (m + Len(w)) + Len(bytes)
          <5>1. GoesOn(c, g) /\ file[c].pos = m + Len(w) /\ file[c].pos < Size[g]
            BY <2>2, <2>3, <4>1
          <5>2. /\ \A i \in 1 .. Len(bytes) :
                      file[c].pos + i <= Size[g] => bytes[i] = Data(g, file[c].pos + i)
                /\ file[c].pos + Len(bytes) < Size[g] =>
                      GoesOn(c, g)' /\ file'[c].pos = file[c].pos + Len(bytes)
            BY <5>1
          <5> QED
            BY <4>1, <5>1, <5>2 DEF GoesOn
      <4> QED
        BY <2>1, <4>1 DEF GoesOn
    <3>2. ASSUME NEW i \in 1 .. Len(v), m + i <= Size[f] PROVE v[i] = Data(f, m + i)
      <4>1. CASE i <= Len(w)
        BY <1>1, <1>3, <2>2, <3>2, <4>1
      <4>2. CASE i > Len(w)
        <5> DEFINE j == i - Len(w)
        <5>1. j \in 1 .. Len(bytes) /\ (m + Len(w)) + j = m + i /\ i = Len(w) + j
          BY <1>1, <1>3, <2>1, <3>2, <4>2
        <5> HIDE DEF j
        <5>2. bytes[j] = Data(f, m + i) /\ v[Len(w) + j] = bytes[j]
          BY <1>3, <3>1, <3>2, <5>1
        <5> QED
          BY <5>1, <5>2
      <4> QED
        BY <1>1, <4>1, <4>2
    <3>3. (m + Len(w)) + Len(bytes) = m + Len(v)
      BY <1>1, <1>3, <2>1
    <3> QED
      BY <2>2, <3>1, <3>2, <3>3 DEF Follows, f, m
  <2>4. CASE ~(m + Len(w) < Size[f])
    <3>1. \A i \in 1 .. Len(v) : m + i <= Size[f] => i \in 1 .. Len(w) /\ v[i] = w[i]
      BY <1>1, <1>2, <1>3, <2>1, <2>4
    <3>2. ~(m + Len(v) < Size[f])
      BY <1>1, <1>2, <1>3, <2>1, <2>4
    <3> QED
      BY <2>2, <3>1, <3>2 DEF Follows, f, m
  <2> QED
    BY <2>3, <2>4
<1> QED
  BY <1>5, <1>6 DEF OrderOf

\* What follows what follows a position of the file follows that position.
LEMMA FollowsConcat ==
    ASSUME NEW s \in Seq(Byte), NEW t \in Seq(Byte), NEW from \in Nat, NEW f \in Files,
           Follows(s, from, f), Follows(t, from + Len(s), f)
    PROVE  Follows(s \o t, from, f)
<1>1. Len(s) \in Nat /\ Len(t) \in Nat
  BY LenProperties
<1>2. /\ Len(s \o t) = Len(s) + Len(t)
      /\ \A i \in 1 .. Len(s) + Len(t) :
            (s \o t)[i] = IF i <= Len(s) THEN s[i] ELSE t[i - Len(s)]
  BY ConcatProperties
<1> DEFINE u == s \o t
<1> HIDE DEF u
<1> SUFFICES ASSUME NEW i \in 1 .. Len(u), from + i <= Size[f]
             PROVE  u[i] = Data(f, from + i)
  BY DEF Follows, u
<1>3. CASE i <= Len(s)
  BY <1>1, <1>2, <1>3 DEF Follows, u
<1>4. CASE i > Len(s)
  <2> DEFINE j == i - Len(s)
  <2>1. /\ j \in 1 .. Len(t) /\ from + Len(s) + j = from + i
        /\ i \in 1 .. Len(s) + Len(t)
    BY <1>1, <1>2, <1>4 DEF u
  <2>2. u[i] = t[j]
    BY <1>2, <1>4, <2>1 DEF u
  <2> HIDE DEF j
  <2> QED
    BY <2>1, <2>2 DEF Follows
<1> QED
  BY <1>1, <1>3, <1>4

\* A buffer is written, or ends a file, in order: what the file is closed with begins with
\* all of it, for none of its bytes is the finish tag's.
LEMMA StoreKeepsOrder ==
    ASSUME Types, DoneHasContent, NEW c \in Conns, NEW f \in Files, NEW written \in Seq(Byte),
           NEW clean \in BOOLEAN, NEW before \in Nat, NEW bytes \in Seq(Byte),
           Store(c, f, written, clean, before, bytes),
           UNCHANGED <<clientVars, link>>,
           clean =>
              /\ Follows(written, 0, f) /\ Follows(bytes, Len(written), f)
              /\ Follows(wire'[c], Len(written) + Len(bytes), f)
              /\ link[c] = "up" /\ Len(written) + Len(bytes) + Len(wire'[c]) < Size[f] =>
                    /\ GoesOn(c, f)
                    /\ file[c].pos = Len(written) + Len(bytes) + Len(wire'[c]),
           ~clean => c \in dirty
    PROVE  StoredInOrder(c)' /\ DoneHasContent'
<1>1. Len(written) \in Nat /\ Len(bytes) \in Nat /\ Size[f] \in Nat
  BY LenProperties, FilesAssumption
<1>2. Len(written \o bytes) = Len(written) + Len(bytes)
  BY ConcatProperties
<1> DEFINE data == SubSeq(bytes, 1, Len(bytes) - FinishLen - 1)
           total == before + Len(bytes)
<1>3. CASE /\ HasFinishTag(bytes)
           /\ commonsize' = 0
           /\ opened' = [opened EXCEPT ![c] = NoFile]
           /\ stored' = [stored EXCEPT ![c] = <<>>]
           /\ closed' = closed \cup {[file |-> f, data |-> written \o data, clean |-> clean]}
           /\ UNCHANGED <<server, receiving, dirty, errors>>
  <2>1. StoredInOrder(c)'
    BY <1>3 DEF StoredInOrder, Types, TypedReceiver
  <2>2. ASSUME clean PROVE IsPrefix(Content(f), written \o data)
    <3> DEFINE n == Len(bytes) - FinishLen - 1
    <3>1. /\ data \in Seq(Byte) /\ Len(data) = n /\ n \in 0 .. Len(bytes)
          /\ \A i \in 1 .. n : data[i] = bytes[i]
          /\ n + 1 \in 1 .. Len(bytes)
          /\ bytes[n + 1] = [part |-> "finish", of |-> NoFile, at |-> 1]
      <4>1. FinishLen \in Nat \ {0}
        BY LengthsAssumption
      <4> QED
        BY <1>1, <1>3, <4>1, BeforeFinish
    <3> HIDE DEF n, data
    <3>2. /\ written \o data \in Seq(Byte) /\ Len(written \o data) = Len(written) + n
          /\ \A i \in 1 .. Len(written) + n :
                (written \o data)[i] = IF i <= Len(written) THEN written[i]
                                       ELSE data[i - Len(written)]
      BY <3>1, ConcatProperties
    <3>3. Size[f] <= Len(written) + n
      <4>1. ASSUME Len(written) + (n + 1) <= Size[f] PROVE FALSE
        <5>1. bytes[n + 1] = Data(f, Len(written) + (n + 1))
          BY <2>2, <3>1, <4>1 DEF Follows
        <5>2. bytes[n + 1].part = "data" /\ bytes[n + 1].part = "finish"
          BY <3>1, <5>1 DEF Data
        <5> QED
          BY <5>2
      <4> QED
        BY <1>1, <3>1, <4>1
    <3>4. Follows(written, 0, f) /\ Follows(data, 0 + Len(written), f)
      <4>1. \A i \in 1 .. Len(data) : i \in 1 .. Len(bytes) /\ data[i] = bytes[i]
        BY <1>1, <3>1
      <4>2. 0 + Len(written) = Len(written)
        BY <1>1
      <4> QED
        BY <2>2, <4>1, <4>2 DEF Follows
    <3>5. Follows(written \o data, 0, f)
      <4>1. 0 \in Nat
        OBVIOUS
      <4> QED
        BY <3>1, <3>4, <4>1, FollowsConcat
    <3>6. \A i \in 1 .. Size[f] : (written \o data)[i] = Content(f)[i]
      <4>1. \A i \in 1 .. Size[f] :
               i \in 1 .. Len(written \o data) /\ 0 + i <= Size[f] /\ 0 + i = i
        BY <1>1, <3>1, <3>2, <3>3
      <4>2. \A i \in 1 .. Size[f] : (written \o data)[i] = Data(f, i)
        BY <3>5, <4>1 DEF Follows
      <4> QED
        BY <4>2, TagsAre DEF Data
    <3> QED
      BY <3>2, <3>3, <3>6, TagsAre, PrefixIs, ZenonT(30)
  <2>3. DoneHasContent'
    <3> DEFINE new == [file |-> f, data |-> written \o data, clean |-> clean]
    <3>1. SUFFICES ASSUME NEW r \in closed', r.clean
                   PROVE  IsPrefix(Content(r.file), r.data)
      BY DEF DoneHasContent, Content, Bytes
    <3>2. CASE r \in closed
      BY <3>1, <3>2 DEF DoneHasContent
    <3>3. CASE r = new
      <4>1. r.file = f /\ r.data = written \o data /\ (r.clean => clean)
        BY <3>3, Zenon
      <4> HIDE DEF data
      <4> QED
        BY <2>2, <3>1, <4>1
    <3> HIDE DEF new
    <3> QED
      BY <1>3, <3>1, <3>2, <3>3 DEF new
  <2> QED
    BY <2>1, <2>3
<1>4. CASE /\ opened' = [opened EXCEPT ![c] = f]
           /\ stored' = [stored EXCEPT ![c] = written \o bytes]
           /\ dirty' = IF clean THEN dirty \ {c} ELSE dirty
           /\ UNCHANGED <<server, receiving, errors, closed>>
  <2>1. ASSUME c \notin dirty' PROVE clean
    BY <1>4, <2>1
  <2>2. /\ opened'[c] = f /\ stored'[c] = written \o bytes
        /\ Len(stored'[c]) = Len(written) + Len(bytes)
    BY <1>2, <1>4 DEF Types, TypedReceiver
  <2>3. ASSUME clean
        PROVE  /\ Follows(stored'[c], 0, f) /\ Follows(wire'[c], Len(stored'[c]), f)
               /\ link'[c] = "up" /\ Len(stored'[c]) + Len(wire'[c]) < Size[f] =>
                     /\ c \in sending' /\ file'[c].name = f /\ filePartSent'[ClientOf[c]]
                     /\ file'[c].pos = Len(stored'[c]) + Len(wire'[c])
    <3>1. Follows(written \o bytes, 0, f)
      <4>1. 0 \in Nat /\ 0 + Len(written) = Len(written)
        BY <1>1
      <4> QED
        BY <2>3, <4>1, FollowsConcat
    <3> QED
      BY <2>2, <2>3, <3>1 DEF GoesOn, clientVars
  <2>4. StoredInOrder(c)'
    BY <2>1, <2>2, <2>3 DEF StoredInOrder, GoesOn, Follows, Data
  <2> QED
    BY <1>4, <2>4 DEF DoneHasContent, Content, Bytes
<1>5. CASE Garbled(c, f, total)
  BY <1>5 DEF Garbled, StoredInOrder, DoneHasContent, Content, Bytes
<1>6. CASE Crash
  BY <1>6 DEF Crash, StoredInOrder, DoneHasContent, Content, Bytes
<1> QED
  BY <1>3, <1>4, <1>5, <1>6 DEF Store

\* What is left of the wire after a buffer has been taken is in order as before.
LEMMA TakeKeepsOrder ==
    ASSUME Types, NEW c \in Conns, OrderOf(c), NEW buffer \in Buffers(c), Recv(c, buffer)
    PROVE  /\ Begins(c)' /\ WireInOrder(c)'
           /\ wire'[c] \in Seq(Byte) /\ Len(wire'[c]) = Len(wire[c]) - Len(buffer)
           /\ \A i \in 1 .. Len(wire'[c]) : wire'[c][i] = wire[c][Len(buffer) + i]
<1> DEFINE w == wire[c]
           r == wire'[c]
           m == Len(buffer)
<1>1. /\ w \in Seq(Byte) /\ Len(w) \in Nat /\ m \in 1 .. Len(w) /\ m \in 0 .. Len(w)
      /\ UNCHANGED <<clientVars, link>> /\ r = SubSeq(w, m + 1, Len(w))
  <2>1. w \in Seq(Byte) /\ TypedWire
    BY DEF Types, TypedWire
  <2>2. /\ m \in 1 .. Len(w) /\ UNCHANGED <<clientVars, link>>
        /\ wire' = [wire EXCEPT ![c] = SubSeq(w, m + 1, Len(w))]
    BY <2>1, TakeTyped
  <2> QED
    BY <2>1, <2>2, LenProperties DEF TypedWire
<1>2. r \in Seq(Byte) /\ Len(r) = Len(w) - m /\ \A i \in 1 .. Len(r) : r[i] = w[m + i]
  BY <1>1, CutIs
<1>3. Begins(c)'
  BY <1>1 DEF OrderOf, Begins, clientVars
<1>4. \A f \in Files : \A k \in 1 .. Len(w) : w[k] = StartEnd(f) =>
         /\ \A i \in 1 .. Len(w) - k : i <= Size[f] => w[k + i] = Data(f, i)
         /\ link[c] = "up" /\ Len(w) - k < Size[f] => GoesOn(c, f) /\ file[c].pos = Len(w) - k
  BY DEF OrderOf, WireInOrder
<1> HIDE DEF w, r, m
<1>5. WireInOrder(c)'
  <2> SUFFICES ASSUME NEW f \in Files, NEW k \in 1 .. Len(r), r[k] = StartEnd(f)
               PROVE  /\ \A i \in 1 .. Len(r) - k : i <= Size[f] => r[k + i] = Data(f, i)
                      /\ link[c] = "up" /\ Len(r) - k < Size[f] =>
                            GoesOn(c, f) /\ file[c].pos = Len(r) - k
    BY <1>1 DEF WireInOrder, StartEnd, Data, r, GoesOn, clientVars
  <2>1. m + k \in 1 .. Len(w) /\ w[m + k] = StartEnd(f) /\ Len(w) - (m + k) = Len(r) - k
    <3>1. k \in Nat /\ 1 <= k /\ k <= Len(r) /\ m \in Nat
      BY <1>1, <1>2
    <3> QED
      BY <1>1, <1>2, <3>1
  <2>2. ASSUME NEW i \in 1 .. Len(r) - k, i <= Size[f] PROVE r[k + i] = Data(f, i)
    <3>1. k + i \in 1 .. Len(r) /\ m + (k + i) = (m + k) + i
      BY <1>1, <1>2, SMTT(20)
    <3>2. r[k + i] = w[(m + k) + i]
      BY <1>2, <3>1
    <3> QED
      BY <1>4, <2>1, <2>2, <3>2
  <2> QED
    BY <1>4, <2>1, <2>2
<1> QED
  BY <1>2, <1>3, <1>5 DEF w, r, m

\* A RecvTask keeps the order of every connection if it keeps that of its own.
LEMMA RecvKeepsOrder ==
    ASSUME InOrder, NEW c \in Conns, NEW buffer \in Buffers(c), Recv(c, buffer),
           StoredInOrder(c)',
           \A d \in Conns \ {c} : server' = "up" /\ d \notin dirty' =>
              d \notin dirty /\ opened'[d] = opened[d] /\ stored'[d] = stored[d]
    PROVE  \A d \in Conns : OrderOf(d)'
<1> USE DEF InOrder
<1>1. OrderOf(c)'
  BY TakeKeepsOrder DEF OrderOf
<1>2. ASSUME NEW d \in Conns \ {c} PROVE OrderOf(d)'
  <2>1. /\ wire'[d] = wire[d] /\ server = "up" /\ UNCHANGED <<clientVars, link>>
    BY TakeTyped DEF Types, TypedWire
  <2>2. Begins(d)'
    BY <2>1 DEF OrderOf, Begins, clientVars
  <2>3. \A f \in Files : GoesOn(d, f) => GoesOn(d, f)' /\ file'[d].pos = file[d].pos
    BY <2>1 DEF GoesOn, clientVars
  <2> QED
    BY <1>2, <2>1, <2>2, <2>3, KeepsOrder
<1> QED
  BY <1>1, <1>2

\* What Store does to the other connections
LEMMA StoreLeavesOthers ==
    ASSUME TypedReceiver, NEW c \in Conns, NEW f, NEW written, NEW clean, NEW before, NEW bytes,
           Store(c, f, written, clean, before, bytes), NEW d \in Conns \ {c},
           server' = "up", d \notin dirty'
    PROVE  d \notin dirty /\ opened'[d] = opened[d] /\ stored'[d] = stored[d]
BY DEF Store, Garbled, Crash, TypedReceiver

\* No step puts a byte of a file out of its order, on the wire or in the file.
LEMMA OrderStep == InOrder /\ OneChainEach /\ [Next]_vars => InOrder'
<1> SUFFICES ASSUME InOrder, OneChainEach, [Next]_vars PROVE InOrder'
  OBVIOUS
<1> USE ConnsAssumption, FilesAssumption
<1> DEFINE Goal == (\A c \in Conns : OrderOf(c)') /\ DoneHasContent'
<1>a. Types' /\ Types /\ (\A c \in Conns : OrderOf(c)) /\ DoneHasContent
  BY TypesStep DEF InOrder
<1>b. SUFFICES Goal
  BY <1>a DEF InOrder
<1>c. ASSUME UNCHANGED closed PROVE DoneHasContent'
  BY <1>a, <1>c DEF DoneHasContent, Content, Bytes
<1>d. \A c, d \in sending : c # d => ClientOf[c] # ClientOf[d]
  BY DEF OneChainEach
\* A step of the client or of the network leaves the other connections alone.
<1>e. ASSUME NEW c \in Conns, NEW d \in Conns \ {c}, UNCHANGED serverVars,
             file'[d] = file[d], wire'[d] = wire[d], link'[d] = link[d],
             d \in sending' <=> d \in sending,
             d \in sending => filePartSent'[ClientOf[d]] = filePartSent[ClientOf[d]]
      PROVE  OrderOf(d)'
  <2>1. Begins(d)'
    BY <1>a, <1>e DEF OrderOf, Begins
  <2>2. \A f \in Files : GoesOn(d, f) => GoesOn(d, f)' /\ file'[d].pos = file[d].pos
    BY <1>e DEF GoesOn
  <2> QED
    BY <1>a, <1>e, <2>1, <2>2, KeepsOrder DEF serverVars
<1>1. ASSUME NEW c \in Conns, NEW f \in Files, Assign(c, f) PROVE Goal
  <2> USE <1>1 DEF Assign
  <2>1. \A d \in Conns \ {c} : OrderOf(d)'
    BY <1>a, <1>e DEF Types, TypedSender
  <2>2. Begins(c)'
    BY <1>a DEF Begins, Types, TypedSender
  <2>3. OrderOf(c)'
    BY <1>a, <2>2, KeepsOrder DEF GoesOn, serverVars
  <2> QED
    BY <1>c, <2>1, <2>3 DEF serverVars
<1>2. ASSUME NEW c \in Conns, Close(c) PROVE Goal
  <2> USE <1>2 DEF Close
  <2>1. \A d \in Conns \ {c} : OrderOf(d)'
    BY <1>a, <1>e DEF Types, TypedWire, clientVars
  <2>2. Begins(c)' /\ link'[c] # "up"
    BY <1>a DEF OrderOf, Begins, clientVars, Types, TypedWire
  <2>3. OrderOf(c)'
    BY <1>a, <2>2, KeepsOrder DEF serverVars
  <2> QED
    BY <1>c, <2>1, <2>3 DEF serverVars
<1>3. ASSUME NEW c \in Conns, Break(c) PROVE Goal
  <2> USE <1>3 DEF Break
  <2>1. \A d \in Conns \ {c} : OrderOf(d)'
    BY <1>a, <1>e DEF Types, TypedWire, clientVars
  <2>2. PICK n \in 0 .. Len(wire[c]) : wire'[c] = SubSeq(wire[c], 1, n)
    BY <1>a DEF Types, TypedWire
  <2>3. /\ Len(wire'[c]) = n /\ n \in Nat /\ n <= Len(wire[c]) /\ Len(wire[c]) \in Nat
        /\ \A i \in 1 .. n : wire'[c][i] = wire[c][i]
        /\ link'[c] # "up"
    BY <1>a, <2>2, CutIs, LenProperties DEF Types, TypedWire
  <2>4. Begins(c)'
    BY <1>a DEF OrderOf, Begins, clientVars
  <2>5. WireInOrder(c)'
    <3> SUFFICES ASSUME NEW f \in Files, NEW k \in 1 .. n, wire[c][k] = StartEnd(f),
                        NEW i \in 1 .. n - k, i <= Size[f]
                 PROVE  wire[c][k + i] = Data(f, i)
      <4>1. \A k \in 1 .. n : \A i \in 1 .. n - k :
               k + i \in 1 .. n /\ wire'[c][k + i] = wire[c][k + i]
        BY <2>3
      <4> QED
        BY <2>3, <4>1, SMTT(20) DEF WireInOrder, StartEnd, Data
    <3>1. k \in 1 .. Len(wire[c]) /\ i \in 1 .. Len(wire[c]) - k
      BY <2>3
    <3> QED
      BY <1>a, <3>1, SMTT(20) DEF OrderOf, WireInOrder
  <2>6. StoredInOrder(c)'
    <3>1. \A i \in 1 .. Len(wire'[c]) : i \in 1 .. Len(wire[c]) /\ wire'[c][i] = wire[c][i]
      BY <2>3
    <3>2. UNCHANGED <<server, opened, stored, dirty>>
      BY DEF serverVars
    <3> QED
      BY <1>a, <2>3, <3>1, <3>2 DEF OrderOf, StoredInOrder, Follows, Data
  <2> QED
    BY <1>c, <2>1, <2>4, <2>5, <2>6 DEF serverVars, OrderOf
<1>4. ASSUME NEW c \in Conns, SessionClosed(c) \/ SessionOpen(c) PROVE Goal
  <2> USE <1>4 DEF SessionClosed, SessionOpen
  <2>1. \A d \in Conns \ {c} : OrderOf(d)'
    BY <1>a, <1>e
  <2>2. Begins(c)'
    BY <1>a DEF OrderOf, Begins
  <2>3. OrderOf(c)'
    BY <1>a, <2>2, KeepsOrder DEF serverVars, GoesOn
  <2> QED
    BY <1>c, <2>1, <2>3 DEF serverVars
<1>5. ASSUME NEW c \in Conns, SendFinish(c) \/ SendFinishThrows(c) PROVE Goal
  <2>1. /\ UNCHANGED <<serverVars, file, link>> /\ sending' = sending \ {c}
        /\ filePartSent' = [filePartSent EXCEPT ![ClientOf[c]] = FALSE]
        /\ file[c].eof /\ c \in running
        /\ \/ wire' = wire
           \/ link[c] = "up" /\ wire' = [wire EXCEPT ![c] = @ \o FinishTagSent]
    BY <1>5 DEF SendFinish, SendFinishThrows, AtFinish, EndChain, Transmit
  <2>2. file[c].name \in Files /\ file[c].pos = Size[file[c].name] /\ c \in sending
    BY <1>a, <2>1 DEF Types, Reading, TypedSender
  <2>3. \A d \in Conns \ {c} : OrderOf(d)'
    BY <1>a, <1>d, <1>e, <2>1, <2>2 DEF Types, TypedWire, TypedSender
  <2>4. Begins(c)'
    BY <2>1 DEF Begins
  <2>5. \A f \in Files : ~(GoesOn(c, f) /\ file[c].pos < Size[f])
    BY <2>2 DEF GoesOn
  <2>6. ASSUME wire' = wire PROVE OrderOf(c)'
    <3>1. /\ UNCHANGED <<server, opened, stored, dirty, link>> /\ wire'[c] = wire[c]
          /\ \A f \in Files : GoesOn(c, f) /\ file[c].pos < Size[f] =>
                GoesOn(c, f)' /\ file'[c].pos = file[c].pos
      BY <2>1, <2>5, <2>6 DEF serverVars
    <3> QED
      BY <1>a, <2>4, <3>1, KeepsOrder
  <2>7. ASSUME link[c] = "up", wire' = [wire EXCEPT ![c] = @ \o FinishTagSent]
        PROVE  OrderOf(c)'
    <3>1. wire'[c] = wire[c] \o FinishTagSent
      BY <1>a, <2>7 DEF Types, TypedWire
    <3>2. \A f \in Files : \A k \in 1 .. Len(FinishTagSent) : FinishTagSent[k] # StartEnd(f)
      <4>1. \A k \in 1 .. Len(FinishTagSent) : FinishTagSent[k].part = "finish"
        BY FinishIs
      <4>2. \A f \in Files : StartEnd(f).part = "start"
        BY DEF StartEnd
      <4> QED
        BY <4>1, <4>2
    <3> QED
      <4>1. /\ UNCHANGED <<server, dirty, opened, stored, link>>
            /\ FinishTagSent \in Seq(Byte)
            /\ \A f \in Files : GoesOn(c, f) /\ file[c].pos < Size[f] =>
                  /\ \A i \in 1 .. Len(FinishTagSent) :
                        file[c].pos + i <= Size[f] =>
                           FinishTagSent[i] = Data(f, file[c].pos + i)
                  /\ file[c].pos + Len(FinishTagSent) < Size[f] =>
                        GoesOn(c, f)' /\ file'[c].pos = file[c].pos + Len(FinishTagSent)
            /\ \A f \in Files : \A k \in 1 .. Len(FinishTagSent) :
                  FinishTagSent[k] = StartEnd(f) =>
                  /\ \A i \in 1 .. Len(FinishTagSent) - k :
                        i <= Size[f] => FinishTagSent[k + i] = Data(f, i)
                  /\ Len(FinishTagSent) - k < Size[f] =>
                        GoesOn(c, f)' /\ file'[c].pos = Len(FinishTagSent) - k
        BY <2>1, <2>5, <3>2, FinishIs DEF serverVars
      <4> QED
        BY <1>a, <2>4, <2>7, <3>1, <4>1, PutKeepsOrder
  <2>8. OrderOf(c)'
    BY <2>1, <2>6, <2>7
  <2> QED
    BY <1>c, <2>1, <2>3, <2>8 DEF serverVars
<1>6. ASSUME NEW c \in Conns, SendPart(c) \/ SendNothing(c) \/ SendPartFails(c) PROVE Goal
  <2> DEFINE p == file[c].pos
             g == file[c].name
             n == ReadCount(c)
  <2>1. ReadPart(c)
    BY <1>6 DEF SendPart, SendNothing, SendPartFails
  <2>2. /\ g \in Files /\ c \in sending /\ p \in Nat /\ n \in Nat
        /\ p + n <= Size[g] /\ (n = 0 => p = Size[g])
        /\ filePartSent'[ClientOf[c]]
        /\ \A d \in sending \ {c} : filePartSent'[ClientOf[d]] = filePartSent[ClientOf[d]]
        /\ \A d \in Conns \ {c} : file'[d] = file[d]
        /\ file'[c].name = g /\ file'[c].pos = p + n
    BY <1>a, <1>d, <2>1, ReadPartTyped DEF Types, TypedSender
  <2>3. UNCHANGED <<serverVars, link>> /\ sending' \in {sending, sending \ {c}}
    BY <1>6 DEF SendPart, SendNothing, SendPartFails, NextTask, EndChain
  <2>4. Begins(c)'
    BY <2>2 DEF Begins
  <2>5. CASE SendPart(c) /\ link[c] = "up"
    <3> DEFINE bytes == PartSent(c)
    <3>1. /\ wire' = [wire EXCEPT ![c] = @ \o bytes] /\ sending' = sending
      BY <2>5 DEF SendPart, Transmit, NextTask, PartSent
    <3>2. bytes \in Seq(Byte)
      BY <2>2, PartTyped
    <3>3. \A d \in Conns \ {c} : OrderOf(d)'
      BY <1>e, <2>2, <2>3, <3>1 DEF Types, TypedWire
    <3>4. wire'[c] = wire[c] \o bytes
      BY <1>a, <3>1 DEF Types, TypedWire
    <3>5. /\ c \in sending' /\ file'[c].name = g /\ filePartSent'[ClientOf[c]]
          /\ Size[g] \in Nat
      BY <2>2, <3>1
    <3> DEFINE content == Bytes("data", g, p, n)
    <3>6. /\ content \in Seq(Byte) /\ Len(content) = n
          /\ \A i \in 1 .. n : content[i] = Data(g, p + i)
      BY <2>2, DataAre, ZenonT(30)
    <3> HIDE DEF content, bytes
    <3>7. /\ \A f \in Files : GoesOn(c, f) /\ file[c].pos < Size[f] =>
                /\ \A i \in 1 .. Len(bytes) :
                      file[c].pos + i <= Size[f] => bytes[i] = Data(f, file[c].pos + i)
                /\ file[c].pos + Len(bytes) < Size[f] =>
                      GoesOn(c, f)' /\ file'[c].pos = file[c].pos + Len(bytes)
      <4> SUFFICES ASSUME GoesOn(c, g)
                   PROVE  /\ \A i \in 1 .. Len(bytes) : bytes[i] = Data(g, p + i)
                          /\ Len(bytes) = n
        BY <2>2, <3>5 DEF GoesOn
      <4>1. bytes = content
        BY <3>6, ConcatEmptySeq DEF bytes, content, PartSent, GoesOn
      <4> QED
        BY <3>6, <4>1
    <3>8. \A f \in Files : \A k \in 1 .. Len(bytes) : bytes[k] = StartEnd(f) =>
             /\ \A i \in 1 .. Len(bytes) - k : i <= Size[f] => bytes[k + i] = Data(f, i)
             /\ Len(bytes) - k < Size[f] =>
                   GoesOn(c, f)' /\ file'[c].pos = Len(bytes) - k
      <4>1. \A f \in Files : StartEnd(f).part = "start" /\ StartEnd(f).of = f /\ StartEnd(f).at = StartLen
        BY DEF StartEnd
      <4>2. \A i \in Nat : Data(g, i).part = "data"
        BY DEF Data
      <4>3. CASE filePartSent[ClientOf[c]]
        <5>1. bytes = content
          BY <3>6, <4>3, ConcatEmptySeq DEF bytes, content, PartSent
        <5>2. \A k \in 1 .. Len(bytes) : bytes[k].part = "data"
          BY <2>2, <3>6, <4>2, <5>1
        <5> QED
          BY <4>1, <5>2
      <4>4. CASE ~filePartSent[ClientOf[c]]
        <5>1. p = 0
          BY <1>a, <2>2, <4>4 DEF OrderOf, Begins
        <5>2. bytes = StartTags(g) \o content
          BY <4>4 DEF bytes, content, PartSent
        <5>3. /\ StartTags(g) \in Seq(Byte) /\ Len(StartTags(g)) = StartLen /\ StartLen \in Nat
              /\ \A i \in 1 .. StartLen :
                    StartTags(g)[i] = [part |-> "start", of |-> g, at |-> i]
          BY <2>2, TagsAre, LengthsAssumption
        <5>4. /\ Len(bytes) = StartLen + n
              /\ \A i \in 1 .. StartLen + n :
                    bytes[i] = IF i <= StartLen THEN StartTags(g)[i] ELSE content[i - StartLen]
          <6>1. /\ Len(StartTags(g) \o content) = Len(StartTags(g)) + Len(content)
                /\ \A i \in 1 .. Len(StartTags(g)) + Len(content) : (StartTags(g) \o content)[i] =
                      IF i <= Len(StartTags(g)) THEN StartTags(g)[i]
                      ELSE content[i - Len(StartTags(g))]
            BY <3>6, <5>3, ConcatProperties, ZenonT(30)
          <6> QED
            BY <3>6, <5>2, <5>3, <6>1
        <5>5. \A i \in 1 .. n : bytes[StartLen + i] = Data(g, i)
          <6>1. \A i \in 1 .. n : /\ StartLen + i \in 1 .. StartLen + n /\ ~(StartLen + i <= StartLen)
                                  /\ (StartLen + i) - StartLen = i /\ p + i = i
            BY <2>2, <5>1, <5>3
          <6> QED
            BY <3>6, <5>4, <6>1
        <5>6. ASSUME NEW f \in Files, NEW k \in 1 .. Len(bytes), bytes[k] = StartEnd(f)
              PROVE  k = StartLen /\ f = g
          <6>1. CASE k <= StartLen
            <7>1. bytes[k] = [part |-> "start", of |-> g, at |-> k]
              <8>1. k \in 1 .. StartLen /\ k \in 1 .. StartLen + n
                BY <2>2, <5>3, <5>4, <5>6, <6>1
              <8> QED
                BY <5>3, <5>4, <6>1, <8>1
            <7>2. bytes[k].of = g /\ bytes[k].at = k
              BY <7>1
            <7> QED
              BY <4>1, <5>6, <7>2
          <6>2. CASE k > StartLen
            <7>1. k - StartLen \in 1 .. n /\ StartLen + (k - StartLen) = k
              BY <2>2, <5>3, <5>4, <6>2
            <7>2. bytes[k] = Data(g, k - StartLen)
              BY <5>5, <7>1
            <7>3. bytes[k].part = "data"
              BY <4>2, <7>1, <7>2
            <7> QED
              BY <4>1, <5>6, <7>3
          <6> QED
            BY <5>3, <5>4, <6>1, <6>2
        <5>7. Len(bytes) - StartLen = n /\ file'[c].pos = n
          BY <2>2, <5>1, <5>3, <5>4
        <5> QED
          BY <3>5, <5>5, <5>6, <5>7 DEF GoesOn
      <4> QED
        BY <4>3, <4>4
    <3>9. OrderOf(c)'
      BY <1>a, <2>3, <2>4, <2>5, <3>2, <3>4, <3>7, <3>8, PutKeepsOrder DEF serverVars
    <3> QED
      BY <1>c, <2>3, <3>3, <3>9 DEF serverVars
  <2>6. CASE ~(SendPart(c) /\ link[c] = "up")
    <3>1. wire' = wire /\ (link[c] = "up" => sending' = sending /\ n = 0)
      BY <1>6, <2>6 DEF SendPart, SendNothing, SendPartFails, Transmit, NextTask
    <3>2. \A d \in Conns \ {c} : OrderOf(d)'
      BY <1>e, <2>2, <2>3, <3>1
    <3>3. link'[c] = "up" => \A f \in Files : ~(GoesOn(c, f) /\ file[c].pos < Size[f])
      BY <2>2, <2>3, <3>1 DEF GoesOn
    <3>4. OrderOf(c)'
      BY <1>a, <2>3, <2>4, <3>1, <3>3, KeepsOrder DEF serverVars
    <3> QED
      BY <1>c, <2>3, <3>2, <3>4 DEF serverVars
  <2> QED
    BY <2>5, <2>6
<1>7. ASSUME NEW c \in Conns, RecvEnds(c) PROVE Goal
  <2> USE <1>7 DEF RecvEnds, Receives
  <2>1. ASSUME NEW d \in Conns PROVE OrderOf(d)'
    <3>1. Begins(d)'
      BY <1>a DEF OrderOf, Begins, clientVars
    <3>2. \A f \in Files : GoesOn(d, f) => GoesOn(d, f)' /\ file'[d].pos = file[d].pos
      BY DEF GoesOn, clientVars
    <3> QED
      BY <1>a, <3>1, <3>2, KeepsOrder
  <2> QED
    BY <1>c, <2>1
<1>8. ASSUME NEW c \in Conns, BadStart(c) PROVE Goal
  <2>1. PICK buffer \in Buffers(c) :
            /\ Recv(c, buffer)
            /\ \/ Garbled(c, NoFile, 0) /\ UNCHANGED stored
               \/ Crash
    BY <1>8 DEF BadStart
  <2>2. UNCHANGED closed /\ StoredInOrder(c)'
    BY <2>1 DEF Garbled, Crash, StoredInOrder
  <2>3. \A d \in Conns \ {c} : server' = "up" /\ d \notin dirty' =>
           d \notin dirty /\ opened'[d] = opened[d] /\ stored'[d] = stored[d]
    BY <1>a, <2>1 DEF Garbled, Crash, Types, TypedReceiver
  <2> QED
    BY <1>c, <2>1, <2>2, <2>3, RecvKeepsOrder
<1>9. ASSUME NEW c \in Conns, OpenFails(c) PROVE Goal
  <2>1. PICK buffer \in Buffers(c) : Recv(c, buffer) /\ UNCHANGED <<server, fileVars>>
    BY <1>9 DEF OpenFails
  <2>2. UNCHANGED closed /\ StoredInOrder(c)'
    BY <1>9, <2>1 DEF OpenFails, fileVars, StoredInOrder
  <2> QED
    BY <1>c, <2>1, <2>2, RecvKeepsOrder DEF fileVars
<1>10. ASSUME NEW c \in Conns, FirstBuffer(c) PROVE Goal
  <2>1. PICK f \in Files, buffer \in Buffers(c) :
            /\ Recv(c, buffer) /\ BeginsWithTags(f, buffer)
            /\ Store(c, f, <<>>, TRUE, 0, SubSeq(buffer, StartLen + 1, Len(buffer)))
    BY <1>10 DEF FirstBuffer
  <2> DEFINE w == wire[c]
             r == wire'[c]
             m == Len(buffer)
             bytes == SubSeq(buffer, StartLen + 1, m)
  <2>2. /\ buffer \in Seq(Byte) /\ m \in 1 .. Len(w) /\ \A i \in 1 .. m : buffer[i] = w[i]
        /\ UNCHANGED <<clientVars, link>>
    BY <1>a, <2>1, TakeTyped DEF Types
  <2>3. /\ r \in Seq(Byte) /\ Len(r) = Len(w) - m /\ \A i \in 1 .. Len(r) : r[i] = w[m + i]
        /\ Len(w) \in Nat
    BY <1>a, <2>1, TakeKeepsOrder, LenProperties DEF Types, TypedWire
  <2>4. /\ StartLen \in 1 .. m
        /\ \A i \in 1 .. StartLen : buffer[i] = [part |-> "start", of |-> f, at |-> i]
        /\ bytes \in Seq(Byte) /\ Len(bytes) = m - StartLen
        /\ \A i \in 1 .. m - StartLen : bytes[i] = buffer[StartLen + i]
    BY <2>1, <2>2, AfterTags
  <2>5. /\ \A i \in 1 .. Len(w) - StartLen : i <= Size[f] => w[StartLen + i] = Data(f, i)
        /\ link[c] = "up" /\ Len(w) - StartLen < Size[f] =>
              GoesOn(c, f) /\ file[c].pos = Len(w) - StartLen
    <3>1. w[StartLen] = StartEnd(f) /\ StartLen \in 1 .. Len(w)
      BY <2>2, <2>3, <2>4, SMTT(20) DEF StartEnd
    <3> QED
      BY <1>a, <3>1 DEF OrderOf, WireInOrder
  <2> HIDE DEF w, r, m, bytes
  <2>6. Follows(bytes, 0, f)
    <3>1. \A i \in 1 .. Len(bytes) : /\ i \in 1 .. Len(w) - StartLen /\ StartLen + i \in 1 .. m
                                     /\ bytes[i] = buffer[StartLen + i] /\ 0 + i = i
      BY <2>2, <2>3, <2>4
    <3> QED
      BY <2>2, <2>5, <3>1 DEF Follows
  <2>7. Follows(r, Len(bytes), f)
    <3>1. \A i \in 1 .. Len(r) : /\ Len(bytes) + i \in 1 .. Len(w) - StartLen
                                 /\ m + i = StartLen + (Len(bytes) + i)
      BY <2>2, <2>3, <2>4
    <3>2. \A i \in 1 .. Len(r) : r[i] = w[StartLen + (Len(bytes) + i)]
      BY <2>3, <3>1
    <3> QED
      BY <2>5, <3>1, <3>2 DEF Follows
  <2>8. Len(<<>>) = 0 /\ <<>> \in Seq(Byte) /\ Follows(<<>>, 0, f)
    BY EmptySeq DEF Follows
  <2>9. /\ Len(<<>>) + Len(bytes) = Len(bytes)
        /\ Len(<<>>) + Len(bytes) + Len(r) = Len(w) - StartLen
    BY <2>2, <2>3, <2>4, <2>8
  <2>10. StoredInOrder(c)' /\ DoneHasContent'
    <3>1. Store(c, f, <<>>, TRUE, 0, bytes)
      BY <2>1 DEF bytes, m
    <3>2. Follows(bytes, Len(<<>>), f) /\ Follows(r, Len(<<>>) + Len(bytes), f)
      BY <2>6, <2>7, <2>8, <2>9
    <3>3. link[c] = "up" /\ Len(<<>>) + Len(bytes) + Len(r) < Size[f] =>
             GoesOn(c, f) /\ file[c].pos = Len(<<>>) + Len(bytes) + Len(r)
      BY <2>5, <2>9
    <3>4. 0 \in Nat /\ bytes \in Seq(Byte)
      BY <2>4
    <3> QED
      BY <1>a, <2>2, <2>8, <3>1, <3>2, <3>3, <3>4, StoreKeepsOrder DEF r
  <2>11. \A d \in Conns \ {c} : server' = "up" /\ d \notin dirty' =>
            d \notin dirty /\ opened'[d] = opened[d] /\ stored'[d] = stored[d]
    BY <1>a, <2>1, StoreLeavesOthers DEF Types
  <2> QED
    BY <2>1, <2>10, <2>11, RecvKeepsOrder
<1>11. ASSUME NEW c \in Conns, NextBuffer(c) PROVE Goal
  <2>1. PICK buffer \in Buffers(c) :
            /\ Recv(c, buffer)
            /\ Store(c, opened[c], stored[c], c \notin dirty, commonsize, buffer)
    BY <1>11 DEF NextBuffer
  <2> DEFINE w == wire[c]
             r == wire'[c]
             f == opened[c]
             l == Len(stored[c])
             m == Len(buffer)
  <2>2. /\ buffer \in Seq(Byte) /\ m \in 1 .. Len(w) /\ \A i \in 1 .. m : buffer[i] = w[i]
        /\ UNCHANGED <<clientVars, link>> /\ server = "up"
    BY <1>a, <2>1, TakeTyped DEF Types
  <2>3. /\ r \in Seq(Byte) /\ Len(r) = Len(w) - m /\ \A i \in 1 .. Len(r) : r[i] = w[m + i]
        /\ Len(w) \in Nat
    BY <1>a, <2>1, TakeKeepsOrder, LenProperties DEF Types, TypedWire
  <2>4. f \in Files /\ stored[c] \in Seq(Byte) /\ l \in Nat /\ commonsize \in Nat
    BY <1>11, <1>a, LenProperties DEF NextBuffer, Types, TypedReceiver
  <2>5. c \notin dirty =>
           /\ Follows(stored[c], 0, f) /\ Follows(w, l, f)
           /\ link[c] = "up" /\ l + Len(w) < Size[f] => GoesOn(c, f) /\ file[c].pos = l + Len(w)
    BY <1>11, <1>a, <2>2 DEF NextBuffer, OrderOf, StoredInOrder
  <2> HIDE DEF w, r, f, l, m
  <2>6. c \notin dirty => Follows(buffer, l, f) /\ Follows(r, l + m, f)
    <3> SUFFICES ASSUME c \notin dirty PROVE Follows(buffer, l, f) /\ Follows(r, l + m, f)
      OBVIOUS
    <3>1. Follows(buffer, l, f)
      <4>1. \A i \in 1 .. m : i \in 1 .. Len(w)
        BY <2>2
      <4> QED
        BY <2>2, <2>5, <4>1 DEF Follows, m
    <3>2. Follows(r, l + m, f)
      <4>1. \A i \in 1 .. Len(r) : m + i \in 1 .. Len(w) /\ l + (m + i) = (l + m) + i
        BY <2>2, <2>3, <2>4
      <4> QED
        BY <2>3, <2>5, <4>1 DEF Follows
    <3> QED
      BY <3>1, <3>2
  <2>7. l + m + Len(r) = l + Len(w)
    BY <2>2, <2>3, <2>4
  <2>8. StoredInOrder(c)' /\ DoneHasContent'
    <3>1. Store(c, f, stored[c], c \notin dirty, commonsize, buffer)
      BY <2>1 DEF f
    <3>2. c \notin dirty =>
             /\ Follows(stored[c], 0, f) /\ Follows(buffer, Len(stored[c]), f)
             /\ Follows(r, Len(stored[c]) + Len(buffer), f)
             /\ link[c] = "up" /\ Len(stored[c]) + Len(buffer) + Len(r) < Size[f] =>
                   /\ GoesOn(c, f)
                   /\ file[c].pos = Len(stored[c]) + Len(buffer) + Len(r)
      BY <2>5, <2>6, <2>7 DEF l, m
    <3>3. (c \notin dirty) \in BOOLEAN
      OBVIOUS
    <3> QED
      BY <1>a, <2>2, <2>4, <3>1, <3>2, <3>3, StoreKeepsOrder DEF r
  <2>9. \A d \in Conns \ {c} : server' = "up" /\ d \notin dirty' =>
           d \notin dirty /\ opened'[d] = opened[d] /\ stored'[d] = stored[d]
    BY <1>a, <2>1, StoreLeavesOthers DEF Types
  <2> QED
    BY <2>1, <2>8, <2>9, RecvKeepsOrder
<1>12. CASE UNCHANGED vars
  <2>1. ASSUME NEW c \in Conns PROVE OrderOf(c)'
    <3> USE <1>12 DEF vars, clientVars, serverVars
    <3>1. Begins(c)'
      BY <1>a DEF OrderOf, Begins
    <3>2. \A f \in Files : GoesOn(c, f) => GoesOn(c, f)' /\ file'[c].pos = file[c].pos
      BY DEF GoesOn
    <3> QED
      BY <1>a, <3>1, <3>2, KeepsOrder
  <2> QED
    BY <1>12, <1>c, <2>1 DEF vars, serverVars
<1> QED
  BY <1>1, <1>2, <1>3, <1>4, <1>5, <1>6, <1>7, <1>8, <1>9, <1>10, <1>11, <1>12
  DEF Next, SendingTask, RecvTask

\* Nothing has been sent or written yet.
LEMMA OrderInit == Init => InOrder
<1> SUFFICES ASSUME Init PROVE InOrder
  OBVIOUS
<1>1. Types
  BY TypesInit
<1>2. ASSUME NEW c \in Conns PROVE OrderOf(c)
  <2>1. Len(<<>>) = 0
    BY EmptySeq
  <2> QED
    BY <2>1 DEF Init, OrderOf, Begins, WireInOrder, StoredInOrder
<1>3. DoneHasContent
  BY DEF Init, DoneHasContent
<1> QED
  BY <1>1, <1>2, <1>3 DEF InOrder

\* The condition of TurnsSpec holds in every state of it.
LEMMA InTurns == TurnsSpec => []OneChainEach
<1>1. Init => OneChainEach
  BY DEF Init, OneChainEach
<1>2. OneChainEach /\ [Next /\ OneChainEach']_vars => OneChainEach'
  BY DEF OneChainEach, vars, clientVars
<1> QED
  BY <1>1, <1>2, PTL DEF TurnsSpec

\* Where no client has two connections, nobody needs to wait for a turn.
LEMMA AloneInTurns ==
    ASSUME OneConnEach
    PROVE  Spec => TurnsSpec
<1>1. Types' => OneChainEach'
  BY DEF Types, TypedSender, OneChainEach, OneConnEach
<1>2. Types /\ Types' /\ [Next]_vars => [Next /\ OneChainEach']_vars
  BY <1>1
<1>3. Types /\ [Next]_vars => Types'
  BY TypesStep
<1> QED
  BY <1>2, <1>3, TypesInit, PTL DEF Spec, TurnsSpec

\* Where each client sends one file at a time, a file that the server calls done has all its
\* content, on whichever connections it is sent, however the stream was cut, whatever else
\* the server received meanwhile, and however often the shared commonsize was reset or
\* counted on (server_parser.cpp:70).
THEOREM ContentArrives == TurnsSpec => []DoneHasContent
<1>1. InOrder /\ OneChainEach /\ [Next /\ OneChainEach']_vars => InOrder'
  BY OrderStep
<1>2. InOrder => DoneHasContent
  BY DEF InOrder
<1> QED
  BY <1>1, <1>2, OrderInit, InTurns, PTL DEF TurnsSpec

\* So has it where each client uses one connection, when nobody pays attention to turns.
THEOREM ContentArrivesAlone ==
    ASSUME OneConnEach
    PROVE  Spec => []DoneHasContent
BY AloneInTurns, ContentArrives, PTL

-----------------------------------------------------------------------------
(* The end of a chain *)

\* A read keeps the end-of-file flag or sets it.
LEMMA ReadPartEnds ==
    ASSUME TypedSender, Reading, NEW c \in Conns, ReadPart(c)
    PROVE  /\ file[c].eof => file'[c].eof
           /\ ReadCount(c) = 0 => file'[c].eof
<1> DEFINE e == file[c].eof \/ ReadCount(c) < Package
           p == file[c].pos + ReadCount(c)
<1>1. file' = [file EXCEPT ![c].pos = p, ![c].eof = e]
  BY DEF ReadPart
<1>2. 0 < Package
  BY LengthsAssumption
<1>3. /\ file[c].eof => e
      /\ ReadCount(c) = 0 => e
  BY <1>2
<1> HIDE DEF e, p
<1>4. file'[c].eof = e
  BY <1>1 DEF TypedSender
<1> QED
  BY <1>3, <1>4, Zenon

\* Numbers of which RunsLeft is made
Flag(b) == IF b THEN 0 ELSE 1
ToRead(c) == Size[file[c].name] - file[c].pos

LEMMA LeftIs ==
    ASSUME Types, NEW c \in sending
    PROVE  /\ ToRead(c) \in Nat /\ c \in Conns
           /\ RunsLeft(c) = 2 * (ToRead(c) + Flag(file[c].eof) + Flag(filePartSent[ClientOf[c]]))
                              + 1 + Flag(c \in running)
<1>1. c \in Conns /\ file[c].name \in Files /\ file[c].pos \in Nat
      /\ file[c].pos <= Size[file[c].name]
  BY DEF Types, TypedSender, Reading
<1>2. Size[file[c].name] \in Nat
  BY <1>1, FilesAssumption
<1> QED
  BY <1>1, <1>2 DEF RunsLeft, ToRead, Flag

LEMMA FlagIs == \A b : Flag(b) \in {0, 1}
BY DEF Flag

\* The arithmetic of a step
LEMMA Nearer ==
    ASSUME NEW n \in Nat, NEW n1 \in Nat, NEW e \in {0, 1}, NEW e1 \in {0, 1},
           NEW p \in {0, 1}, NEW p1 \in {0, 1}, NEW r \in {0, 1}, NEW r1 \in {0, 1},
           \/ n1 + e1 + p1 < n + e + p
           \/ n1 + e1 + p1 = n + e + p /\ r1 < r
    PROVE  2 * (n1 + e1 + p1) + 1 + r1 < 2 * (n + e + p) + 1 + r
OBVIOUS

\* Each step of a task brings its chain nearer to the end.
LEMMA TaskNears ==
    ASSUME Types, Types', NEW c \in sending, SendingTask(c)
    PROVE  RunsLeft(c)' < RunsLeft(c)
<1>1. c \in Conns /\ ToRead(c) \in Nat
  BY LeftIs
<1> DEFINE n == ToRead(c)
           e == Flag(file[c].eof)
           p == Flag(filePartSent[ClientOf[c]])
           r == Flag(c \in running)
<1>2. n \in Nat /\ e \in {0, 1} /\ p \in {0, 1} /\ r \in {0, 1}
  BY <1>1, FlagIs
<1>3. RunsLeft(c) = 2 * (n + e + p) + 1 + r
  BY LeftIs
<1>4. ASSUME c \notin sending' PROVE RunsLeft(c)' < RunsLeft(c)
  <2>1. RunsLeft(c)' = 0
    BY <1>4 DEF RunsLeft
  <2> HIDE DEF n, e, p, r
  <2> QED
    BY <1>2, <1>3, <2>1
<1>5. ASSUME c \in sending' PROVE
          /\ n' \in Nat /\ e' \in {0, 1} /\ p' \in {0, 1} /\ r' \in {0, 1}
          /\ RunsLeft(c)' = 2 * (n' + e' + p') + 1 + r'
  <2>1. c \in Conns /\ file'[c].name \in Files /\ file'[c].pos \in Nat
        /\ file'[c].pos <= Size[file'[c].name]
    BY <1>5 DEF Types, TypedSender, Reading
  <2>2. Size[file'[c].name] \in Nat
    BY <2>1, FilesAssumption
  <2>3. RunsLeft(c)' = 2 * ((Size[file'[c].name] - file'[c].pos) + e' + p') + 1 + r'
    BY <1>5, <2>1, <2>2 DEF RunsLeft, Flag
  <2> QED
    BY <2>1, <2>2, <2>3, FlagIs DEF ToRead
<1>6. CASE SessionClosed(c) \/ SendFinish(c) \/ SendFinishThrows(c) \/ SendPartFails(c)
  BY <1>4, <1>6 DEF SessionClosed, SendFinish, SendFinishThrows, SendPartFails, EndChain
<1>7. ASSUME c \in sending', \/ n' + e' + p' < n + e + p
                             \/ n' + e' + p' = n + e + p /\ r' < r
      PROVE  RunsLeft(c)' < RunsLeft(c)
  <2> HIDE DEF n, e, p, r
  <2> QED
    BY <1>2, <1>3, <1>5, <1>7, Nearer
<1>8. CASE SessionOpen(c)
  <2>1. c \in sending' /\ n' = n /\ e' = e /\ p' = p
    BY <1>8 DEF SessionOpen, ToRead
  <2>2. r = 1 /\ r' = 0
    BY <1>8 DEF SessionOpen, Starts, Flag
  <2>3. n' + e' + p' = n + e + p
    BY <2>1
  <2> QED
    BY <1>7, <2>1, <2>2, <2>3
<1>9. ASSUME ReadPart(c) PROVE
          /\ p' = 0 /\ e' <= e
          /\ n' = n - ReadCount(c) /\ ReadCount(c) \in Nat
          /\ ReadCount(c) = 0 => e' = 0
          /\ e = 1 \/ p = 1
  <2>1. /\ file'[c].name = file[c].name /\ file'[c].pos = file[c].pos + ReadCount(c)
        /\ filePartSent'[ClientOf[c]]
        /\ ReadCount(c) \in Nat /\ file[c].name \in Files
    BY <1>1, <1>9, ReadPartTyped DEF Types
  <2>2. n' = n - ReadCount(c)
    <3>1. file[c].pos \in Nat /\ Size[file[c].name] \in Nat
      BY <1>1, <2>1, FilesAssumption DEF Types, TypedSender
    <3> QED
      BY <2>1, <3>1 DEF ToRead
  <2>3. p' = 0
    BY <2>1 DEF Flag
  <2>4. /\ file[c].eof => file'[c].eof
        /\ ReadCount(c) = 0 => file'[c].eof
    BY <1>1, <1>9, ReadPartEnds DEF Types
  <2>5. e' <= e /\ (ReadCount(c) = 0 => e' = 0)
    BY <2>4 DEF Flag
  <2>6. e = 1 \/ p = 1
    BY <1>9 DEF ReadPart, AtFinish, Flag
  <2> QED
    BY <2>1, <2>2, <2>3, <2>5, <2>6
<1>10. CASE SendPart(c) \/ SendNothing(c)
  <2>1. ReadPart(c) /\ c \in sending'
    BY <1>10 DEF SendPart, SendNothing, NextTask
  <2>2. n' + e' + p' < n + e + p
    <3>1. n' \in Nat /\ e' \in {0, 1} /\ p' \in {0, 1}
      BY <1>5, <2>1
    <3> HIDE DEF n, e, p, r
    <3>2. ReadCount(c) \in Nat /\ n' = n - ReadCount(c) /\ p' = 0 /\ e' <= e
      BY <1>9, <2>1
    <3>3. CASE ReadCount(c) > 0
      BY <1>2, <3>1, <3>2, <3>3
    <3>4. CASE ReadCount(c) = 0
      BY <1>2, <1>9, <2>1, <3>1, <3>2, <3>4
    <3> QED
      BY <3>2, <3>3, <3>4
  <2> QED
    BY <1>7, <2>1, <2>2
<1> QED
  BY <1>6, <1>8, <1>10 DEF SendingTask

\* Nothing else sets a chain back: the tasks of another client have another filePartSent.
LEMMA OthersWait ==
    ASSUME Types, OneChainEach, Next, NEW c \in sending, ~SendingTask(c)
    PROVE  RunsLeft(c)' = RunsLeft(c)
<1>1. ASSUME /\ c \in sending' /\ file'[c] = file[c]
             /\ c \in running' <=> c \in running
             /\ filePartSent'[ClientOf[c]] = filePartSent[ClientOf[c]]
      PROVE  RunsLeft(c)' = RunsLeft(c)
  BY <1>1 DEF RunsLeft
<1>2. PICK d \in Conns :
          \/ \E f \in Files : Assign(d, f)
          \/ Close(d) \/ Break(d) \/ SendingTask(d) \/ RecvTask(d)
  BY DEF Next
<1>3. CASE \E f \in Files : Assign(d, f)
  BY <1>1, <1>3 DEF Assign
<1>4. CASE Close(d) \/ Break(d)
  BY <1>1, <1>4 DEF Close, Break, clientVars
<1>5. CASE RecvTask(d)
  <2>1. UNCHANGED clientVars
    BY <1>5 DEF RecvTask, RecvEnds, BadStart, OpenFails, FirstBuffer, NextBuffer, Recv
  <2> QED
    BY <1>1, <2>1 DEF clientVars
<1>6. CASE SendingTask(d)
  <2>1. d # c /\ d \in sending /\ c \in Conns
    BY <1>6, SMTT(20) DEF SendingTask, SessionClosed, SessionOpen, Starts, SendFinish, SendFinishThrows,
       AtFinish, SendPart, SendNothing, SendPartFails, ReadPart, Types, TypedSender
  <2>2. ClientOf[d] # ClientOf[c]
    BY <2>1 DEF OneChainEach
  <2>3. /\ sending' \in {sending, sending \ {d}}
        /\ running' \in {running \cup {d}, running \ {d}, running}
    BY <1>6 DEF SendingTask, SessionClosed, SessionOpen, SendFinish, SendFinishThrows, EndChain,
       NextTask, SendPart, SendNothing, SendPartFails
  <2>4. file'[c] = file[c] /\ filePartSent'[ClientOf[c]] = filePartSent[ClientOf[c]]
    <3>1. CASE ReadPart(d)
      BY <2>1, <2>2, <3>1, ReadPartTyped DEF Types
    <3>2. CASE ~ReadPart(d)
      BY <1>6, <2>1, <2>2, <3>2, ConnsAssumption
      DEF SendingTask, SessionClosed, SessionOpen, SendFinish, SendFinishThrows, SendPart,
          SendNothing, SendPartFails, Types, TypedSender
    <3> QED
      BY <3>1, <3>2
  <2> QED
    BY <1>1, <2>1, <2>3, <2>4
<1> QED
  BY <1>2, <1>3, <1>4, <1>5, <1>6

\* In turns, each step of a SendingTask brings its chain nearer to the end, for files and
\* packages of any size, and nothing sets it back (user_tasks.cpp:107-176).  How many steps
\* are left is a natural number, so no chain takes more of them than it had at its start.
THEOREM ChainComesNearer ==
    TurnsSpec => SendingNears /\ [](\A c \in Conns : RunsLeft(c) \in Nat)
<1>1. Types /\ Types' /\ OneChainEach /\ [Next /\ OneChainEach']_vars =>
        [\A c \in sending : IF SendingTask(c) THEN RunsLeft(c)' < RunsLeft(c)
                                             ELSE RunsLeft(c)' = RunsLeft(c)]_vars
  BY TaskNears, OthersWait
<1>2. Types /\ [Next /\ OneChainEach']_vars => Types'
  BY TypesStep
<1>3. Types => \A c \in Conns : RunsLeft(c) \in Nat
  <2> SUFFICES ASSUME Types, NEW c \in Conns PROVE RunsLeft(c) \in Nat
    OBVIOUS
  <2>1. CASE c \notin sending
    BY <2>1 DEF RunsLeft
  <2>2. CASE c \in sending
    <3> DEFINE n == ToRead(c)
               e == Flag(file[c].eof)
               p == Flag(filePartSent[ClientOf[c]])
               r == Flag(c \in running)
    <3>1. /\ n \in Nat /\ e \in {0, 1} /\ p \in {0, 1} /\ r \in {0, 1}
          /\ RunsLeft(c) = 2 * (n + e + p) + 1 + r
      BY <2>2, LeftIs, FlagIs
    <3> HIDE DEF n, e, p, r
    <3> QED
      BY <3>1
  <2> QED
    BY <2>1, <2>2
<1> QED
  BY <1>1, <1>2, <1>3, TypesInit, InTurns, PTL DEF TurnsSpec, SendingNears

-----------------------------------------------------------------------------
(* Loss *)

\* Two sequences with the same elements are the same; cuts can be undone.
LEMMA ConcatIs ==
    ASSUME NEW s \in Seq(Byte), NEW t \in Seq(Byte), NEW u \in Seq(Byte),
           Len(u) = Len(s) + Len(t),
           \A i \in 1 .. Len(s) : u[i] = s[i],
           \A i \in 1 .. Len(t) : u[Len(s) + i] = t[i]
    PROVE  u = s \o t
<1>1. Len(s) \in Nat /\ Len(t) \in Nat
  BY LenProperties
<1>2. /\ s \o t \in Seq(Byte) /\ Len(s \o t) = Len(s) + Len(t)
      /\ \A i \in 1 .. Len(s) + Len(t) :
            (s \o t)[i] = IF i <= Len(s) THEN s[i] ELSE t[i - Len(s)]
  BY ConcatProperties
<1>3. ASSUME NEW i \in 1 .. Len(s) + Len(t) PROVE u[i] = (s \o t)[i]
  <2>1. CASE i <= Len(s)
    BY <1>1, <1>2, <2>1
  <2>2. CASE i > Len(s)
    <3> DEFINE j == i - Len(s)
    <3>1. j \in 1 .. Len(t) /\ i = Len(s) + j
      BY <1>1, <2>2
    <3>2. (s \o t)[i] = t[j]
      BY <1>2, <2>2
    <3> HIDE DEF j
    <3> QED
      BY <3>1, <3>2
  <2> QED
    BY <1>1, <2>1, <2>2
<1>4. \A i \in 1 .. Len(u) : u[i] = (s \o t)[i]
  BY <1>3
<1>5. Len(u) = Len(s \o t)
  BY <1>2
<1> QED
  BY <1>2, <1>4, <1>5, SeqEqual

\* The order of two concatenations does not matter.
LEMMA ConcatThree ==
    ASSUME NEW s \in Seq(Byte), NEW t \in Seq(Byte), NEW u \in Seq(Byte)
    PROVE  (s \o t) \o u = s \o (t \o u)
BY ConcatAssociative, SMTT(20)

\* Two successive parts of a file are one.
LEMMA BytesConcat ==
    ASSUME NEW f \in Files, NEW n \in Nat, NEW m \in Nat
    PROVE  Bytes("data", f, 0, n + m) = Bytes("data", f, 0, n) \o Bytes("data", f, n, m)
<1> DEFINE s == Bytes("data", f, 0, n)
           t == Bytes("data", f, n, m)
           u == Bytes("data", f, 0, n + m)
<1>1. 0 \in Nat /\ n + m \in Nat
  OBVIOUS
<1>2. /\ s \in Seq(Byte) /\ Len(s) = n /\ \A i \in 1 .. n : s[i] = Data(f, 0 + i)
      /\ t \in Seq(Byte) /\ Len(t) = m /\ \A i \in 1 .. m : t[i] = Data(f, n + i)
      /\ u \in Seq(Byte) /\ Len(u) = n + m /\ \A i \in 1 .. n + m : u[i] = Data(f, 0 + i)
  BY <1>1, DataAre
<1> HIDE DEF s, t, u
<1>3. \A i \in 1 .. n : u[i] = s[i]
  BY <1>2
<1>4. \A i \in 1 .. m : u[n + i] = t[i]
  <2>1. \A i \in 1 .. m : n + i \in 1 .. n + m /\ 0 + (n + i) = n + i
    OBVIOUS
  <2> QED
    BY <1>2, <2>1
<1>5. u = s \o t
  BY <1>2, <1>3, <1>4, ConcatIs
<1> QED
  BY <1>5 DEF s, t, u

\* What recv() takes and what it leaves are what was there.
LEMMA Rejoins ==
    ASSUME Types, NEW c \in Conns, NEW buffer \in Buffers(c), Recv(c, buffer)
    PROVE  /\ buffer \in Seq(Byte) /\ wire'[c] \in Seq(Byte) /\ Len(buffer) \in 1 .. Len(wire[c])
           /\ wire[c] = buffer \o wire'[c]
           /\ \A d \in Conns \ {c} : wire'[d] = wire[d]
           /\ server = "up" /\ UNCHANGED <<clientVars, link>>
<1> DEFINE w == wire[c]
           r == wire'[c]
<1>1. /\ buffer \in Seq(Byte) /\ Len(buffer) \in 1 .. Len(w)
      /\ \A i \in 1 .. Len(buffer) : buffer[i] = w[i]
      /\ wire' = [wire EXCEPT ![c] = SubSeq(w, Len(buffer) + 1, Len(w))]
      /\ server = "up" /\ UNCHANGED <<clientVars, link>>
  BY TakeTyped DEF Types
<1>2. /\ w \in Seq(Byte) /\ Len(w) \in Nat /\ r = SubSeq(w, Len(buffer) + 1, Len(w))
      /\ \A d \in Conns \ {c} : wire'[d] = wire[d]
  BY <1>1, LenProperties DEF Types, TypedWire
<1>3. Len(buffer) \in 0 .. Len(w)
  BY <1>1, <1>2
<1>4. /\ r \in Seq(Byte) /\ Len(r) = Len(w) - Len(buffer)
      /\ \A i \in 1 .. Len(w) - Len(buffer) : r[i] = w[Len(buffer) + i]
  BY <1>2, <1>3, CutIs
<1> HIDE DEF w, r
<1>5. Len(w) = Len(buffer) + Len(r)
  BY <1>1, <1>2, <1>4
<1>6. w = buffer \o r
  BY <1>1, <1>2, <1>4, <1>5, ConcatIs
<1> QED
  BY <1>1, <1>2, <1>4, <1>6 DEF w, r

\* A buffer that begins with start tags is the tags and what follows them.
LEMMA TagsRejoin ==
    ASSUME NEW f \in Files, NEW buffer \in Seq(Byte), BeginsWithTags(f, buffer)
    PROVE  buffer = StartTags(f) \o SubSeq(buffer, StartLen + 1, Len(buffer))
<1> DEFINE b == SubSeq(buffer, StartLen + 1, Len(buffer))
<1>1. /\ StartLen \in 1 .. Len(buffer) /\ Len(buffer) \in Nat
      /\ \A i \in 1 .. StartLen : buffer[i] = [part |-> "start", of |-> f, at |-> i]
      /\ b \in Seq(Byte) /\ Len(b) = Len(buffer) - StartLen
      /\ \A i \in 1 .. Len(buffer) - StartLen : b[i] = buffer[StartLen + i]
  BY AfterTags, LenProperties
<1>2. /\ StartTags(f) \in Seq(Byte) /\ Len(StartTags(f)) = StartLen
      /\ \A i \in 1 .. StartLen : StartTags(f)[i] = [part |-> "start", of |-> f, at |-> i]
  BY TagsAre
<1> HIDE DEF b
<1>3. buffer = StartTags(f) \o b
  <2>1. Len(buffer) = Len(StartTags(f)) + Len(b)
    BY <1>1, <1>2
  <2>2. \A i \in 1 .. Len(StartTags(f)) : buffer[i] = StartTags(f)[i]
    BY <1>1, <1>2
  <2>3. \A i \in 1 .. Len(b) : buffer[Len(StartTags(f)) + i] = b[i]
    BY <1>1, <1>2
  <2> QED
    BY <1>1, <1>2, <2>1, <2>2, <2>3, ConcatIs
<1> QED
  BY <1>3 DEF b

\* All that has been sent is a sequence, the same for a step that neither reads nor reports.
LEMMA SentIs ==
    ASSUME NEW c \in Conns, NEW f \in Files, file[c].pos \in Nat
    PROVE  Sent(c, f) \in Seq(Byte)
<1>1. <<>> \in Seq(Byte) /\ FinishTagSent \in Seq(Byte) /\ StartTags(f) \in Seq(Byte)
  BY EmptySeq, FinishIs, TagsAre
<1>2. Bytes("data", f, 0, file[c].pos) \in Seq(Byte)
  <2>1. 0 \in Nat
    OBVIOUS
  <2> QED
    BY <2>1, DataAre
<1>3. /\ (IF file[c].pos = 0 THEN <<>> ELSE StartTags(f) \o Bytes("data", f, 0, file[c].pos))
             \in Seq(Byte)
      /\ (IF <<c, f>> \in reported THEN FinishTagSent ELSE <<>>) \in Seq(Byte)
  BY <1>1, <1>2, ConcatProperties
<1> QED
  BY <1>3, ConcatProperties DEF Sent

\* What has been sent changes only with the position and the report.
LEMMA SentSame ==
    ASSUME NEW c, NEW f, file'[c].pos = file[c].pos,
           <<c, f>> \in reported' <=> <<c, f>> \in reported
    PROVE  Sent(c, f)' = Sent(c, f)
BY DEF Sent, StartTags, Bytes, FinishTagSent

\* Flowing, of the next state
LEMMA FlowsNext ==
    ASSUME NEW c, NEW f
    PROVE  Flowing(c, f)' <=>
              \/ opened'[c] = NoFile /\ stored'[c] = <<>> /\ wire'[c] = Sent(c, f)'
              \/ /\ opened'[c] = f /\ c \notin dirty'
                 /\ (StartTags(f) \o stored'[c]) \o wire'[c] = Sent(c, f)'
BY DEF Flowing, StartTags, Bytes

\* A step leaves a connection alone: its files, its bytes and its chain stay as they are.
Alone(d) ==
    /\ link'[d] = "up" => link[d] = "up"
    /\ Assigned(d)' = Assigned(d) /\ file'[d] = file[d] /\ wire'[d] = wire[d]
    /\ d \in sending' <=> d \in sending
    /\ \A f \in Files : <<d, f>> \in reported' <=> <<d, f>> \in reported
    /\ d \in errors => d \in errors'
    /\ server = "crashed" => server' = "crashed"
    /\ closed \subseteq closed'
    /\ opened'[d] = opened[d] /\ stored'[d] = stored[d]
    /\ d \in dirty' => d \in dirty

\* A connection that is left alone loses nothing.
LEMMA AloneKeeps ==
    ASSUME NEW d \in Conns, LossOf(d), Alone(d)
    PROVE  LossOf(d)'
<1>1. Unused(d)'
  BY DEF LossOf, Unused, Alone
<1>2. ASSUME NEW f \in Files PROVE UsedOnce(d, f)'
  BY DEF LossOf, UsedOnce, Alone
<1>3. ASSUME NEW f \in Files PROVE KeepsBytes(d, f)'
  <2> SUFFICES ASSUME link'[d] = "up", Assigned(d)' = {<<d, f>>}
               PROVE  Told(d, f)' \/ Flowing(d, f)' \/ Headless(d)'
    BY DEF KeepsBytes
  <2>1. Told(d, f) \/ Flowing(d, f) \/ Headless(d)
    BY DEF LossOf, KeepsBytes, Alone
  <2>2. Told(d, f) => Told(d, f)'
    BY DEF Told, Received, Alone
  <2>3. Sent(d, f)' = Sent(d, f)
    BY SentSame DEF Alone
  <2>4. Flowing(d, f) => Flowing(d, f)'
    BY <2>3, FlowsNext DEF Flowing, Alone
  <2>5. Headless(d) => Headless(d)'
    BY DEF Headless, Alone
  <2> QED
    BY <2>1, <2>2, <2>4, <2>5
<1> QED
  BY <1>1, <1>2, <1>3 DEF LossOf

\* What is put on the wire goes on with what has been sent.
LEMMA PutKeepsBytes ==
    ASSUME Types, NEW c \in Conns, NEW f \in Files, NEW bytes \in Seq(Byte), Flowing(c, f),
           wire'[c] = wire[c] \o bytes, Sent(c, f)' = Sent(c, f) \o bytes,
           UNCHANGED <<opened, stored, dirty>>
    PROVE  Flowing(c, f)'
<1> DEFINE x == StartTags(f) \o stored[c]
           w == wire[c]
<1>1. StartTags(f) \in Seq(Byte) /\ stored[c] \in Seq(Byte) /\ w \in Seq(Byte)
  BY TagsAre DEF Types, TypedWire, TypedReceiver
<1>2. x \in Seq(Byte)
  BY <1>1, ConcatProperties
<1> HIDE DEF x, w
<1>3. (x \o w) \o bytes = x \o (w \o bytes)
  BY <1>1, <1>2, ConcatThree
<1> QED
  BY <1>3, FlowsNext DEF Flowing, x, w

\* What is put behind the first byte does not change it.
LEMMA PutKeepsHead ==
    ASSUME Types, NEW c \in Conns, NEW bytes \in Seq(Byte), Headless(c),
           wire'[c] = wire[c] \o bytes, UNCHANGED opened
    PROVE  Headless(c)'
<1>1. wire[c] \in Seq(Byte) /\ wire[c] # <<>>
  BY DEF Types, TypedWire, Headless
<1>2. Len(wire[c]) \in Nat /\ Len(wire[c]) > 0 /\ Len(bytes) \in Nat
  BY <1>1, EmptySeq, LenProperties
<1>3. Len(wire[c] \o bytes) > 0 /\ (wire[c] \o bytes)[1] = wire[c][1]
  BY <1>1, <1>2, ConcatProperties
<1>4. wire'[c] # <<>>
  BY <1>3, EmptySeq
<1> QED
  BY <1>3, <1>4 DEF Headless

\* A clean buffer is written, or somebody is told.
LEMMA StoreTells ==
    ASSUME NEW c \in Conns, NEW f \in Files, NEW written, NEW clean \in BOOLEAN, clean,
           NEW before, NEW bytes, Types, Store(c, f, written, clean, before, bytes)
    PROVE  \/ Told(c, f)'
           \/ opened'[c] = f /\ stored'[c] = written \o bytes /\ c \notin dirty'
<1> DEFINE data == SubSeq(bytes, 1, Len(bytes) - FinishLen - 1)
           total == before + Len(bytes)
<1>1. CASE closed' = closed \cup {[file |-> f, data |-> written \o data, clean |-> clean]}
  <2> HIDE DEF data
  <2>1. [file |-> f, data |-> written \o data, clean |-> clean] \in closed'
    BY <1>1
  <2>2. Received(f)'
    BY <2>1 DEF Received
  <2> QED
    BY <2>2 DEF Told
<1>2. CASE /\ opened' = [opened EXCEPT ![c] = f]
           /\ stored' = [stored EXCEPT ![c] = written \o bytes]
           /\ dirty' = IF clean THEN dirty \ {c} ELSE dirty
  BY <1>2 DEF Types, TypedReceiver
<1>3. CASE Garbled(c, f, total)
  BY <1>3 DEF Garbled, Told
<1>4. CASE Crash
  BY <1>4 DEF Crash, Told
<1> QED
  BY <1>1, <1>2, <1>3, <1>4 DEF Store

\* Whatever the buffer, what has been told stays so, and the other connections are alone.
LEMMA StoreAlone ==
    ASSUME Types, NEW c \in Conns, NEW f, NEW written, NEW clean, NEW before, NEW bytes,
           Store(c, f, written, clean, before, bytes)
    PROVE  /\ closed \subseteq closed' /\ errors \subseteq errors'
           /\ \A d \in Conns \ {c} : /\ opened'[d] = opened[d] /\ stored'[d] = stored[d]
                                     /\ d \in dirty' => d \in dirty
BY DEF Store, Garbled, Crash, Types, TypedReceiver

\* Only what has been sent of f can begin with start tags, and they are those of f.
LEMMA TagsOfSent ==
    ASSUME NEW c \in Conns, NEW f \in Files, file[c].pos \in Nat, NEW g,
           Len(Sent(c, f)) > 0, Sent(c, f)[1] = [part |-> "start", of |-> g, at |-> 1]
    PROVE  g = f
<1> DEFINE fin == IF <<c, f>> \in reported THEN FinishTagSent ELSE <<>>
           data == Bytes("data", f, 0, file[c].pos)
           tags == StartTags(f)
           x == tags \o data
<1>1. /\ fin \in Seq(Byte) /\ Len(fin) \in Nat
      /\ Len(fin) > 0 => fin[1].part = "finish"
  BY FinishIs, EmptySeq, LengthsAssumption, SMTT(20)
<1>2. /\ tags \in Seq(Byte) /\ Len(tags) \in Nat /\ Len(tags) > 0
      /\ tags[1] = [part |-> "start", of |-> f, at |-> 1]
  BY TagsAre, LengthsAssumption, SMTT(20)
<1>3. data \in Seq(Byte) /\ Len(data) \in Nat
  <2>1. 0 \in Nat
    OBVIOUS
  <2> QED
    BY <2>1, DataAre, LenProperties
<1>4. Sent(c, f) = (IF file[c].pos = 0 THEN <<>> ELSE x) \o fin
  BY DEF Sent
<1> HIDE DEF fin, data, tags
<1>5. x \in Seq(Byte) /\ Len(x) = Len(tags) + Len(data) /\ x[1] = tags[1]
  BY <1>2, <1>3, ConcatProperties
<1> HIDE DEF x
<1>6. CASE file[c].pos = 0
  <2>1. Sent(c, f) = fin
    BY <1>1, <1>4, <1>6, ConcatEmptySeq
  <2>2. Sent(c, f)[1].part = "start"
    OBVIOUS
  <2> QED
    BY <1>1, <2>1, <2>2
<1>7. CASE file[c].pos # 0
  <2>1. Sent(c, f) = x \o fin
    BY <1>4, <1>7
  <2>2. Len(x) > 0 /\ Len(x) \in Nat
    BY <1>2, <1>3, <1>5
  <2>3. (x \o fin)[1] = x[1]
    BY <1>1, <1>5, <2>2, ConcatProperties
  <2>4. [part |-> "start", of |-> g, at |-> 1].of = [part |-> "start", of |-> f, at |-> 1].of
    BY <1>2, <1>5, <2>1, <2>3
  <2> QED
    BY <2>4
<1> QED
  BY <1>6, <1>7

\* Nothing is asked of a connection that has failed.
LEMMA DownKeeps ==
    ASSUME NEW c, link'[c] # "up"
    PROVE  LossOf(c)'
BY DEF LossOf, Unused, UsedOnce, KeepsBytes

\* A step of RecvTask keeps LossOf if what it takes is written, or somebody is told.
LEMMA RecvKeepsLoss ==
    ASSUME Types, \A d \in Conns : LossOf(d), NEW c \in Conns, NEW buffer \in Buffers(c),
           Recv(c, buffer), closed \subseteq closed', errors \subseteq errors',
           \A d \in Conns \ {c} : /\ opened'[d] = opened[d] /\ stored'[d] = stored[d]
                                  /\ d \in dirty' => d \in dirty,
           \A f \in Files : Flowing(c, f) \/ Headless(c) => Told(c, f)' \/ Flowing(c, f)'
    PROVE  \A d \in Conns : LossOf(d)'
<1>1. /\ Len(wire[c]) > 0 /\ \A d \in Conns \ {c} : wire'[d] = wire[d]
      /\ server = "up" /\ UNCHANGED <<clientVars, link>>
  BY Rejoins
<1>2. \A d \in Conns \ {c} : LossOf(d)'
  <2>1. ASSUME NEW d \in Conns \ {c} PROVE Alone(d)
    BY <1>1 DEF Alone, Assigned, clientVars
  <2> QED
    BY <2>1, AloneKeeps
<1>3. LossOf(c)'
  <2> USE <1>1 DEF clientVars
  <2>1. Unused(c)'
    <3>1. wire[c] # <<>>
      BY EmptySeq
    <3> QED
      BY <3>1 DEF LossOf, Unused, Assigned
  <2>2. ASSUME NEW f \in Files PROVE UsedOnce(c, f)'
    BY DEF LossOf, UsedOnce, Assigned
  <2>3. ASSUME NEW f \in Files PROVE KeepsBytes(c, f)'
    <3> SUFFICES ASSUME link'[c] = "up", Assigned(c)' = {<<c, f>>}
                 PROVE  Told(c, f)' \/ Flowing(c, f)'
      BY DEF KeepsBytes
    <3>1. Told(c, f) \/ Flowing(c, f) \/ Headless(c)
      BY DEF LossOf, KeepsBytes, Assigned
    <3>2. Told(c, f) => Told(c, f)'
      BY DEF Told, Received
    <3> QED
      BY <3>1, <3>2
  <2> QED
    BY <2>1, <2>2, <2>3 DEF LossOf
<1> QED
  BY <1>2, <1>3

\* Start tags and what follows them are written, or somebody is told.
LEMMA FirstKeepsLoss ==
    ASSUME Types, \A d \in Conns : LossOf(d), NEW c \in Conns, FirstBuffer(c)
    PROVE  \A d \in Conns : LossOf(d)'
<1>1. PICK g \in Files, buffer \in Buffers(c) :
          /\ Recv(c, buffer) /\ BeginsWithTags(g, buffer)
          /\ Store(c, g, <<>>, TRUE, 0, SubSeq(buffer, StartLen + 1, Len(buffer)))
  BY DEF FirstBuffer
<1> DEFINE bytes == SubSeq(buffer, StartLen + 1, Len(buffer))
           r == wire'[c]
<1>2. /\ buffer \in Seq(Byte) /\ r \in Seq(Byte) /\ wire[c] = buffer \o r
      /\ UNCHANGED <<clientVars, link>>
  BY <1>1, Rejoins
<1>3. buffer = StartTags(g) \o bytes
  BY <1>1, <1>2, TagsRejoin
<1>4. /\ bytes \in Seq(Byte) /\ Len(buffer) > 0 /\ Len(buffer) \in Nat
      /\ buffer[1] = [part |-> "start", of |-> g, at |-> 1]
  <2>1. /\ StartLen \in 1 .. Len(buffer) /\ bytes \in Seq(Byte)
        /\ \A i \in 1 .. StartLen : buffer[i] = [part |-> "start", of |-> g, at |-> i]
    BY <1>1, <1>2, AfterTags
  <2>2. Len(buffer) \in Nat
    BY <1>2, LenProperties
  <2>3. 1 \in 1 .. StartLen /\ Len(buffer) > 0
    BY <2>1, <2>2
  <2> QED
    BY <2>1, <2>2, <2>3
<1> HIDE DEF bytes, r
<1>h. /\ Len(buffer \o r) > 0 /\ (buffer \o r)[1] = buffer[1]
      /\ ~Headless(c)
  <2>1. Len(buffer \o r) = Len(buffer) + Len(r) /\ Len(r) \in Nat
    BY <1>2, ConcatProperties, LenProperties
  <2>2. 1 \in 1 .. Len(buffer) + Len(r) /\ 1 <= Len(buffer)
    BY <1>4, <2>1
  <2>3. Len(buffer \o r) > 0 /\ (buffer \o r)[1] = buffer[1]
    BY <1>2, <1>4, <2>1, <2>2, ConcatProperties
  <2>4. wire[c][1].part = "start"
    BY <1>2, <1>4, <2>3
  <2> QED
    BY <2>3, <2>4 DEF Headless
<1>5. ASSUME NEW f \in Files, Flowing(c, f) \/ Headless(c)
      PROVE  Told(c, f)' \/ Flowing(c, f)'
  <2>1. wire[c] = Sent(c, f)
    BY <1>5, <1>h, FilesAssumption DEF Flowing, FirstBuffer
  <2>3. f = g
    <3>1. file[c].pos \in Nat
      BY DEF Types, TypedSender
    <3> QED
      BY <1>2, <1>4, <1>h, <2>1, <3>1, TagsOfSent
  <2>4. \/ Told(c, f)'
        \/ opened'[c] = f /\ stored'[c] = <<>> \o bytes /\ c \notin dirty'
    <3>1. Store(c, f, <<>>, TRUE, 0, bytes)
      BY <1>1, <2>3 DEF bytes
    <3> QED
      BY <3>1, StoreTells
  <2>5. <<>> \o bytes = bytes
    BY <1>4, ConcatEmptySeq
  <2>6. Sent(c, f)' = Sent(c, f)
    BY <1>2, SentSame DEF clientVars
  <2> QED
    BY <1>2, <1>3, <2>1, <2>3, <2>4, <2>5, <2>6, FlowsNext DEF r
<1>6. /\ closed \subseteq closed' /\ errors \subseteq errors'
      /\ \A d \in Conns \ {c} : /\ opened'[d] = opened[d] /\ stored'[d] = stored[d]
                                /\ d \in dirty' => d \in dirty
  BY <1>1, StoreAlone
<1> QED
  BY <1>1, <1>5, <1>6, RecvKeepsLoss

\* So is what goes on with a file.
LEMMA NextKeepsLoss ==
    ASSUME Types, \A d \in Conns : LossOf(d), NEW c \in Conns, NextBuffer(c)
    PROVE  \A d \in Conns : LossOf(d)'
<1>1. PICK buffer \in Buffers(c) :
          /\ Recv(c, buffer)
          /\ Store(c, opened[c], stored[c], c \notin dirty, commonsize, buffer)
  BY DEF NextBuffer
<1> DEFINE r == wire'[c]
           s == stored[c]
           clean == c \notin dirty
<1>2. /\ buffer \in Seq(Byte) /\ r \in Seq(Byte) /\ wire[c] = buffer \o r
      /\ UNCHANGED <<clientVars, link>>
  BY <1>1, Rejoins
<1>3. s \in Seq(Byte) /\ clean \in BOOLEAN
  BY DEF Types, TypedReceiver
<1>4. Store(c, opened[c], s, clean, commonsize, buffer)
  BY <1>1
<1>5. clean <=> c \notin dirty
  OBVIOUS
<1> HIDE DEF r, s, clean
<1>6. ASSUME NEW f \in Files, Flowing(c, f) \/ Headless(c)
      PROVE  Told(c, f)' \/ Flowing(c, f)'
  <2> DEFINE t == StartTags(f)
  <2>1. /\ opened[c] = f /\ clean
        /\ (t \o s) \o wire[c] = Sent(c, f)
    BY <1>5, <1>6 DEF Flowing, Headless, NextBuffer, s
  <2>2. t \in Seq(Byte)
    BY TagsAre
  <2>3. \/ Told(c, f)'
        \/ opened'[c] = f /\ stored'[c] = s \o buffer /\ c \notin dirty'
    <3>1. clean = TRUE
      BY <1>3, <2>1
    <3>2. Store(c, f, s, TRUE, commonsize, buffer)
      BY <1>4, <2>1, <3>1
    <3> QED
      BY <3>2, StoreTells
  <2>4. Sent(c, f)' = Sent(c, f)
    BY <1>2, SentSame DEF clientVars
  <2> HIDE DEF t
  <2>5. (t \o (s \o buffer)) \o r = (t \o s) \o (buffer \o r)
    <3>1. t \o (s \o buffer) = (t \o s) \o buffer
      BY <1>2, <1>3, <2>2, ConcatThree
    <3>2. t \o s \in Seq(Byte)
      BY <1>3, <2>2, ConcatProperties
    <3>3. ((t \o s) \o buffer) \o r = (t \o s) \o (buffer \o r)
      BY <1>2, <3>2, ConcatThree
    <3> QED
      BY <3>1, <3>3
  <2> QED
    BY <1>2, <2>1, <2>3, <2>4, <2>5, FlowsNext DEF r, t
<1>7. /\ closed \subseteq closed' /\ errors \subseteq errors'
      /\ \A d \in Conns \ {c} : /\ opened'[d] = opened[d] /\ stored'[d] = stored[d]
                                /\ d \in dirty' => d \in dirty
  BY <1>1, StoreAlone
<1> QED
  BY <1>1, <1>6, <1>7, RecvKeepsLoss

\* Neither end chooses a file: only Assign does.
LEMMA AssignedStep == InOrder /\ SendsAssigned /\ [Next]_vars => SendsAssigned'
<1> SUFFICES ASSUME InOrder, SendsAssigned, [Next]_vars PROVE SendsAssigned'
  OBVIOUS
<1>a. Types
  BY DEF InOrder
<1>1. ASSUME NEW c \in Conns, NEW f \in Files, Assign(c, f) PROVE SendsAssigned'
  BY <1>a, <1>1 DEF Assign, SendsAssigned, Types, TypedSender
<1>2. ASSUME NEW c \in Conns, SendFinish(c) PROVE SendsAssigned'
  <2>1. c \in sending
    BY <1>a, <1>2 DEF SendFinish, AtFinish, Types, TypedSender
  <2> QED
    BY <1>2, <2>1 DEF SendFinish, EndChain, SendsAssigned
<1>3. ASSUME NEW c \in Conns, SendPart(c) \/ SendNothing(c) \/ SendPartFails(c)
      PROVE  SendsAssigned'
  <2>1. \A d \in Conns : file'[d].name = file[d].name
    BY <1>a, <1>3, ReadPartTyped DEF SendPart, SendNothing, SendPartFails, Types
  <2>2. sending' \subseteq sending /\ UNCHANGED <<reported, assigned>>
    BY <1>3 DEF SendPart, SendNothing, SendPartFails, NextTask, EndChain
  <2> QED
    BY <1>a, <2>1, <2>2 DEF SendsAssigned, Types, TypedSender
<1>4. ASSUME sending' \subseteq sending, UNCHANGED <<file, reported, assigned>>
      PROVE  SendsAssigned'
  BY <1>4 DEF SendsAssigned
<1>5. ASSUME NEW c \in Conns, SessionClosed(c) \/ SessionOpen(c) \/ SendFinishThrows(c)
      PROVE  SendsAssigned'
  BY <1>4, <1>5 DEF SessionClosed, SessionOpen, SendFinishThrows, EndChain
<1>6. ASSUME NEW c \in Conns, Close(c) \/ Break(c) \/ RecvTask(c) PROVE SendsAssigned'
  BY <1>4, <1>6 DEF Close, Break, RecvTask, RecvEnds, BadStart, OpenFails, FirstBuffer,
                    NextBuffer, Recv, clientVars
<1>7. CASE UNCHANGED vars
  BY <1>4, <1>7 DEF vars, clientVars
<1> QED
  BY <1>1, <1>2, <1>3, <1>5, <1>6, <1>7 DEF Next, SendingTask

\* What a task puts on the wire is what it has read of the file, after the start tags if
\* these have not been sent: no byte twice, and none left out.
LEMMA SentPart ==
    ASSUME NEW c \in Conns, NEW f \in Files, file[c].name = f, file[c].pos \in Nat,
           ReadCount(c) \in Nat \ {0}, file'[c].pos = file[c].pos + ReadCount(c),
           <<c, f>> \notin reported, <<c, f>> \notin reported',
           filePartSent[ClientOf[c]] <=> file[c].pos # 0
    PROVE  Sent(c, f)' = Sent(c, f) \o PartSent(c)
<1> DEFINE p == file[c].pos
           n == ReadCount(c)
           t == StartTags(f)
           s == Bytes("data", f, 0, p)
           u == Bytes("data", f, p, n)
           v == Bytes("data", f, 0, p + n)
<1>1. /\ t \in Seq(Byte) /\ s \in Seq(Byte) /\ u \in Seq(Byte) /\ v \in Seq(Byte)
      /\ v = s \o u
  <2>1. 0 \in Nat /\ p \in Nat /\ n \in Nat /\ p + n \in Nat
    OBVIOUS
  <2> HIDE DEF p, n
  <2>2. v = s \o u
    BY <2>1, BytesConcat
  <2>3. s \in Seq(Byte) /\ u \in Seq(Byte) /\ v \in Seq(Byte)
    BY <2>1, DataAre
  <2> QED
    BY <2>2, <2>3, TagsAre
<1>2. Sent(c, f) = (IF p = 0 THEN <<>> ELSE t \o s) \o <<>>
  BY DEF Sent
<1>3. Sent(c, f)' = (t \o v) \o <<>>
  <2>1. p + n # 0
    OBVIOUS
  <2> QED
    BY <2>1 DEF Sent, StartTags, Bytes
<1>4. PartSent(c) = (IF p # 0 THEN <<>> ELSE t) \o u
  BY DEF PartSent
<1>5. p = 0 => v = u
  <2>1. p = 0 => p + n = n
    OBVIOUS
  <2> QED
    BY <2>1
<1> HIDE DEF p, n, t, s, u, v
<1>6. t \o v \in Seq(Byte) /\ t \o s \in Seq(Byte) /\ t \o u \in Seq(Byte)
  BY <1>1, ConcatProperties
<1>7. Sent(c, f)' = t \o v
  BY <1>3, <1>6, ConcatEmptySeq
<1>8. CASE p = 0
  <2>1. Sent(c, f) = <<>>
    BY <1>2, <1>8, ConcatEmptySeq, EmptySeq
  <2> QED
    BY <1>4, <1>5, <1>6, <1>7, <1>8, <2>1, ConcatEmptySeq
<1>9. CASE p # 0
  <2>1. Sent(c, f) = t \o s
    BY <1>2, <1>6, <1>9, ConcatEmptySeq
  <2>2. PartSent(c) = u
    BY <1>1, <1>4, <1>9, ConcatEmptySeq
  <2>3. t \in Seq(Byte) /\ s \in Seq(Byte) /\ u \in Seq(Byte)
    BY <1>1
  <2>4. (t \o s) \o u = t \o (s \o u)
    BY ONLY <2>3, ConcatThree
  <2> QED
    BY <1>1, <1>7, <2>1, <2>2, <2>4
<1> QED
  BY <1>8, <1>9

\* Where filePartSent is set before anything was sent, the first byte is one of the file.
LEMMA SentHeadless ==
    ASSUME Types, NEW c \in Conns, NEW f \in Files, file[c].name = f, file[c].pos = 0,
           ReadCount(c) \in Nat \ {0}, <<c, f>> \notin reported, filePartSent[ClientOf[c]],
           Flowing(c, f), wire'[c] = wire[c] \o PartSent(c), UNCHANGED opened
    PROVE  Headless(c)'
<1> DEFINE content == Bytes("data", f, 0, ReadCount(c))
           t == StartTags(f)
<1>1. /\ content \in Seq(Byte) /\ Len(content) = ReadCount(c)
      /\ content[1] = Data(f, 0 + 1)
  <2> DEFINE n == ReadCount(c)
  <2>1. f \in Files /\ n \in Nat /\ 0 \in Nat /\ 1 \in 1 .. n
    OBVIOUS
  <2> HIDE DEF n
  <2>2. /\ Bytes("data", f, 0, n) \in Seq(Byte) /\ Len(Bytes("data", f, 0, n)) = n
        /\ \A i \in 1 .. n : Bytes("data", f, 0, n)[i] = Data(f, 0 + i)
    BY ONLY <2>1, DataAre
  <2> QED
    BY <2>1, <2>2 DEF n
<1>2. PartSent(c) = <<>> \o content
  BY DEF PartSent
<1>3. Sent(c, f) = <<>> \o <<>>
  BY DEF Sent
<1>4. t \in Seq(Byte) /\ Len(t) \in Nat /\ Len(t) > 0
  BY TagsAre, LengthsAssumption
<1>5. stored[c] \in Seq(Byte) /\ wire[c] \in Seq(Byte)
  BY DEF Types, TypedWire, TypedReceiver
<1> HIDE DEF content, t
<1>6. Sent(c, f) = <<>> /\ PartSent(c) = content
  BY <1>1, <1>2, <1>3, EmptySeq, ConcatEmptySeq
<1>7. (t \o stored[c]) \o wire[c] # <<>>
  <2>1. t \o stored[c] \in Seq(Byte) /\ Len(t \o stored[c]) = Len(t) + Len(stored[c])
    BY <1>4, <1>5, ConcatProperties
  <2>2. Len((t \o stored[c]) \o wire[c]) = (Len(t) + Len(stored[c])) + Len(wire[c])
    BY <1>5, <2>1, ConcatProperties
  <2>3. Len(stored[c]) \in Nat /\ Len(wire[c]) \in Nat
    BY <1>5, LenProperties
  <2> QED
    BY <1>4, <2>2, <2>3, EmptySeq
<1>8. opened[c] = NoFile /\ wire[c] = <<>>
  BY <1>6, <1>7 DEF Flowing, t
<1>9. wire'[c] = content
  BY <1>1, <1>6, <1>8, ConcatEmptySeq
<1>10. content # <<>> /\ content[1].part = "data"
  BY <1>1, EmptySeq DEF Data
<1> QED
  BY <1>8, <1>9, <1>10 DEF Headless

\* Bytes are lost on no connection: they are on the way, written, or somebody is told.
LEMMA LossStep == IInv /\ OneChainEach /\ [Next]_vars => IInv'
<1> SUFFICES ASSUME IInv, OneChainEach, [Next]_vars PROVE IInv'
  OBVIOUS
<1> USE ConnsAssumption, FilesAssumption
<1> DEFINE Goal == \A c \in Conns : LossOf(c)'
<1>a. /\ InOrder' /\ SendsAssigned'
      /\ InOrder /\ SendsAssigned /\ Types /\ \A c \in Conns : LossOf(c)
  BY OrderStep, AssignedStep DEF IInv, InOrder
<1>b. SUFFICES Goal
  BY <1>a DEF IInv
<1> DEFINE Rest == <<opened, stored, dirty, errors, server, closed>>
<1>1. ASSUME NEW c \in Conns, NEW g \in Files, Assign(c, g) PROVE Goal
  <2> USE <1>1 DEF Assign
  <2>1. UNCHANGED <<Rest, reported, wire, link, filePartSent>>
    BY DEF serverVars
  <2>2. ASSUME NEW d \in Conns \ {c} PROVE LossOf(d)'
    <3>1. Assigned(d)' = Assigned(d)
      BY DEF Assigned
    <3>2. Alone(d)
      BY <1>a, <2>1, <3>1 DEF Alone, Types, TypedSender
    <3> QED
      BY <1>a, <3>2, AloneKeeps
  <2>3. /\ <<c, g>> \in Assigned(c)' /\ <<c, g>> \notin assigned
        /\ Assigned(c)' = Assigned(c) \cup {<<c, g>>}
    BY DEF Assigned
  <2>4. file'[c] = [name |-> g, pos |-> 0, eof |-> FALSE]
    BY <1>a DEF Types, TypedSender
  <2>5. ASSUME NEW f \in Files, link'[c] = "up", Assigned(c)' = {<<c, f>>}
        PROVE  /\ f = g /\ Assigned(c) = {} /\ <<c, f>> \notin reported'
               /\ wire[c] = <<>> /\ opened[c] = NoFile /\ stored[c] = <<>>
    <3>1. <<c, g>> = <<c, f>>
      BY <2>3, <2>5
    <3>2. f = g
      BY <3>1
    <3>3. Assigned(c) = {}
      BY <2>3, <2>5, <3>2 DEF Assigned
    <3>4. <<c, f>> \notin reported'
      BY <1>a, <2>1, <2>3, <3>2 DEF SendsAssigned
    <3> QED
      BY <1>a, <2>1, <2>5, <3>2, <3>3, <3>4 DEF LossOf, Unused
  <2>6. ASSUME NEW f \in Files PROVE UsedOnce(c, f)'
    BY <2>1, <2>4, <2>5 DEF UsedOnce
  <2>7. ASSUME NEW f \in Files PROVE KeepsBytes(c, f)'
    <3> SUFFICES ASSUME link'[c] = "up", Assigned(c)' = {<<c, f>>} PROVE Flowing(c, f)'
      BY DEF KeepsBytes
    <3>1. Sent(c, f)' = <<>> \o <<>>
      BY <2>4, <2>5 DEF Sent
    <3>2. Sent(c, f)' = <<>>
      BY <3>1, EmptySeq, ConcatEmptySeq
    <3> QED
      BY <2>1, <2>5, <3>2, FlowsNext
  <2>8. Unused(c)'
    BY <2>3 DEF Unused
  <2> QED
    BY <2>2, <2>6, <2>7, <2>8 DEF LossOf
\* A step of the client or of the network leaves the other connections alone.
<1>e. ASSUME NEW c \in Conns, UNCHANGED <<Rest, assigned>>,
             \A d \in Conns \ {c} :
                /\ file'[d] = file[d] /\ wire'[d] = wire[d] /\ link'[d] = link[d]
                /\ d \in sending' <=> d \in sending
                /\ \A f \in Files : <<d, f>> \in reported' <=> <<d, f>> \in reported,
             LossOf(c)'
      PROVE  Goal
  <2>1. ASSUME NEW d \in Conns \ {c} PROVE Alone(d)
    BY <1>e DEF Alone, Assigned
  <2> QED
    BY <1>a, <1>e, <2>1, AloneKeeps
<1>2. ASSUME NEW c \in Conns, Close(c) \/ Break(c) PROVE Goal
  <2>1. /\ UNCHANGED <<Rest, assigned>> /\ LossOf(c)'
        /\ UNCHANGED <<file, sending, reported>>
        /\ \A d \in Conns \ {c} : wire'[d] = wire[d] /\ link'[d] = link[d]
    BY <1>a, <1>2, DownKeeps DEF Close, Break, clientVars, serverVars, Types, TypedWire
  <2> QED
    BY <1>e, <2>1
<1>3. ASSUME NEW c \in Conns, SessionClosed(c) \/ SendFinishThrows(c) \/ SendPartFails(c)
      PROVE  Goal
  <2>1. /\ UNCHANGED <<Rest, assigned, wire, link, reported>> /\ link'[c] # "up"
        /\ \A d \in Conns \ {c} : d \in sending' <=> d \in sending
    BY <1>3 DEF SessionClosed, SendFinishThrows, SendPartFails, EndChain, serverVars
  <2>2. \A d \in Conns \ {c} : file'[d] = file[d]
    BY <1>a, <1>3 DEF SessionClosed, SendFinishThrows, SendPartFails, ReadPart, Types,
                            TypedSender
  <2> QED
    BY <1>e, <2>1, <2>2, DownKeeps
<1>4. ASSUME NEW c \in Conns, SessionOpen(c) PROVE Goal
  <2>1. ASSUME NEW d \in Conns PROVE Alone(d)
    BY <1>4 DEF SessionOpen, Alone, Assigned, serverVars
  <2> QED
    BY <1>a, <2>1, AloneKeeps
<1>5. ASSUME NEW c \in Conns, SendFinish(c) PROVE Goal
  <2> DEFINE g == file[c].name
  <2>1. /\ UNCHANGED <<Rest, assigned, file, link>> /\ sending' = sending \ {c}
        /\ filePartSent' = [filePartSent EXCEPT ![ClientOf[c]] = FALSE]
        /\ reported' = reported \cup {<<c, g>>}
        /\ c \in running /\ file[c].eof /\ Transmit(c, FinishTagSent)
    BY <1>5 DEF SendFinish, AtFinish, EndChain, serverVars
  <2>2. c \in sending /\ g \in Files /\ file[c].pos = Size[g] /\ file[c].pos \in Nat
    BY <1>a, <2>1 DEF Types, Reading, TypedSender
  <2>3. \A d \in Conns \ {c} :
           /\ file'[d] = file[d] /\ wire'[d] = wire[d] /\ link'[d] = link[d]
           /\ d \in sending' <=> d \in sending
           /\ \A f \in Files : <<d, f>> \in reported' <=> <<d, f>> \in reported
    BY <1>a, <2>1 DEF Transmit, Types, TypedWire, TypedSender
  <2>4. CASE link'[c] # "up"
    BY <1>e, <2>1, <2>3, <2>4, DownKeeps
  <2>5. CASE link'[c] = "up"
    <3>1. wire'[c] = wire[c] \o FinishTagSent /\ link[c] = "up"
      BY <1>a, <2>1, <2>5 DEF Transmit, Types, TypedWire
    <3>2. Assigned(c)' = Assigned(c) /\ Unused(c)'
      BY <1>a, <2>1, <2>2, <3>1 DEF LossOf, Unused, Assigned
    <3>3. ASSUME NEW f \in Files, Assigned(c)' = {<<c, f>>}
          PROVE  /\ f = g /\ <<c, f>> \notin reported /\ <<c, f>> \in reported'
                 /\ UsedOnce(c, f)' /\ KeepsBytes(c, f)'
      <4>1. f = g /\ <<c, f>> \notin reported
        BY <1>a, <2>2, <3>1, <3>2, <3>3 DEF LossOf, UsedOnce
      <4>2. <<c, f>> \in reported'
        BY <2>1, <4>1
      <4>3. UsedOnce(c, f)'
        BY <2>1, <2>2, <4>1 DEF UsedOnce
      <4> DEFINE x == IF file[c].pos = 0 THEN <<>>
                      ELSE StartTags(f) \o Bytes("data", f, 0, file[c].pos)
      <4>4. x \in Seq(Byte)
        <5>1. 0 \in Nat
          OBVIOUS
        <5>2. Bytes("data", f, 0, file[c].pos) \in Seq(Byte) /\ StartTags(f) \in Seq(Byte)
          BY <2>2, <5>1, TagsAre, DataAre
        <5> QED
          BY <5>2, ConcatProperties, EmptySeq
      <4>5. Sent(c, f) = x \o <<>> /\ Sent(c, f)' = x \o FinishTagSent
        BY <2>1, <4>1, <4>2 DEF Sent, StartTags, Bytes, FinishTagSent
      <4> HIDE DEF x
      <4>6. Sent(c, f)' = Sent(c, f) \o FinishTagSent
        BY <4>4, <4>5, ConcatEmptySeq
      <4>7. Flowing(c, f) => Flowing(c, f)'
        BY <1>a, <2>1, <3>1, <4>6, FinishIs, PutKeepsBytes
      <4>h. Headless(c) => Headless(c)'
        BY <1>a, <2>1, <3>1, FinishIs, PutKeepsHead
      <4>8. Told(c, f) => Told(c, f)'
        BY <2>1 DEF Told, Received
      <4>9. KeepsBytes(c, f)'
        BY <1>a, <3>1, <3>2, <3>3, <4>7, <4>8, <4>h DEF LossOf, KeepsBytes
      <4> QED
        BY <4>1, <4>2, <4>3, <4>9
    <3>4. ASSUME NEW f \in Files PROVE UsedOnce(c, f)' /\ KeepsBytes(c, f)'
      BY <3>3 DEF UsedOnce, KeepsBytes
    <3> QED
      BY <1>e, <2>1, <2>3, <3>2, <3>4 DEF LossOf
  <2> QED
    BY <2>4, <2>5
<1>6. ASSUME NEW c \in Conns, SendPart(c) \/ SendNothing(c) PROVE Goal
  <2> DEFINE p == file[c].pos
             g == file[c].name
             n == ReadCount(c)
  <2>1. ReadPart(c) /\ UNCHANGED <<Rest, reported, assigned, link, sending>>
    BY <1>6 DEF SendPart, SendNothing, NextTask, serverVars
  <2>2. /\ g \in Files /\ c \in sending /\ p \in Nat /\ n \in Nat /\ Size[g] \in Nat
        /\ p + n <= Size[g] /\ (n = 0 => p = Size[g])
        /\ \A d \in Conns \ {c} : file'[d] = file[d]
        /\ file'[c].name = g /\ file'[c].pos = p + n
    BY <1>a, <2>1, ReadPartTyped DEF Types, TypedSender
  <2>3. \A d \in Conns \ {c} : wire'[d] = wire[d]
    BY <1>a, <1>6 DEF SendPart, SendNothing, Transmit, Types, TypedWire
  <2>4. CASE link'[c] # "up"
    BY <1>e, <2>1, <2>2, <2>3, <2>4, DownKeeps
  <2>5. CASE link'[c] = "up"
    <3>1. Assigned(c)' = Assigned(c) /\ Unused(c)'
      BY <1>a, <2>1, <2>2, <2>5 DEF LossOf, Unused, Assigned
    <3>2. Begins(c)
      BY <1>a DEF InOrder, OrderOf
    <3>3. ASSUME NEW f \in Files, Assigned(c)' = {<<c, f>>}
          PROVE  UsedOnce(c, f)' /\ KeepsBytes(c, f)'
      <4>1. f = g /\ <<c, f>> \notin reported /\ <<c, f>> \notin reported'
        BY <1>a, <2>1, <2>2, <2>5, <3>1, <3>3, ZenonT(30) DEF LossOf, UsedOnce
      <4>2. UsedOnce(c, f)'
        BY <2>2, <4>1 DEF UsedOnce
      <4>3. Flowing(c, f) \/ Headless(c) => Flowing(c, f)' \/ Headless(c)'
        <5>1. CASE SendNothing(c)
          <6>1. n = 0 /\ wire' = wire
            BY <5>1 DEF SendNothing
          <6>2. file'[c].pos = file[c].pos
            BY <2>2, <6>1
          <6>3. Sent(c, f)' = Sent(c, f)
            BY <2>1, <6>2, SentSame
          <6> QED
            BY <2>1, <6>1, <6>3, FlowsNext DEF Flowing, Headless
        <5>2. CASE SendPart(c)
          <6> DEFINE bytes == PartSent(c)
          <6>1. n > 0 /\ Transmit(c, bytes)
            BY <5>2 DEF SendPart, PartSent
          <6>2. bytes \in Seq(Byte)
            BY <2>2, PartTyped
          <6>3. wire'[c] = wire[c] \o bytes
            BY <1>a, <2>1, <2>5, <6>1 DEF Transmit, Types, TypedWire
          <6>4. n \in Nat \ {0} /\ file[c].name = f
            BY <2>2, <4>1, <6>1
          <6>5. CASE Headless(c)
            <7> HIDE DEF bytes
            <7> QED
              BY <1>a, <2>1, <6>2, <6>3, <6>5, PutKeepsHead
          <6>6. CASE Flowing(c, f) /\ (filePartSent[ClientOf[c]] <=> p # 0)
            <7>1. Sent(c, f)' = Sent(c, f) \o bytes
              BY <2>2, <4>1, <6>4, <6>6, SentPart
            <7> HIDE DEF bytes
            <7> QED
              BY <1>a, <2>1, <6>2, <6>3, <6>6, <7>1, PutKeepsBytes
          <6>7. CASE Flowing(c, f) /\ filePartSent[ClientOf[c]] /\ p = 0
            BY <1>a, <2>1, <2>2, <4>1, <6>3, <6>4, <6>7, SentHeadless
          <6> QED
            BY <2>2, <3>2, <6>5, <6>6, <6>7 DEF Begins
        <5> QED
          BY <1>6, <5>1, <5>2
      <4>4. Told(c, f) => Told(c, f)'
        BY <2>1 DEF Told, Received
      <4>5. KeepsBytes(c, f)'
        BY <1>a, <2>1, <2>5, <3>1, <3>3, <4>3, <4>4 DEF LossOf, KeepsBytes
      <4> QED
        BY <4>2, <4>5
    <3>4. ASSUME NEW f \in Files PROVE UsedOnce(c, f)' /\ KeepsBytes(c, f)'
      BY <3>3 DEF UsedOnce, KeepsBytes
    <3> QED
      BY <1>e, <2>1, <2>2, <2>3, <3>1, <3>4 DEF LossOf
  <2> QED
    BY <2>4, <2>5
<1>7. ASSUME NEW c \in Conns, RecvEnds(c) PROVE Goal
  <2> USE <1>7 DEF RecvEnds
  <2>1. ASSUME NEW d \in Conns \ {c} PROVE Alone(d)
    BY <1>a DEF Alone, Assigned, clientVars, Types, TypedReceiver
  <2>2. LossOf(c)'
    BY DownKeeps
  <2> QED
    BY <1>a, <2>1, <2>2, AloneKeeps
<1>8. ASSUME NEW c \in Conns, BadStart(c) PROVE Goal
  <2>1. PICK buffer \in Buffers(c) :
            /\ Recv(c, buffer)
            /\ \/ Garbled(c, NoFile, 0) /\ UNCHANGED stored
               \/ Crash
    BY <1>8 DEF BadStart
  <2>2. /\ closed \subseteq closed' /\ errors \subseteq errors'
        /\ \A d \in Conns \ {c} : /\ opened'[d] = opened[d] /\ stored'[d] = stored[d]
                                  /\ d \in dirty' => d \in dirty
        /\ \A f \in Files : Told(c, f)'
    BY <1>a, <2>1 DEF Garbled, Crash, Told, Types, TypedReceiver
  <2> QED
    BY <1>a, <2>1, <2>2, RecvKeepsLoss
<1>9. ASSUME NEW c \in Conns, OpenFails(c) PROVE Goal
  <2>1. PICK buffer \in Buffers(c) : Recv(c, buffer)
    BY <1>9 DEF OpenFails
  <2>2. /\ closed \subseteq closed' /\ errors \subseteq errors'
        /\ \A d \in Conns \ {c} : /\ opened'[d] = opened[d] /\ stored'[d] = stored[d]
                                  /\ d \in dirty' => d \in dirty
        /\ \A f \in Files : Told(c, f)'
    BY <1>9 DEF OpenFails, fileVars, Told
  <2> QED
    BY <1>a, <2>1, <2>2, RecvKeepsLoss
<1>10. ASSUME NEW c \in Conns, FirstBuffer(c) \/ NextBuffer(c) PROVE Goal
  BY <1>a, <1>10, FirstKeepsLoss, NextKeepsLoss
<1>11. CASE UNCHANGED vars
  <2>1. ASSUME NEW d \in Conns PROVE Alone(d)
    BY <1>11 DEF vars, clientVars, serverVars, Alone, Assigned
  <2> QED
    BY <1>a, <2>1, AloneKeeps
<1> QED
  BY <1>1, <1>2, <1>3, <1>4, <1>5, <1>6, <1>7, <1>8, <1>9, <1>10, <1>11
  DEF Next, SendingTask, RecvTask

\* No file is chosen yet, and every connection is as it was made.
LEMMA LossInit == Init => IInv
<1> SUFFICES ASSUME Init PROVE IInv
  OBVIOUS
<1>1. InOrder
  BY OrderInit
<1>2. SendsAssigned
  BY DEF Init, SendsAssigned
<1>3. ASSUME NEW c \in Conns PROVE LossOf(c)
  <2>1. Assigned(c) = {}
    BY DEF Init, Assigned
  <2>2. Unused(c)
    BY ConnsAssumption DEF Init, Unused
  <2>3. ASSUME NEW f \in Files PROVE UsedOnce(c, f) /\ KeepsBytes(c, f)
    BY <2>1 DEF UsedOnce, KeepsBytes
  <2> QED
    BY <2>2, <2>3 DEF LossOf
<1> QED
  BY <1>1, <1>2, <1>3 DEF IInv

\* When every byte has been taken and nobody was told of an error, the file is written.
LEMMA NothingLost == IInv => NoSilentLoss
<1> SUFFICES ASSUME IInv, NEW c \in Conns, NEW f \in Files, <<c, f>> \in reported,
                    Assigned(c) = {<<c, f>>}, wire[c] = <<>>, link[c] = "up"
             PROVE  Told(c, f) \/ Written(c, f)
  BY DEF NoSilentLoss, Told, Assigned
<1>1. Types /\ LossOf(c)
  BY DEF IInv, InOrder
<1>2. Told(c, f) \/ Flowing(c, f)
  BY <1>1 DEF LossOf, KeepsBytes, Headless
<1>3. CASE Told(c, f)
  BY <1>3
<1>4. CASE Flowing(c, f)
  <2> DEFINE x == IF file[c].pos = 0 THEN <<>>
                  ELSE StartTags(f) \o Bytes("data", f, 0, file[c].pos)
             s == stored[c]
             t == StartTags(f)
             fin == FinishTagSent
  <2>1. file[c].pos = Size[f] /\ Size[f] \in Nat
    BY <1>1, FilesAssumption DEF LossOf, UsedOnce
  <2>2. Bytes("data", f, 0, Size[f]) = Content(f)
    BY DEF Content
  <2>3. /\ t \in Seq(Byte) /\ Len(t) = StartLen /\ StartLen \in Nat
        /\ Content(f) \in Seq(Byte) /\ Len(Content(f)) = Size[f]
    BY TagsAre, LengthsAssumption
  <2>4. x = IF Size[f] = 0 THEN <<>> ELSE t \o Content(f)
    BY <2>1, <2>2
  <2>5. x \in Seq(Byte) /\ t \o Content(f) \in Seq(Byte)
    BY <2>3, <2>4, ConcatProperties, EmptySeq
  <2>6. Sent(c, f) = x \o fin
    BY DEF Sent
  <2>7. fin \in Seq(Byte) /\ Len(fin) > 0 /\ Len(fin) \in Nat
    BY FinishIs, LengthsAssumption
  <2>8. s \in Seq(Byte)
    BY <1>1 DEF Types, TypedReceiver
  <2> HIDE DEF x, s, t, fin
  <2>9. wire[c] # Sent(c, f)
    <3>1. Len(x \o fin) = Len(x) + Len(fin) /\ Len(x) \in Nat
      BY <2>5, <2>7, ConcatProperties, LenProperties
    <3>2. Len(<<>>) = 0
      BY EmptySeq
    <3> QED
      BY <2>6, <2>7, <3>1, <3>2
  <2>10. opened[c] = f /\ c \notin dirty /\ (t \o s) \o wire[c] = x \o fin
    BY <1>4, <2>6, <2>9 DEF Flowing, s, t
  <2>11. t \o s = x \o fin
    <3>1. t \o s \in Seq(Byte) /\ (t \o s) \o <<>> = x \o fin
      BY <2>3, <2>8, <2>10, ConcatProperties
    <3> QED
      BY <3>1, ConcatEmptySeq
  <2>12. IsPrefix(Content(f), s)
    <3>1. CASE Size[f] = 0
      <4>1. Len(Content(f)) <= Len(s)
        BY <2>3, <2>8, <3>1, LenProperties
      <4>2. \A i \in 1 .. Len(Content(f)) : s[i] = Content(f)[i]
        BY <2>3, <3>1
      <4> QED
        BY <2>3, <2>8, <4>1, <4>2, PrefixIs
    <3>2. CASE Size[f] # 0
      <4>1. t \o s = (t \o Content(f)) \o fin
        BY <2>4, <2>11, <3>2
      <4>2. t \o s = t \o (Content(f) \o fin)
        <5>1. (t \o Content(f)) \o fin = t \o (Content(f) \o fin)
          BY <2>3, <2>7, ConcatThree
        <5> QED
          BY <4>1, <5>1
      <4> DEFINE y == Content(f) \o fin
      <4>3. /\ y \in Seq(Byte) /\ Len(y) = Size[f] + Len(fin)
            /\ \A i \in 1 .. Size[f] : y[i] = Content(f)[i]
        <5>1. /\ y \in Seq(Byte) /\ Len(y) = Len(Content(f)) + Len(fin)
              /\ \A i \in 1 .. Len(Content(f)) + Len(fin) :
                    y[i] = IF i <= Len(Content(f)) THEN Content(f)[i]
                           ELSE fin[i - Len(Content(f))]
          BY <2>3, <2>7, ConcatProperties
        <5>2. \A i \in 1 .. Size[f] : i \in 1 .. Size[f] + Len(fin) /\ i <= Size[f]
          BY <2>1, <2>7
        <5> QED
          BY <2>3, <5>1, <5>2
      <4> HIDE DEF y
      <4>4. t \o s = t \o y
        BY <4>2 DEF y
      <4>5. s = y
        <5>1. Len(t \o s) = StartLen + Len(s) /\ Len(t \o y) = StartLen + Len(y)
          BY <2>3, <2>8, <4>3, ConcatProperties
        <5>2. Len(s) = Len(y) /\ Len(s) \in Nat
          BY <2>3, <2>8, <4>3, <4>4, <5>1, LenProperties
        <5>3. ASSUME NEW i \in 1 .. Len(s) PROVE s[i] = y[i]
          <6> DEFINE j == StartLen + i
          <6>1. j \in 1 .. StartLen + Len(s) /\ ~(j <= StartLen) /\ j - StartLen = i
            BY <2>3, <5>2
          <6> HIDE DEF j
          <6>2. (t \o s)[j] = s[j - StartLen]
            BY <2>3, <2>8, <6>1, ConcatProperties
          <6>3. (t \o y)[j] = y[j - StartLen]
            <7>1. \A k \in 1 .. Len(t) + Len(y) :
                     (t \o y)[k] = IF k <= Len(t) THEN t[k] ELSE y[k - Len(t)]
              BY <2>3, <4>3, ConcatProperties
            <7>2. j \in 1 .. Len(t) + Len(y)
              BY <2>3, <5>2, <6>1
            <7> QED
              BY <2>3, <6>1, <7>1, <7>2
          <6> QED
            BY <4>4, <6>1, <6>2, <6>3
        <5> QED
          BY <2>8, <4>3, <5>2, <5>3, SeqEqual
      <4>6. Len(Content(f)) <= Len(s) /\ \A i \in 1 .. Len(Content(f)) : s[i] = Content(f)[i]
        BY <2>1, <2>3, <2>7, <4>3, <4>5
      <4> QED
        BY <2>3, <2>8, <4>6, PrefixIs
    <3> QED
      BY <3>1, <3>2
  <2> QED
    BY <2>10, <2>12 DEF Written, s
<1> QED
  BY <1>2, <1>3, <1>4

\* Where each client sends one file at a time, a file called sent is written whole when the
\* server has taken every byte of it, or the server has reported an error or crashed:
\* neither the cuts of the stream nor an exception swallowed on either side, nor what a
\* chain that failed has left in filePartSent, lose it in silence (user_tasks.cpp:68,
\* server_parser.cpp:70).
THEOREM NothingIsLost == TurnsSpec => []NoSilentLoss
<1>1. IInv /\ OneChainEach /\ [Next /\ OneChainEach']_vars => IInv'
  BY LossStep
<1> QED
  BY <1>1, LossInit, NothingLost, InTurns, PTL DEF TurnsSpec

\* So it is where each client uses one connection, when nobody pays attention to turns.
THEOREM NothingIsLostAlone ==
    ASSUME OneConnEach
    PROVE  Spec => []NoSilentLoss
BY AloneInTurns, NothingIsLost, PTL
=============================================================================
