------------------------------ MODULE Message ------------------------------
(***************************************************************************)
(* class Message (message.h): a block of memory with the number of bytes   *)
(* in use and the number allocated.  The programs fill a Message from      *)
(* received bytes and copy it into vectors.  A byte malloc() or realloc()  *)
(* adds is Junk.  No class derives from Message to call                    *)
(* set_protected_using(), so protected_ is never set.                      *)
(***************************************************************************)
EXTENDS Integers, Sequences

CONSTANTS
    Messages,
    Bytes,          \* values of a byte
    Junk,           \* a byte nobody wrote
    MaxSize         \* bound: no block is larger (in the code 2^32 - 1)

ASSUME MessageAssumption == Junk \notin Bytes /\ MaxSize \in Nat \ {0}

VARIABLES
    buffer_,        \* the block, with its real length; <<>> for NULL
    size_,
    allocated_,
    promised        \* the bytes a message should hold after the calls made on it

vars == <<buffer_, size_, allocated_, promised>>

Contents == UNION {[1..n -> Bytes \cup {Junk}] : n \in 0..MaxSize}
Sources == UNION {[1..n -> Bytes] : n \in 1..MaxSize}

\* What is written and read lies inside the block, and its length is known: the condition
\* of every memcpy() and memmove() of message.h, and of the assertions of clear() (212-213).
TypeOK ==
    /\ buffer_ \in [Messages -> Contents]
    /\ \A m \in Messages : size_[m] \in 0..allocated_[m] /\ allocated_[m] = Len(buffer_[m])
    /\ promised \in [Messages -> Contents]

Init ==
    /\ buffer_ = [m \in Messages |-> <<>>]
    /\ size_ = [m \in Messages |-> 0]
    /\ allocated_ = [m \in Messages |-> 0]
    /\ promised = [m \in Messages |-> <<>>]

IsNull(m) == buffer_[m] = <<>>

\* malloc(n) and realloc(block, n)
Realloc(block, n) == [i \in 1..n |-> IF i <= Len(block) THEN block[i] ELSE Junk]

\* memcpy(block + at, src, n)
Memcpy(block, at, src, n) ==
    [i \in 1..Len(block) |-> IF i \in at + 1..at + n THEN src[i - at] ELSE block[i]]

Becomes(m, block, size, allocated) ==
    /\ buffer_' = [buffer_ EXCEPT ![m] = block]
    /\ size_' = [size_ EXCEPT ![m] = size]
    /\ allocated_' = [allocated_ EXCEPT ![m] = allocated]

Promise(m, bytes) == promised' = [promised EXCEPT ![m] = bytes]

-----------------------------------------------------------------------------

\* Mutant: the new length is not noted.
Room_Unnoted(m, n, grows) ==
    [block |-> IF grows THEN Realloc(buffer_[m], n) ELSE buffer_[m],
     allocated |-> allocated_[m]]

\* The block of m after a call that needs n bytes, and allocated_
Room(m, n, grows) ==
    [block |-> IF grows THEN Realloc(buffer_[m], n) ELSE buffer_[m],
     allocated |-> IF grows THEN n ELSE allocated_[m]]

\* A source of exactly the allocated length does not change size_.
SetSize(size, allocated, n) == IF n = allocated THEN size ELSE n

\* set(), also from the constructors
Set(m, src) ==
    LET n == Len(src)
        room == Room(m, n, n > allocated_[m])
        size == SetSize(size_[m], allocated_[m], n)
    IN  /\ Becomes(m, Memcpy(room.block, 0, src, size), size, room.allocated)
        /\ Promise(m, IF n = allocated_[m] THEN SubSeq(src, 1, size_[m]) ELSE src)

\* Mutant: the new bytes are put at the start.
AddAt_Front(m) == 0

AddAt(m) == size_[m]

Add(m, src) ==
    LET n == size_[m] + Len(src)
        room == Room(m, n, n > allocated_[m])
    IN  /\ ~IsNull(m) /\ n <= MaxSize
        /\ Becomes(m, Memcpy(room.block, AddAt(m), src, Len(src)), n, room.allocated)
        /\ Promise(m, promised[m] \o src)

\* The bytes promised as far as they go, then whatever the memory holds
Resized(m, block, n) == [i \in 1..n |-> IF i <= size_[m] THEN promised[m][i] ELSE block[i]]

ResizeIn(m, n, room) ==
    /\ Becomes(m, room.block, n, room.allocated)
    /\ Promise(m, Resized(m, room.block, n))

\* reserve() looks at size_: it may give memory back.
ReserveRoom(m, n) == Room(m, n, IsNull(m) \/ n > size_[m])

Reserve(m, n) == ResizeIn(m, n, ReserveRoom(m, n))

Resize(m, n) == ResizeIn(m, n, Room(m, n, n > allocated_[m]))

\* clear(), and reserve(0) of a message that has a block
Clear(m) ==
    /\ Becomes(m, <<>>, 0, 0)
    /\ Promise(m, <<>>)

\* Mutant: one byte too few is moved down.
Kept_Short(m, n) == size_[m] - n - 1

Kept(m, n) == size_[m] - n

Erase(m, n) ==
    /\ n <= size_[m] /\ ~IsNull(m)
    /\ Becomes(m, Memcpy(buffer_[m], 0, SubSeq(buffer_[m], n + 1, size_[m]), Kept(m, n)),
               size_[m] - n, allocated_[m])
    /\ Promise(m, SubSeq(promised[m], n + 1, size_[m]))

\* operator= and the copy constructor: reserve(), then set().  The programs copy no empty
\* message: that would throw, or leave a block of no bytes.
Copy(m, from) ==
    LET n == size_[from]
        room == ReserveRoom(m, n)
        size == SetSize(n, room.allocated, n)
    IN  /\ m # from /\ n > 0
        /\ Becomes(m, Memcpy(room.block, 0, buffer_[from], size), size, room.allocated)
        /\ Promise(m, promised[from])

-----------------------------------------------------------------------------

Next ==
    \E m \in Messages :
        \/ \E src \in Sources : Set(m, src) \/ Add(m, src)
        \/ \E n \in 1..MaxSize : Reserve(m, n)
        \/ \E n \in 0..MaxSize : Resize(m, n) \/ Erase(m, n)
        \/ Clear(m)
        \/ \E from \in Messages : Copy(m, from)

Spec == Init /\ [][Next]_vars

-----------------------------------------------------------------------------
(* Properties *)

\* "copy buffers" (message.h:55): a message holds what was put into it, in order, whatever
\* calls grew, shrank or shifted it - except that set() with a source of exactly the
\* allocated length keeps the smaller size the message had (message.h:128-130).
HoldsPromised == \A m \in Messages : SubSeq(buffer_[m], 1, size_[m]) = promised[m]

=============================================================================
