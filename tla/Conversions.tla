---------------------------- MODULE Conversions ----------------------------
(***************************************************************************)
(* The pure functions of useful.cpp and of the console.  A text is a       *)
(* sequence of characters; digits are their values, so that those of a     *)
(* number can be computed.                                                 *)
(***************************************************************************)
EXTENDS Integers, Sequences, SequencesExt, FiniteSetsExt

CONSTANTS
    Bits,           \* width of the integers that are printed (32, 64 in the code)
    AtoiBits        \* width of what check_IP() keeps of a number (16 in the code)

ASSUME ConversionsAssumption == Bits \in Nat \ {0} /\ AtoiBits \in Nat \ {0}

Digit == 0..15
Dot == 16
Blank == 17
Minus == 18
Letter == 19

-----------------------------------------------------------------------------
(* split() and trimWhiteSpace() *)

Occurs(text, what, at) ==
    /\ at + Len(what) - 1 <= Len(text)
    /\ SubSeq(text, at, at + Len(what) - 1) = what

\* Mutant: empty parts are kept.
Part_Empty(text, from, to) == <<SubSeq(text, from, to)>>

Part(text, from, to) == IF from > to THEN <<>> ELSE <<SubSeq(text, from, to)>>

Split(text, delimiter) ==
    LET Found(from) == {i \in from..Len(text) : Occurs(text, delimiter, i)}
        parts[from \in 1..Len(text) + 1] ==
            IF Found(from) = {} THEN Part(text, from, Len(text))
            ELSE Part(text, from, Min(Found(from)) - 1) \o parts[Min(Found(from)) + Len(delimiter)]
    IN  parts[1]

\* The string is cut behind its last character that is not blank, then before its first.
TrimWhiteSpace(text) ==
    LET last == Max({0} \cup {i \in 1..Len(text) : text[i] # Blank})
        first == Min({last + 1} \cup {i \in 1..last : text[i] # Blank})
    IN  SubSeq(text, first, last)

-----------------------------------------------------------------------------
(* Numbers *)

\* The digits of a number in a base, the loop of uitoa_impl() and of u2hex()
DigitsIn(base, number) ==
    LET digits[n \in 0..number] ==
            IF n < base THEN <<n>> ELSE Append(digits[n \div base], n % base)
    IN  digits[number]

Unsigned(number) == number % (2 ^ Bits)

\* Mutant: the sign is dropped before the number is cut to its width.
Itoa_Unsigned(number) == DigitsIn(10, Unsigned(number))

Itoa(number) ==
    IF number < 0 THEN <<Minus>> \o DigitsIn(10, Unsigned(-number)) ELSE DigitsIn(10, number)

\* MAX_INT32_STR_SIZE and MAX_INT64_STR_SIZE: the buffers of tostring()
BufferSize == 1 + Len(DigitsIn(10, 2 ^ (Bits - 1) - 1))

Overrun == <<-1>>

\* tostring(): the digits are written from the end of the buffer to its start.
Tostring(number) == IF Len(Itoa(number)) <= BufferSize THEN Itoa(number) ELSE Overrun

U2hex(number, width) ==
    LET digits == DigitsIn(16, number)
    IN  [i \in 1..(IF width > Len(digits) THEN width - Len(digits) ELSE 0) |-> 0] \o digits

\* atoi(), atol(): the digits the text starts with, and a sign before them
Atoi(text) ==
    LET signed == text # <<>> /\ Head(text) = Minus
        rest == IF signed THEN Tail(text) ELSE text
        ends == {n \in 0..Len(rest) : \A i \in 1..n : rest[i] \in 0..9}
        number == FoldLeft(LAMBDA sum, d : 10 * sum + d, 0,
                           SubSeq(rest, 1, Max(ends)))
    IN  IF signed THEN -number ELSE number

-----------------------------------------------------------------------------
(* check_IP() of the console *)

Refused == <<>>

\* Mutant: one part too many is no error.
IsAddress_Long(parts) == Len(parts) >= 4

IsAddress(parts) == Len(parts) = 4

CheckIP(text) ==
    LET parts == Split(text, <<Dot>>)
        number(i) == Atoi(parts[i]) % (2 ^ AtoiBits)
    IN  IF IsAddress(parts) /\ \A i \in 1..Len(parts) : number(i) \in 0..255
        THEN Tail(FoldLeftDomain(LAMBDA sum, i : sum \o <<Dot>> \o Tostring(number(i)), <<>>, parts))
        ELSE Refused

-----------------------------------------------------------------------------
(* The time at which Condition::timed_wait() gives up *)

\* Mutant: the carry is lost.
Deadline_NoCarry(sec, usec, timeout) ==
    [sec |-> sec + timeout \div 1000,
     nsec |-> (usec * 1000 + (timeout % 1000) * 1000000) % 1000000000]

Deadline(sec, usec, timeout) ==
    LET nanoSeconds == usec * 1000 + (timeout % 1000) * 1000000
    IN  [sec |-> sec + timeout \div 1000 + nanoSeconds \div 1000000000,
         nsec |-> nanoSeconds % 1000000000]

=============================================================================
