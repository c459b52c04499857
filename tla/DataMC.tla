------------------------------- MODULE DataMC -------------------------------
(***************************************************************************)
(* Message on a small instance, and the functions of Conversions on many   *)
(* inputs: a text or a number is picked in the initial state.  Messages    *)
(* are used where nothing was picked.                                      *)
(***************************************************************************)
EXTENDS Message, Conversions

CONSTANTS a, b

MCMessages == {a, b}

VARIABLES text, number

SmallTexts == UNION {[1..n -> {1, Dot, Blank}] : n \in 0..5}

\* What may stand between the dots of an address
Parts == {<<>>, <<0>>, <<0, 7>>, <<2, 5, 5>>, <<2, 5, 6>>, <<Minus, 1>>, <<8, Letter>>, <<Letter>>}

Joined(p, n) == FoldLeft(LAMBDA sum, i : sum \o <<Dot>> \o p[i], p[1], [i \in 1..n - 1 |-> i + 1])

Addresses == UNION {{Joined(p, n) : p \in [1..n -> Parts]} : n \in {3, 4}}
    \cup {Joined([i \in 1..5 |-> p], 5) : p \in Parts}

\* Every signed number of the width
Numbers == -(2 ^ (Bits - 1))..2 ^ (Bits - 1) - 1

DataInit ==
    /\ Init
    /\ \/ text \in SmallTexts \cup Addresses /\ number = 0
       \/ text = <<>> /\ number \in Numbers

DataNext == text = <<>> /\ number = 0 /\ Next /\ UNCHANGED <<text, number>>

DataSpec == DataInit /\ [][DataNext]_<<vars, text, number>>

-----------------------------------------------------------------------------
(* Reference definitions and what they are compared with *)

\* The longest pieces of t without the character c, from the left
Runs(t, c) ==
    LET ends == {r \in (1..Len(t)) \X (1..Len(t)) :
                    /\ r[1] <= r[2] /\ \A i \in r[1]..r[2] : t[i] # c
                    /\ r[1] = 1 \/ t[r[1] - 1] = c
                    /\ r[2] = Len(t) \/ t[r[2] + 1] = c}
        sorted == SetToSortSeq(ends, LAMBDA r, s : r[1] < s[1])
    IN  [i \in 1..Len(sorted) |-> SubSeq(t, sorted[i][1], sorted[i][2])]

SplitIsRuns ==
    /\ Split(text, <<Dot>>) = Runs(text, Dot)
    /\ \A part \in ToSet(Split(text, <<Dot, Dot>>)) :
          part # <<>> /\ \A i \in 1..Len(part) : ~Occurs(part, <<Dot, Dot>>, i)

TrimKeepsTheInk ==
    LET t == TrimWhiteSpace(text)
    IN  /\ t # <<>> => Head(t) # Blank /\ Last(t) # Blank
        /\ \E i, j \in 0..Len(text) :
              text = [k \in 1..i |-> Blank] \o t \o [k \in 1..j |-> Blank]

\* Also for the number of which the negative does not fit
PrintedIsRead ==
    /\ Tostring(number) # Overrun
    /\ Atoi(Tostring(number)) = number
    /\ \A width \in 0..3 :
          LET hex == U2hex(Unsigned(number), width)
          IN  /\ FoldLeft(LAMBDA sum, d : 16 * sum + d, 0, hex) = Unsigned(number)
              /\ Len(hex) >= width /\ (hex[1] = 0 => Len(hex) <= width \/ number = 0)

\* What is accepted has four numbers of 0 to 255 without leading zeros, and is accepted as
\* it is when typed again; an address that is already so is not changed.
AddressIsCanonical ==
    LET ip == CheckIP(text)
        canonical(t) ==
            /\ Cardinality({i \in 1..Len(t) : t[i] = Dot}) = 3
            /\ Len(Runs(t, Dot)) = 4
            /\ \A part \in ToSet(Runs(t, Dot)) :
                  \E n \in 0..255 : part = DigitsIn(10, n)
    IN  /\ ip # Refused => canonical(ip) /\ CheckIP(ip) = ip
        /\ canonical(text) => ip = text

Times == {0, 1, 999, 1000, 1001, 1999, 60500}

DeadlineIsExact ==
    \A usec \in {0, 1, 999, 1000, 500000, 999999}, timeout \in Times :
        LET d == Deadline(7, usec, timeout)
        IN  /\ d.nsec \in 0..999999999 /\ d.nsec % 1000 = 0
            /\ (d.sec - 7) * 1000000 + d.nsec \div 1000 = usec + timeout * 1000

\* The pure functions agree with their reference definitions on every input: pieces are
\* the longest without a delimiter (useful.cpp:100-139), only blanks are trimmed, a number
\* fits its buffer and is read back as it was (useful.cpp:243-257), an accepted address is
\* well formed ("IP4 address form validation", mainframe.cpp:8), a deadline is not too
\* early or late and its nanoseconds are in range (condition.cpp:131-141).
ConversionsRight ==
    SplitIsRuns /\ TrimKeepsTheInk /\ PrintedIsRead /\ AddressIsCanonical /\ DeadlineIsExact

=============================================================================
