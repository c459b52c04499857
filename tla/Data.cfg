\* Two messages of up to three bytes; numbers of nine bits, addresses cut to sixteen.
CONSTANTS
    a = a
    b = b
    Messages <- MCMessages
    Bytes = {1, 2}
    Junk = 0
    MaxSize = 3
    Bits = 9
    AtoiBits = 16
SPECIFICATION DataSpec
INVARIANTS
    TypeOK
    HoldsPromised
    ConversionsRight
CHECK_DEADLOCK FALSE
