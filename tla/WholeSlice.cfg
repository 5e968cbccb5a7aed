SPECIFICATION Spec
CONSTANTS
    FloatBits = 11
    DoubleBits = 17
    WordBits = 12
    WorkUnits = {4095}
    Tickets = {1}
    SlicePercents = {100}
    Quanta = {100}
    YieldPercents = {100}
INVARIANTS
    SliceIsTheShare
CHECK_DEADLOCK FALSE
