SPECIFICATION Spec
CONSTANTS
    FloatBits = 11
    DoubleBits = 17
    WordBits = 12
    WorkUnits <- MCWorkUnits
    Tickets <- MCTickets
    SlicePercents = {1, 3, 7, 10, 35, 50, 100}
    Quanta <- MCQuanta
    YieldPercents = {10, 33, 70, 99, 100}
INVARIANTS
    SmallWorkIsCutExactly
    CompensationIsFair
PROPERTIES
    DispatchWithinAllotment
CHECK_DEADLOCK FALSE
