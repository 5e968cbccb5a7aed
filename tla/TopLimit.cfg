CONSTANTS
    NumTasks = 2
    FloatBits = 7
    DoubleBits = 13
    WordBits = 8
    Words = {1}
    RngNext <- AnyWord
    Tickets <- TopLimitTickets
    WorkUnits <- TopLimitWork
    YieldPercent <- TopLimitYield
    Options <- TopLimitOptions
SPECIFICATION Spec
INVARIANTS
    DispatchesWithinLimit
