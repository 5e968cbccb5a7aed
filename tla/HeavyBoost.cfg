CONSTANTS
    NumTasks = 3
    FloatBits = 7
    DoubleBits = 13
    WordBits = 8
    Words = {1, 100, 200}
    RngNext <- AnyWord
    Tickets <- HeavyTickets
    WorkUnits <- HeavyWork
    YieldPercent <- HeavyYield
    Options <- HeavyOptions
SPECIFICATION Spec
INVARIANTS
    EveryReadyTaskCanWin
