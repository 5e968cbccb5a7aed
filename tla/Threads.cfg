CONSTANTS
    NumTasks = 5
    FloatBits = 8
    DoubleBits = 14
    WordBits = 9
    Words = {2, 5}
    RngNext <- AnyWord
    Tickets <- ThreadTickets
    WorkUnits <- ThreadWork
    YieldPercent <- ThreadYield
    Options <- ThreadOptions
SPECIFICATION Spec
INVARIANTS
    TypeOK
    SoleRunner
    RaceFree
    NoLostWakeup
    LoopEndsFinished
    FreedAfterExit
    DispatchesAccounted
    SummaryIsFinal
    LastResultIsLogged
    SafetyInvariant
PROPERTIES
    FinishedIsTerminal
    LogPairs
