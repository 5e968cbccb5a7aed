CONSTANTS
    NumTasks = 3
    FloatBits = 8
    DoubleBits = 14
    WordBits = 9
    Words = {2, 3, 4}
    RngNext <- AnyWord
    Tickets <- ModeTickets
    WorkUnits <- ModeWork
    YieldPercent <- ModeYield
    Options <- ModeOptions
SPECIFICATION FairSpec
INVARIANTS
    FinishedShortOnlyByLimit
    DispatchesWithinLimit
    WorkMatchesDispatches
    CompensationIsCurrent
    EveryReadyTaskCanWin
PROPERTIES
    ImplementsSequential
    Terminates
    DispatchEnds
    ImplementsFairSequential
