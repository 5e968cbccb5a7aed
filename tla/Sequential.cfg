CONSTANTS
    NumTasks = 4
    FloatBits = 7
    DoubleBits = 13
    WordBits = 8
    Words = {1, 103, 105, 107, 255}
    RngNext <- AnyWord
    Tickets <- FourTickets
    WorkUnits <- FourWork
    YieldPercent <- FourYield
    Options <- FourOptions
SPECIFICATION FairSpec
INVARIANTS
    TypeOK
    DrawIsProportional
    LuckDoesNotChangeTheWork
PROPERTIES
    Halts
