SPECIFICATION MCSpec
CONSTANTS
    MinTasks = 2
    MaxTasks = 3
    UintMax = 9
    TaskFiles <- MCTaskFiles
    NoYield = NoYield
    NaN = NaN
INVARIANT IdsIndexThreads
