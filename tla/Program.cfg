SPECIFICATION MCSpec
CONSTANTS
    UintMax = 7
    UlongMax = 15
    NULL = NULL
    Garbled = Garbled
    Arguments <- MCArguments
    RegularFiles = {"tasks"}
    InvalidStrings = {""}
    Directory <- MCDirectory
    Creatable = {"logs", "results"}
    Unwritable = {}
    DefaultEvents = "results/e"
    DefaultSummary = "results/s"
    Disks <- MCDisks
    MinTasks = 2
    MaxTasks = 3
    TaskFiles <- MCTaskFiles
    NoYield = NoYield
    NaN = NaN
    WordSize = 3
    Shift1 = 1
    Shift2 = 2
    Shift3 = 1
    BitsOf <- MCBitsOf
INVARIANTS
    SoundRunsDoNotCrash
    EventLogIsComplete
    SummaryAgreesWithLog
    EndsClean
    DrawsAreNeverRefused
PROPERTIES
    ProgramEnds
