SPECIFICATION FairSpec
CONSTANTS
    Node = {n1, n2, n3, n4}
    Id = {i1, i2}
    NULL = NULL
    Indeterminate = Indeterminate
INVARIANTS
    WellLinked
PROPERTIES
    CallReturns
    ImplementsSequence
