CONSTANTS
    o1 = o1
    o2 = o2
    Outputs <- AllOutputs
    Simple <- AllOutputs
    Qualities = {"Encoded"}
    Bases = {"rec"}
    MaxCounter = 2
    Settled = FALSE
    Shared = FALSE
    Splitting = FALSE
SPECIFICATION BothSpec
INVARIANTS
    NoSharedFile
    WriterHoldsClaim
    NoLeakedFinalize
    DeletionsAreClean
    KeptAreClean
PROPERTIES
    ImplementsLease
    CallReturns
