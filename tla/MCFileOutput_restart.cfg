CONSTANTS
    o1 = o1
    o2 = o2
    Outputs <- AllOutputs
    Simple <- NoOutputs
    Qualities = {"Encoded"}
    Bases = {"rec"}
    MaxCounter = 3
    Settled = FALSE
    Shared = FALSE
    Splitting = FALSE
SPECIFICATION Spec
INVARIANTS
    NoSharedFile
