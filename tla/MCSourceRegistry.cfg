CONSTANTS
    in = in
    tr = tr
    c1 = c1
    c2 = c2
    NoSource = NoSource
    Sources <- MCSources
    Transitions = {tr}
    Names = {n1, n2}
    Meters = {m}
    Callers <- MCCallers
    MaxCalls = 6
SPECIFICATION FairSpec
CHECK_DEADLOCK FALSE
INVARIANTS
    NothingDangles
PROPERTIES
    CallsReturn
