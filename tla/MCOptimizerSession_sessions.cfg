CONSTANTS
    s1 = s1
    s2 = s2
    c1 = c1
    c2 = c2
    h1 = h1
    h2 = h2
    NoSession = NoSession
    Nobody = Nobody
    Sessions <- TwoSessions
    Callers <- TwoCallers
    Hardware <- TwoAttempts
    Probes = {yt}
    Youtube = {yt}
    Duplicates = {dup}
    MaxCalls = 5
SPECIFICATION Spec
SYMMETRY Symmetry
CHECK_DEADLOCK FALSE
INVARIANTS
    BorrowedIsAlive
    RunsAlone
    TornDownIsQuiet
    EndIsComplete
PROPERTIES
    ImplementsContract
