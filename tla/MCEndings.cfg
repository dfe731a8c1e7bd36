CONSTANTS
    c1 = c1
    c2 = c2
    h1 = h1
    h2 = h2
    NoSession = NoSession
    Nobody = Nobody
    Sessions = {s1}
    Callers <- TwoCallers
    Hardware <- TwoAttempts
    Probes = {yt, tw}
    Youtube = {yt}
    Duplicates = {dup}
    MaxCalls = 3
SPECIFICATION EndingsSpec
CHECK_DEADLOCK FALSE
PROPERTIES
    RunsSettle
