CONSTANTS
    s1 = s1
    s2 = s2
    e1 = e1
    e2 = e2
    Sources <- OneSource
    Editors <- TwoEditors
    Files = {"small", "big"}
    Size <- SizeOf
    Budget = 2
    JobsPerTick = 1
    MaxPolls = 2
    SavedCaching = {FALSE, TRUE}
    AuxViews = TRUE
    MaxEvents = 2
SPECIFICATION FairSpec
CHECK_DEADLOCK FALSE
INVARIANTS
    EstimateOfFile
PROPERTIES
    ComesToRest
