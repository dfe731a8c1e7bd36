CONSTANTS
    s1 = s1
    s2 = s2
    e1 = e1
    e2 = e2
    Sources <- TwoSources
    Editors <- OneEditor
    Files = {"small", "big"}
    Size <- SizeOf
    Budget = 2
    JobsPerTick = 1
    MaxPolls = 1
    SavedCaching = {FALSE}
    AuxViews = FALSE
    MaxEvents = 2
SPECIFICATION Spec
SYMMETRY Symmetry
CHECK_DEADLOCK FALSE
INVARIANTS
    CachesAreAccounted
