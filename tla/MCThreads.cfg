CONSTANTS
    t1 = t1
    t2 = t2
    Trackers <- SomeTrackers
    Threads = {"main", "signal"}
    Stages = {"Prepare", "Outputs", "Teardown"}
    PrepareBudget = 1
    OutputStep = 2
    TeardownBudget = 2
    OutputCap = 5
    Budgets = {1, 2}
    Caps = {5}
    MaxNow = 17
    MaxActive = 2
    MaxJobs = 3
    Callers = {"c1", "c2"}
    Keys = {"k1", "k2"}
    Ids = {1, 2}
    Pointers = {"p1", "p2"}
    Videos = {"v1", "v2"}
    MaxDisplays = 2
    MaxCalls = 6
SPECIFICATION ThreadsSpec
CHECK_DEADLOCK FALSE
INVARIANTS
    BoundedShutdown
    NoneFinalizingAtTeardown
    GpuOwned
    CanvasOutlivesDisplays
    SkippedIsApplied
PROPERTIES
    KilledOnlyWhenStuck
    ThreadsEnd
