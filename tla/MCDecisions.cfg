CONSTANTS
    main = main
    second = second
    Workloads <- SomeWorkloads
    ElapsedMs = {63000, 93000}
    Transports <- SomeTransports
    Shares = {40, 100}
    DelaysMs = {250}
    SurplusBytes = 16000000
    Wrappers = {1, 2, 3}
    Casts <- SomeCasts
    Watched = {"delaySec", "bitrate", "usesStream"}
    FieldValues = {0, 1}
    MaxEpoch = 3
SPECIFICATION DecisionsSpec
CHECK_DEADLOCK FALSE
INVARIANTS
    RecommendsWhatHeld
    ReserveSuffices
    SettingsFit
    OutputsKept
    CollectorIsSafe
    ShownIsUsed
PROPERTIES
    OneSettingChanges
