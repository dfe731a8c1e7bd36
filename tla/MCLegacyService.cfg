CONSTANTS
    main = main
    Services = {main}
    Configs <- PlainConfigs
    Plays <- OneStream
    MaxCalls = 4
    Patient = FALSE
SPECIFICATION Spec
CHECK_DEADLOCK FALSE
INVARIANTS
    StopReachesStream
