CONSTANTS
    junk = junk
    Runs = {1, 2}
    MaxEvents = 1
    MaxFaults = 1
    MaxCalls = 2
    MaxSources = 4
    Present <- ThreeSources
    Names = {"m", "n"}
    Types = {"game_capture", "screen_capture"}
    Restless <- SelfChanging
    SourceValues = {0, 1}
    MaxSourceCalls = 3
    Scenes = {a, b}
    MaxItems = 2
    Values = {0, 1}
    MaxItemCalls = 5
    simple = simple
    advanced = advanced
    multitrack = multitrack
    simpleBuffer = simpleBuffer
    advancedBuffer = advancedBuffer
    twitch = twitch
    youtube = youtube
    Simples = {simple}
    Advanceds = {advanced, multitrack}
    Broadcasts = {multitrack}
    SimpleReplays = {simpleBuffer}
    AdvancedReplays = {advancedBuffer}
    Protocol <- TwoServices
    Twitch = {twitch}
    Capped = {twitch}
    VideoEncoders = {v1}
    AudioEncoders = {e1}
    Tracks = {1, 2}
    Copies = 8
    MaxStarts = 2
    MaxSets <- ObjectsUsed
    Recorder = Recorder
    RecorderAudio = RecorderAudio
    MultipleRendering = TRUE
    Nil = Nil
SPECIFICATION ClientSpec
CHECK_DEADLOCK FALSE
INVARIANTS
    CacheIsHonest
    ManagedIsAlive
    EntriesTrue
    PropertiesArrive
    OneRunAtATime
    EncodersOwned
PROPERTIES
    TrackerOutlivesCallback
    SendsWhatIsSet
