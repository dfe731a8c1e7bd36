----------------------------- MODULE MCDecisions -----------------------------
(* What the server decides from call to call, on small instances: the        *)
(* bandwidth test of the auto-optimizer, the settings, the outputs of        *)
(* nodeobs_service.cpp, and the objects of the second interface's outputs.   *)
(* A behaviour uses one of them.                                             *)
EXTENDS YoutubeRamp, SettingsSamples, OutputObjects

CONSTANTS main, second

VARIABLES part,
    heap, isStreaming, isRecording, isReplayBufferActive, rpUsesRec, rpUsesStream,
    usingRecordingPreset, context, worker, call, outputSignal, sees, calls, plays,
    stored, currentAudioSettings, streaming, recording, change, typedFor, saves

\* Two outputs that share the upload, one output, and services that cap the
\* ladder at its first rung and between two rungs.
SomeWorkloads ==
    {[shared |-> TRUE, perOutput |-> 8000, platformCap |-> 0]}
    \cup {[shared |-> FALSE, perOutput |-> 6000, platformCap |-> c] : c \in {0, 1000, 5000}}

\* A clean, a marginal and a hard one.
SomeTransports ==
    {[drop |-> 150, congestion |-> 150], [drop |-> 300, congestion |-> 300], [drop |-> 600, congestion |-> 2000]}

Pages == INSTANCE Settings WITH Offered <- SomeSettings, Default <- FreshSettings, MaxSaves <- 3

pageVars == <<stored, currentAudioSettings, streaming, recording, change, typedFor, saves>>

\* The settings that make a start choose its encoders differently, and two
\* frontends: one with two streams, one with a stream and both recordings.
Simple == [simple |-> TRUE, compatible |-> TRUE, usesStream |-> TRUE, lossless |-> FALSE, multitrack |-> FALSE,
           twitch |-> TRUE, vod |-> TRUE, multipleRendering |-> FALSE, replayOfRecording |-> TRUE]
SomeConfigs ==
    {Simple, [Simple EXCEPT !.multitrack = TRUE, !.lossless = TRUE], [Simple EXCEPT !.multipleRendering = TRUE],
     [Simple EXCEPT !.multipleRendering = TRUE, !.replayOfRecording = FALSE, !.vod = FALSE],
     [Simple EXCEPT !.simple = FALSE, !.twitch = FALSE], [Simple EXCEPT !.compatible = FALSE]}
SomeStreams == {main, second}
SomePlays == {{main, second}, {main, "recording", "replay-buffer"}}

Outputs == INSTANCE LegacyService WITH
    Services <- SomeStreams, Configs <- SomeConfigs, Plays <- SomePlays, MaxCalls <- 3, Patient <- TRUE

outputVars == <<heap, isStreaming, isRecording, isReplayBufferActive, rpUsesRec, rpUsesStream,
                usingRecordingPreset, context, worker, call, outputSignal, sees, calls, plays>>
\* The plays differ only where they are used.
NoOutputs == plays = CHOOSE p \in SomePlays : TRUE

NoRamp ==
    /\ workload = [shared |-> FALSE, perOutput |-> 6000, platformCap |-> 0]
    /\ share = 100
    /\ remainingMs = limits.timeoutMs - 93000

\* Outputs and what they borrow, three wrappers in every case.
SomeCasts == {
    <<"SimpleStreaming", "VideoEncoder", "VideoEncoder">>,
    <<"SimpleStreaming", "AudioEncoder", "Reconnect">>,
    <<"AdvancedStreaming", "Delay", "Delay">>,
    <<"EnhancedBroadcastingSimpleStreaming", "Service", "Network">>,
    <<"SimpleStreaming", "SimpleRecording", "SimpleReplayBuffer">>,
    <<"AdvancedStreaming", "AdvancedRecording", "AdvancedReplayBuffer">>,
    <<"AdvancedReplayBuffer", "AdvancedRecording", "VideoEncoder">>,
    <<"SimpleRecording", "VideoEncoder", "AudioEncoder">>}
NoObjects == cast = CHOOSE c \in SomeCasts : TRUE

DecisionsInit ==
    /\ part \in {"ramp", "settings", "outputs", "objects"}
    /\ Init /\ (part # "ramp" => NoRamp)
    /\ Pages!Init
    /\ Outputs!Init /\ (part # "outputs" => NoOutputs)
    /\ ObjectsInit /\ (part # "objects" => NoObjects)
DecisionsNext ==
    \/ part = "ramp" /\ Next /\ UNCHANGED <<part, pageVars, outputVars, objectVars>>
    \/ part = "settings" /\ Pages!Next /\ UNCHANGED <<part, vars, outputVars, objectVars>>
    \/ part = "outputs" /\ Outputs!Next /\ UNCHANGED <<part, vars, pageVars, objectVars>>
    \/ part = "objects" /\ ObjectsNext /\ UNCHANGED <<part, vars, pageVars, outputVars>>
DecisionsSpec == DecisionsInit /\ [][DecisionsNext]_<<part, vars, pageVars, outputVars, objectVars>>

OutputsKept == Outputs!OutputsKept
OneSettingChanges == Pages!OneSettingChanges
SettingsFit == Pages!SettingsFit
=============================================================================
