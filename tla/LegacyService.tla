---------------------------- MODULE LegacyService ----------------------------
(* The streams, the recording and the replay buffer of the first interface,  *)
(* nodeobs_service.cpp: one output of each in global variables, encoders in  *)
(* global variables which outputs share, flags that callbacks of libobs      *)
(* reset, a queue of signals the client polls, and one worker thread that    *)
(* releases the output of a stream that was stopped.                         *)
(*                                                                           *)
(* heap.outputs and heap.encoders are the libobs objects in the order of     *)
(* their creation, heap.holds and heap.enc the global variables, 0 being     *)
(* nullptr.  A handler of the server is one step except where another thread *)
(* can come between: startStreaming() lets go of the old output in a first   *)
(* and makes the new one in a second step, stopStreaming() waits for the     *)
(* worker.  The frontend starts what it has seen end, as the tests do;       *)
(* Patient makes it read every signal before the next call and start a       *)
(* stream again only when the worker, of which no call tells it, has ended.  *)
EXTENDS Integers, Sequences, FiniteSets, Functions, SequencesExt

CONSTANTS Services,  \* the streams: StreamServiceId::Main and Second
          main,      \* StreamServiceId::Main
          Configs,   \* the settings a start may find
          Plays,     \* sets of outputs; a behaviour starts those of one
          MaxCalls,  \* how many calls the frontend makes
          Patient    \* whether calls wait for signals, and a start for its worker

VARIABLES heap, isStreaming, isRecording, isReplayBufferActive, rpUsesRec, rpUsesStream,
    usingRecordingPreset, context, worker, call, outputSignal, sees, calls, plays

flags == <<isRecording, isReplayBufferActive, rpUsesRec, rpUsesStream, usingRecordingPreset>>
vars == <<heap, isStreaming, flags, context, worker, call, outputSignal, sees, calls, plays>>

Kinds == Services \cup {"recording", "replay-buffer"}
Streams == {"video", "audio"} \X Services
Slots == Streams \cup {<<"video", "recording">>, <<"audio", "recording">>, <<"audio", "tracks">>, <<"audio", "archive">>}
Running == {"connecting", "active", "stopping"}

-----------------------------------------------------------------------------
(* libobs: objects with references.  The last release of an output that runs *)
(* stops it first; the last release of an encoder in use takes effect when   *)
(* its output stops.  archive is the second audio track of an output.        *)
Uses(output) == Range(output.uses) \cup {output.archive}
EncoderActive(h, e) ==
    e # 0 /\ \E o \in DOMAIN h.outputs : h.outputs[o].phase \in {"active", "stopping"} /\ e \in Uses(h.outputs[o])
EncoderAlive(h, e) == e # 0 /\ (h.encoders[e] > 0 \/ EncoderActive(h, e))

releaseEncoder(h, e) == IF e = 0 THEN h ELSE [h EXCEPT !.encoders[e] = @ - 1]
releaseOutput(h, o) ==
    IF o = 0 THEN h
    ELSE [h EXCEPT !.outputs[o].refs = @ - 1,
                   !.outputs[o].phase = IF h.outputs[o].refs = 1 THEN "idle" ELSE @]

\* The last release waits for an output that is ending.
ReleaseWaits(h, o) == o # 0 /\ h.outputs[o].refs = 1 /\ h.outputs[o].phase = "stopping"

NewOutput(kind) == [kind |-> kind, refs |-> 1, phase |-> "idle", uses |-> <<>>, archive |-> 0]
obs_output_create(h, kind) ==
    [h EXCEPT !.outputs = Append(@, NewOutput(kind)),
              !.holds[kind] = Len(h.outputs) + 1]
Phase(h, kind) == IF h.holds[kind] = 0 THEN "idle" ELSE h.outputs[h.holds[kind]].phase

\* A new encoder in a slot: the setters release what the slot held,
\* createAudioEncoder() writes over it.
overwriteEncoder(h, slot) ==
    [h EXCEPT !.encoders = Append(@, 1), !.enc[slot] = Len(h.encoders) + 1]
setEncoder(h, slot) == overwriteEncoder(releaseEncoder(h, h.enc[slot]), slot)
clearEncoder(h, slot) == [releaseEncoder(h, h.enc[slot]) EXCEPT !.enc[slot] = 0]

-----------------------------------------------------------------------------
(* The encoders a start leaves behind, by the settings it finds.             *)

\* An audio encoder in use is kept, any other one is made anew.
updateAudioStreamingEncoder(h, s) ==
    IF EncoderActive(h, h.enc[<<"audio", s>>]) THEN h
    ELSE overwriteEncoder(clearEncoder(h, <<"audio", s>>), <<"audio", s>>)

\* The simple mode makes the video encoder anew, the advanced mode has made
\* it when its settings were saved.
updateVideoStreamingEncoder(h, s, c) ==
    IF EncoderActive(h, h.enc[<<"video", s>>]) \/ ~c.simple THEN h ELSE setEncoder(h, <<"video", s>>)

\* Mutant: the encoders of a stream that has started are made anew.
alwaysUpdateEncoders(h, s, c) == updateVideoStreamingEncoder(updateAudioStreamingEncoder(h, s), s, c)

updateStreamingEncoders(h, s, c) ==
    IF isStreaming[s] THEN h ELSE updateVideoStreamingEncoder(updateAudioStreamingEncoder(h, s), s, c)

duplicate_encoder(h, slot, source) == IF h.enc[source] = 0 THEN h ELSE setEncoder(h, slot)

\* What a replay buffer records with is left alone while a recording runs.
updateAudioRecordingEncoder(h, c) ==
    IF (isRecording /\ rpUsesRec) \/ ~c.simple THEN h ELSE overwriteEncoder(h, <<"audio", "recording">>)
updateVideoRecordingEncoder(h, c) ==
    IF (isRecording /\ rpUsesRec) \/ ~c.simple THEN h ELSE setEncoder(h, <<"video", "recording">>)

usesStream(c) == c.usesStream /\ ~c.multitrack
useStreamEncoder(c) == usesStream(c) /\ ~c.multipleRendering

updateRecordingEncoders(h, c) ==
    LET streamAudio == IF isStreaming[main] THEN h ELSE updateAudioStreamingEncoder(h, main)
        audio == CASE ~c.simple -> updateAudioRecordingEncoder(h, c)
                   [] c.multipleRendering -> duplicate_encoder(streamAudio, <<"audio", "recording">>, <<"audio", main>>)
                   [] OTHER -> streamAudio
        video == IF isStreaming[main] THEN audio ELSE updateVideoStreamingEncoder(audio, main, c)
    IN  IF ~usesStream(c) THEN updateVideoRecordingEncoder(updateAudioRecordingEncoder(h, c), c)
        ELSE IF c.multipleRendering THEN duplicate_encoder(video, <<"video", "recording">>, <<"video", main>>)
        ELSE video

\* What a recording or a replay buffer is given.
UsesFor(h, stream, c) ==
    <<IF stream THEN h.enc[<<"video", main>>] ELSE h.enc[<<"video", "recording">>],
      CASE ~c.simple -> h.enc[<<"audio", "tracks">>]
        [] stream -> h.enc[<<"audio", main>>]
        [] OTHER -> h.enc[<<"audio", "recording">>]>>

\* The second audio track of the first stream, if that is Twitch's: made
\* anew by the start of any stream unless it is in use, and given to the
\* output of the first, which takes no encoder while it runs.
obs_output_set_audio_encoder(h, o, e) ==
    IF o = 0 \/ h.outputs[o].phase \in {"active", "stopping"} THEN h ELSE [h EXCEPT !.outputs[o].archive = e]
clearArchiveVodEncoder(h) == clearEncoder(h, <<"audio", "archive">>)
setupVodTrack(h, c) ==
    LET made == overwriteEncoder(clearArchiveVodEncoder(h), <<"audio", "archive">>)
    IN  CASE ~c.twitch \/ EncoderActive(h, h.enc[<<"audio", "archive">>]) -> h
          [] c.vod -> obs_output_set_audio_encoder(made, made.holds[main], made.enc[<<"audio", "archive">>])
          [] OTHER -> clearArchiveVodEncoder(h)

-----------------------------------------------------------------------------
Init ==
    \* OBS_API::initAPI(): every output and encoder is made once.
    LET made == SetToSeq(Kinds) IN
    /\ heap = [outputs |-> [o \in 1..Len(made) |-> NewOutput(made[o])],
               holds |-> [k \in Kinds |-> CHOOSE o \in 1..Len(made) : made[o] = k],
               encoders |-> <<1, 1, 1, 1>>,
               enc |-> [x \in Slots |-> IF x = <<"video", main>> THEN 1
                                        ELSE IF x[1] = "video" /\ x[2] \in Services THEN 2
                                        ELSE IF x = <<"video", "recording">> THEN 3
                                        ELSE IF x = <<"audio", "tracks">> THEN 4 ELSE 0]]
    /\ isStreaming = [s \in Services |-> FALSE]
    /\ isRecording = FALSE /\ isReplayBufferActive = FALSE
    /\ rpUsesRec = FALSE /\ rpUsesStream = FALSE /\ usingRecordingPreset = TRUE
    /\ context = [output |-> 0, encoder |-> 0]
    /\ worker = [at |-> "none", service |-> main]
    /\ call = <<"none">>
    /\ outputSignal = <<>>
    /\ sees = [k \in Kinds |-> "off"]
    /\ calls = 0 /\ plays \in Plays

Idle == call = <<"none">> /\ calls < MaxCalls /\ (Patient => outputSignal = <<>>)
CanStart(k) ==
    Idle /\ k \in plays /\ sees[k] = "off" /\ (Patient => worker.at = "none" \/ k # worker.service)
Started(k) == calls' = calls + 1 /\ sees' = [sees EXCEPT ![k] = "starting"]
Report(k, signal) == outputSignal' = Append(outputSignal, <<k, signal>>)

\* How obs_output_start() ends: refused; started; or started and, before the
\* handler has set its flag, already stopped with an error.
Outcomes == {"refused", "started", "failed"}
\* libobs refuses an output that lacks an encoder.
AllThere(h, uses) == \A e \in Range(uses) : EncoderAlive(h, e)

\* A stream connects first; what writes to a file records at once.
startOutput(h, kind, uses, outcome) ==
    [h EXCEPT !.outputs[h.holds[kind]].uses = uses,
              !.outputs[h.holds[kind]].phase = CASE outcome # "started" -> "idle"
                                                 [] kind \in Services -> "connecting"
                                                 [] OTHER -> "active"]
SignalOfStart(kind, outcome) ==
    IF outcome # "started" THEN Report(kind, "stop")
    ELSE IF kind \in Services THEN UNCHANGED outputSignal ELSE Report(kind, "start")

\* OBS_service_startStreaming() and the head of startStreaming().
StartStreaming(s, c) ==
    /\ CanStart(s) /\ Started(s)
    /\ IF Phase(heap, s) \in {"active", "stopping"} THEN UNCHANGED <<heap, call>>
       ELSE /\ heap' = [releaseOutput(heap, heap.holds[s]) EXCEPT !.holds[s] = 0]
            /\ call' = IF c.compatible THEN <<"start", s, c>> ELSE <<"none">>
    /\ UNCHANGED <<isStreaming, flags, context, worker, outputSignal>>

\* startSingleTrackStreaming().  The "stop" of a refused start names no
\* stream, and SignalInfo() takes that for the first.
StartSingleTrack(s, c, outcome) ==
    LET created == obs_output_create(heap, s)
        ready == setupVodTrack(updateStreamingEncoders(created, s, c), c)
        uses == <<ready.enc[<<"video", s>>], ready.enc[<<"audio", s>>]>>
    IN  /\ ~c.multitrack
        /\ outcome = "refused" \/ AllThere(ready, uses)
        /\ heap' = startOutput(ready, s, uses, outcome)
        /\ isStreaming' = [isStreaming EXCEPT ![s] = outcome # "refused"]
        /\ SignalOfStart(IF outcome = "refused" THEN main ELSE s, outcome)
        /\ UNCHANGED context

\* The context is emptied, whichever stream it is of.
resetContext(h) == releaseEncoder(releaseOutput(h, context.output), context.encoder)

\* startMultiTrackStreaming(): the output is held twice, by its variable and
\* by the context, whose earlier content goes; its encoders are the context's,
\* not those other outputs share.  A refused start is told to nobody.
StartMultiTrack(s, c, outcome) ==
    LET created == obs_output_create(heap, s)
        o == created.holds[s]
        e == Len(heap.encoders) + 1
        twice == [created EXCEPT !.outputs[o].refs = 2, !.encoders = Append(@, 1)]
    IN  /\ c.multitrack /\ ~ReleaseWaits(heap, context.output)
        /\ heap' = startOutput(resetContext(twice), s, <<>>, outcome)
        /\ context' = [output |-> o, encoder |-> e]
        /\ isStreaming' = [isStreaming EXCEPT ![s] = outcome # "refused"]
        /\ IF outcome = "failed" THEN Report(s, "stop") ELSE UNCHANGED outputSignal

\* No output, or no configuration for several tracks: told to nobody.
MakeNothing == UNCHANGED <<heap, context, isStreaming, outputSignal>>

FinishStart ==
    /\ call[1] = "start"
    /\ \/ \E outcome \in Outcomes :
             StartSingleTrack(call[2], call[3], outcome) \/ StartMultiTrack(call[2], call[3], outcome)
       \/ MakeNothing
    /\ call' = <<"none">>
    /\ UNCHANGED <<flags, worker, sees, calls>>

\* stopStreaming(): what runs is stopped and the worker that releases the
\* stream that was stopped before is waited for.
StopStreaming(s) ==
    /\ Idle /\ sees[s] = "on"
    /\ calls' = calls + 1 /\ sees' = [sees EXCEPT ![s] = "stopping"]
    /\ IF Phase(heap, s) \in Running
       THEN /\ heap' = [heap EXCEPT !.outputs[heap.holds[s]].phase = "stopping"]
            /\ call' = <<"join", s>>
            /\ UNCHANGED isStreaming
       ELSE isStreaming' = [isStreaming EXCEPT ![s] = FALSE] /\ UNCHANGED <<heap, call>>
    /\ UNCHANGED <<flags, context, worker, outputSignal>>

waitReleaseWorker == worker.at = "none"

FinishStop(s) ==
    /\ call = <<"join", s>> /\ waitReleaseWorker
    /\ worker' = [at |-> "archive", service |-> s]
    /\ isStreaming' = [isStreaming EXCEPT ![s] = FALSE]
    /\ call' = <<"none">>
    /\ UNCHANGED <<heap, flags, context, outputSignal, sees, calls>>

(* The worker, releaseStreamingOutput(), once the delay of the stream has run *)
(* out: the archive encoder, the output, its variable, the context.  A        *)
(* multitrack output is held by the context too: its release does not wait,  *)
(* the context's does.                                                       *)
WorkerStep(at, next) ==
    /\ worker.at = at
    /\ worker' = [worker EXCEPT !.at = next]
    /\ UNCHANGED <<isStreaming, flags, call, outputSignal, sees, calls>>

ReleaseArchive ==
    /\ WorkerStep("archive", "output") /\ UNCHANGED context
    /\ heap' = clearArchiveVodEncoder(heap)

ReleaseOutput ==
    /\ WorkerStep("output", "clear") /\ UNCHANGED context
    /\ ~ReleaseWaits(heap, heap.holds[worker.service])
    /\ heap' = releaseOutput(heap, heap.holds[worker.service])

ClearVariable ==
    /\ WorkerStep("clear", "context") /\ UNCHANGED context
    /\ heap' = [heap EXCEPT !.holds[worker.service] = 0]

NoContext == [output |-> 0, encoder |-> 0]
ResetContext ==
    /\ WorkerStep("context", "none")
    /\ ~ReleaseWaits(heap, context.output)
    /\ heap' = resetContext(heap)
    /\ context' = NoContext

-----------------------------------------------------------------------------
(* The recording and the replay buffer.                                      *)
Finished == UNCHANGED <<isStreaming, context, worker, call>>

\* startRecording()
keepsEncoders(c) ==
    c.lossless \/ (c.multipleRendering /\ c.replayOfRecording /\ isReplayBufferActive)
recordingReady(h, c) == IF keepsEncoders(c) THEN h ELSE updateRecordingEncoders(h, c)
StartRecording(c, outcome) ==
    LET created == obs_output_create(releaseOutput(heap, heap.holds["recording"]), "recording")
        ready == recordingReady(created, c)
        uses == IF c.lossless THEN <<>> ELSE UsesFor(ready, useStreamEncoder(c), c)
    IN  /\ CanStart("recording") /\ Started("recording")
        /\ IF Phase(heap, "recording") \in {"active", "stopping"}
           THEN UNCHANGED <<heap, isRecording, usingRecordingPreset, outputSignal>>
           ELSE IF ~c.compatible
           THEN Report("recording", "stop") /\ UNCHANGED <<heap, isRecording, usingRecordingPreset>>
           ELSE /\ outcome = "refused" \/ AllThere(ready, uses)
                /\ heap' = startOutput(ready, "recording", uses, outcome)
                /\ usingRecordingPreset' = (keepsEncoders(c) \/ ~usesStream(c))
                /\ isRecording' = (outcome # "refused")
                /\ SignalOfStart("recording", outcome)
        /\ UNCHANGED <<isReplayBufferActive, rpUsesRec, rpUsesStream>> /\ Finished

\* startReplayBuffer()
ofStream(c) == c.multipleRendering /\ ~c.replayOfRecording
replayUsesStream(c) ==
    IF c.multipleRendering THEN ofStream(c)
    ELSE IF isRecording THEN ~usingRecordingPreset ELSE useStreamEncoder(c)
replayReady(h, c) ==
    IF ofStream(c) THEN updateStreamingEncoders(h, main, c)
    ELSE IF isRecording THEN h ELSE updateRecordingEncoders(h, c)
\* updateRecordingEncoders() and updateVideoRecordingEncoder() set the flag.
presetAfterReplay(c) ==
    IF ofStream(c) \/ isRecording THEN usingRecordingPreset
    ELSE ~usesStream(c) /\ (c.simple \/ usingRecordingPreset)
StartReplayBuffer(c, outcome) ==
    LET created == obs_output_create(releaseOutput(heap, heap.holds["replay-buffer"]), "replay-buffer")
        ready == replayReady(created, c)
        uses == UsesFor(ready, replayUsesStream(c), c)
        refused == ~c.compatible \/ outcome = "refused"
    IN  /\ CanStart("replay-buffer") /\ Started("replay-buffer")
        /\ IF Phase(heap, "replay-buffer") \in {"active", "stopping"}
           THEN UNCHANGED <<heap, isReplayBufferActive, rpUsesRec, rpUsesStream, usingRecordingPreset, outputSignal>>
           ELSE /\ outcome = "refused" \/ AllThere(ready, uses)
                /\ IF c.compatible THEN heap' = startOutput(ready, "replay-buffer", uses, outcome)
                   ELSE UNCHANGED heap
                /\ isReplayBufferActive' = ~refused
                /\ rpUsesRec' = (~refused /\ (rpUsesRec \/ ~ofStream(c)))
                /\ rpUsesStream' = (~refused /\ (rpUsesStream \/ ofStream(c)))
                /\ usingRecordingPreset' = IF c.compatible THEN presetAfterReplay(c) ELSE usingRecordingPreset
                /\ SignalOfStart("replay-buffer", IF refused THEN "refused" ELSE outcome)
        /\ UNCHANGED isRecording /\ Finished

\* stopRecording() and OBS_service_stopReplayBuffer()
StopOutput(k) ==
    /\ k \in {"recording", "replay-buffer"}
    /\ Idle /\ sees[k] = "on"
    /\ calls' = calls + 1 /\ sees' = [sees EXCEPT ![k] = "stopping"]
    /\ heap' = IF Phase(heap, k) \in Running THEN [heap EXCEPT !.outputs[heap.holds[k]].phase = "stopping"] ELSE heap
    /\ isRecording' = (isRecording /\ k # "recording")
    /\ rpUsesRec' = (rpUsesRec /\ k # "replay-buffer")
    /\ rpUsesStream' = (rpUsesStream /\ k # "replay-buffer")
    /\ UNCHANGED <<isReplayBufferActive, usingRecordingPreset, outputSignal>> /\ Finished

-----------------------------------------------------------------------------
(* What libobs' threads do, and the signals.                                 *)

\* JSCallbackOutputSignal() on "stop": the flag of the kind of output, not of
\* the output, is reset.
clearFlag(k) ==
    /\ isStreaming' = [s \in Services |-> isStreaming[s] /\ s # k]
    /\ isRecording' = (isRecording /\ k # "recording")
    /\ isReplayBufferActive' = (isReplayBufferActive /\ k # "replay-buffer")
    /\ UNCHANGED <<rpUsesRec, rpUsesStream, usingRecordingPreset>>

\* A connection is up and its data flows.
Activate(o) ==
    /\ heap.outputs[o].phase = "connecting"
    /\ heap' = [heap EXCEPT !.outputs[o].phase = "active"]
    /\ Report(heap.outputs[o].kind, "start")
    /\ UNCHANGED <<isStreaming, flags, context, worker, call, sees, calls>>

\* An output that was stopped, or that failed, ends.
Stopped(o) ==
    LET k == heap.outputs[o].kind IN
    /\ heap.outputs[o].phase \in Running
    /\ heap' = [heap EXCEPT !.outputs[o].phase = "idle"]
    /\ clearFlag(k)
    /\ outputSignal' = outputSignal \o IF k \in Services /\ heap.outputs[o].phase # "connecting"
                                       THEN <<<<k, "stop">>, <<k, "deactivate">>>> ELSE <<<<k, "stop">>>>
    /\ UNCHANGED <<context, worker, call, sees, calls>>

\* The virtual camera's "stop" ends up with the replay buffer's.
CameraStopped ==
    /\ isReplayBufferActive
    /\ isReplayBufferActive' = FALSE
    /\ UNCHANGED <<heap, isStreaming, isRecording, rpUsesRec, rpUsesStream, usingRecordingPreset,
                   context, worker, call, outputSignal, sees, calls>>

\* Query() and what the frontend makes of a signal.
Query ==
    /\ call = <<"none">> /\ outputSignal # <<>>
    /\ LET k == Head(outputSignal)[1]
           signal == Head(outputSignal)[2]
       IN  sees' = [sees EXCEPT ![k] =
               CASE signal = "start" -> IF @ = "starting" THEN "on" ELSE @
                 [] signal = "stop" -> IF k \in Services /\ @ # "starting" THEN "stopping" ELSE "off"
                 [] OTHER -> "off"]
    /\ outputSignal' = Tail(outputSignal)
    /\ UNCHANGED <<heap, isStreaming, flags, context, worker, call, calls>>

-----------------------------------------------------------------------------
(* destroyOBS_API(): stopAllOutputs(), which waits, and the releases.        *)
BeginShutdown ==
    /\ call = <<"none">> /\ waitReleaseWorker
    /\ call' = <<"shutdown">>
    /\ heap' = [heap EXCEPT !.outputs = [o \in DOMAIN @ |->
                   IF @[o].phase \in Running /\ heap.holds[@[o].kind] = o THEN [@[o] EXCEPT !.phase = "stopping"] ELSE @[o]]]
    /\ isStreaming' = [s \in Services |-> isStreaming[s] /\ Phase(heap, s) \notin Running]
    /\ UNCHANGED <<flags, context, worker, outputSignal, sees, calls>>

NoneBusy == \A k \in Kinds : Phase(heap, k) = "idle"

clearOutputs(h) ==
    LET each == FoldFunction(LAMBDA o, g : releaseOutput(g, o), h, h.holds) IN
    [each EXCEPT !.holds = [k \in Kinds |-> 0]]

\* The encoders of the recording are left when they are thought to be the
\* stream's.
FinishShutdown(multipleRendering) ==
    LET ofRecording == IF usingRecordingPreset \/ multipleRendering
                       THEN {<<"video", "recording">>, <<"audio", "recording">>} ELSE {}
        named == Streams \cup ofRecording \cup {<<"audio", "archive">>, <<"audio", "tracks">>}
    IN  /\ call = <<"shutdown">> /\ NoneBusy
        /\ heap' = resetContext(clearOutputs(FoldSet(LAMBDA x, h : releaseEncoder(h, h.enc[x]), heap, named)))
        /\ context' = NoContext
        /\ isStreaming' = [s \in Services |-> FALSE]
        /\ isRecording' = FALSE /\ isReplayBufferActive' = FALSE /\ rpUsesRec' = FALSE /\ rpUsesStream' = FALSE
        /\ call' = <<"ended">>
        /\ UNCHANGED <<usingRecordingPreset, worker, outputSignal, sees, calls>>

-----------------------------------------------------------------------------
Next ==
    /\ \/ \E s \in Services :
            \/ \E c \in Configs : StartStreaming(s, c)
            \/ StopStreaming(s) \/ FinishStop(s)
       \/ FinishStart
       \/ ReleaseArchive \/ ReleaseOutput \/ ClearVariable \/ ResetContext
       \/ \E c \in Configs, outcome \in Outcomes : StartRecording(c, outcome) \/ StartReplayBuffer(c, outcome)
       \/ \E k \in Kinds : StopOutput(k)
       \/ \E o \in DOMAIN heap.outputs : Activate(o) \/ Stopped(o)
       \/ CameraStopped \/ Query
       \/ BeginShutdown \/ \E c \in Configs : FinishShutdown(c.multipleRendering)
    /\ UNCHANGED plays

Spec == Init /\ [][Next]_vars

-----------------------------------------------------------------------------
Gone(o) == heap.outputs[o].refs <= 0

\* No reference is given back twice, by whichever thread.
ReleasedOnce ==
    /\ \A o \in DOMAIN heap.outputs : heap.outputs[o].refs >= 0
    /\ \A e \in DOMAIN heap.encoders : heap.encoders[e] >= 0

\* A variable that calls read names an output that exists, but for the moment
\* in which the worker clears it.
HeldIsAlive ==
    \A k \in Kinds :
        heap.holds[k] # 0 /\ Gone(heap.holds[k]) => worker = [at |-> "clear", service |-> k]

SingleStream == Cardinality(plays \cap Services) = 1

\* An output that runs can be stopped: it is the one its variable names.  A
\* multitrack output may be left to the context when it ends, or when the
\* "stop" of a refused second stream, which names the first, had the frontend
\* start the first again.
RunningIsHeld ==
    \A o \in DOMAIN heap.outputs :
        heap.outputs[o].phase \in Running =>
            \/ heap.holds[heap.outputs[o].kind] = o
            \/ context.output = o /\ (SingleStream => heap.outputs[o].phase = "stopping")

\* A stream that connects has encoders that will be there when it begins,
\* the archive encoder if no other stream replaces it.
HasEncoders ==
    \A o \in DOMAIN heap.outputs :
        heap.outputs[o].phase = "connecting" =>
            \A e \in Range(heap.outputs[o].uses) \cup IF SingleStream THEN {heap.outputs[o].archive} \ {0} ELSE {} :
                EncoderAlive(heap, e)

\* The outputs of nodeobs_service.cpp and the encoders they share are kept
\* while something uses them and given back once, through the worker, the
\* starts that replace each other's encoders, and the shutdown.
OutputsKept == ReleasedOnce /\ HeldIsAlive /\ RunningIsHeld /\ HasEncoders

\* A stream the frontend has seen start is the one a stop reaches: the tests
\* call OBS_service_stopStreaming() and wait for the signals of its end.
StopReachesStream ==
    \A s \in Services :
        sees[s] = "on" /\ call[1] # "ended" =>
            \/ heap.holds[s] # 0
            \/ <<s, "stop">> \in Range(outputSignal)
=============================================================================
