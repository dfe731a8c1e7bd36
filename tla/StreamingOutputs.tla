--------------------------- MODULE StreamingOutputs ---------------------------
(* The streaming outputs a client makes (osn-streaming.cpp, its simple,       *)
(* advanced and enhanced broadcasting subclasses) and the replay buffers:     *)
(* what they are set to, the libobs outputs and the audio encoders they make, *)
(* and when they let go of them.  The handlers run on one IPC thread; libobs  *)
(* ends an output when it likes.                                              *)
EXTENDS Naturals, FiniteSets, Sequences

CONSTANTS Simples,        \* SimpleStreaming objects
          Advanceds,      \* AdvancedStreaming objects
          Broadcasts,     \* those of both that are EnhancedBroadcasting
          SimpleReplays,  \* SimpleReplayBuffer objects
          AdvancedReplays, \* AdvancedReplayBuffer objects
          Protocol,       \* of each service the client made
          Twitch,         \* the services that are the common service "Twitch"
          Capped,         \* those that cap the bitrate of a video encoder
          VideoEncoders,  \* video encoders the client made
          AudioEncoders,  \* audio encoders the client made
          Tracks,         \* numbers of audio tracks
          Copies,         \* bound: audio encoders of one track there are at once
          MaxStarts,      \* bound: starts of a behaviour
          MaxSets,        \* bound, for each set of objects that a behaviour may use:
                          \* its calls that set something
          Recorder,       \* the video encoder of the recording of a replay buffer
          RecorderAudio,  \* and its audio encoder
          MultipleRendering, \* obs_get_multiple_rendering()
          Nil

Services == DOMAIN Protocol
Uses == DOMAIN MaxSets
Streams == Simples \cup Advanceds
Replays == SimpleReplays \cup AdvancedReplays
Objects == Streams \cup Replays
PlainStreams == Streams \ Broadcasts

\* An audio encoder that the server makes: its track, and which one of those made
\* for it this is.  An output has an audio slot for every track.
MadeEncoders == Tracks \X (1 .. Copies)
Slots == 1 .. Cardinality(Tracks)

\* What a stream and a replay buffer are set to, and a libobs output.
StreamSettings ==
    [service : Services \cup {Nil}, videoEncoder : VideoEncoders \cup {Nil},
     audioEncoder : AudioEncoders \cup MadeEncoders \cup {Nil}, streamArchive : MadeEncoders \cup {Nil},
     audioTrack : Tracks, twitchTrack : Tracks, enableTwitchVOD : BOOLEAN,
     enforceServiceBitrate : BOOLEAN, useAdvanced : BOOLEAN, tuned : BOOLEAN]
ReplaySettings ==
    [mixer : SUBSET Tracks, audioEncoders : SUBSET MadeEncoders, streaming : Streams \cup {Nil}, usesStream : BOOLEAN]
ObsOutputs ==
    [type : {"rtmp_output", "ffmpeg_hls_muxer", "ffmpeg_mpegts_muxer", "replay_buffer"},
     running : BOOLEAN, video : VideoEncoders \cup {Recorder, Nil},
     audio : [Slots -> AudioEncoders \cup MadeEncoders \cup {RecorderAudio, Nil}],
     service : Services \cup {Nil}, stats : BOOLEAN]

ASSUME StreamingOutputsAssumption ==
    /\ Simples \cap Advanceds = {} /\ SimpleReplays \cap AdvancedReplays = {} /\ Streams \cap Replays = {}
    /\ Broadcasts \subseteq Streams /\ Twitch \subseteq Services /\ Capped \subseteq Services
    /\ {1, 2} \subseteq Tracks /\ Tracks \subseteq Nat /\ IsFiniteSet(Tracks)
    /\ Copies \in Nat /\ MaxStarts \in Nat /\ MultipleRendering \in BOOLEAN
    /\ Nil \notin Streams \cup Services \cup StreamSettings \cup ReplaySettings \cup ObsOutputs
    /\ ({Nil, Recorder, RecorderAudio} \cup VideoEncoders \cup AudioEncoders) \cap MadeEncoders = {}

VARIABLES
    uses,
    stream,     \* what each stream in IStreaming::Manager is set to
    replay,     \* what each replay buffer in IFileOutput::Manager is set to
    output,     \* m_output
    lingering,  \* an output that was let go of while libobs still ran it
    broadcast,  \* enhancedBroadcastingContext: the audio encoders it keeps
    owned,      \* audio encoders the server made and has not released
    bitrate,    \* of the client's video encoders: "low" or "high"
    tracks,     \* the tracks that have a configuration
    dying,      \* the broadcast whose destructor runs
    starts, sets

streamVars == <<uses, stream, replay, output, lingering, broadcast, owned, bitrate, tracks, dying, starts, sets>>
settings == <<uses, stream, replay, tracks, sets>>
outputs == <<output, lingering, broadcast, owned, bitrate>>

\* The constructors of Streaming and of its subclasses.  It is tuned while it has
\* a delay, a reconnect and a network object.
NewStream == [service |-> Nil, videoEncoder |-> Nil, audioEncoder |-> Nil, streamArchive |-> Nil,
              audioTrack |-> 1, twitchTrack |-> 2, enableTwitchVOD |-> FALSE,
              enforceServiceBitrate |-> TRUE, useAdvanced |-> FALSE, tuned |-> TRUE]

\* A replay buffer.  It has a recording, with encoders of its own.
NewReplay == [mixer |-> {1}, audioEncoders |-> {}, streaming |-> Nil, usesStream |-> FALSE]

StreamsInit ==
    /\ uses \in Uses
    /\ stream = [s \in Streams |-> Nil]
    /\ replay = [r \in Replays |-> Nil]
    /\ output = [x \in Objects |-> Nil]
    /\ lingering = [x \in Objects |-> Nil]
    /\ broadcast = [b \in Broadcasts |-> {}]
    /\ owned = {}
    /\ bitrate = [v \in VideoEncoders |-> "high"]
    /\ tracks = {1}
    /\ dying = Nil
    /\ starts = 0
    /\ sets = 0

-----------------------------------------------------------------------------
(* libobs *)

\* An output as obs_output_create() returns it.
NewObsOutput(type) == [type |-> type, running |-> FALSE, video |-> Nil, audio |-> [i \in Slots |-> Nil],
                       service |-> Nil, stats |-> FALSE]

Running(o) == o # Nil /\ o.running
Heard(o) == {o.audio[i] : i \in Slots} \ {Nil}
Carried(o) == IF o = Nil THEN {} ELSE Heard(o) \cup ({o.video} \ {Nil})

\* The outputs there are when x has output o and has let go of kept.
OutputsWith(x, o, kept) ==
    {output[y] : y \in Objects \ {x}} \cup {lingering[y] : y \in Objects \ {x}} \cup {o, kept}
AllOutputs == {output[x] : x \in Objects} \cup {lingering[x] : x \in Objects}
ActiveIn(e, outs) == \E o \in outs : Running(o) /\ e \in Carried(o)

\* A new audio encoder that the server makes for a track.  Outputs have references
\* of their own to the encoders they carry, which live as long.
Fresh(track, mine, outs) ==
    LET taken == mine \cup UNION {Carried(o) : o \in outs}
    IN <<track, CHOOSE n \in 1 .. Copies : <<track, n>> \notin taken>>

\* Bound: of each track there are two encoders left, the most that a start makes.
Spare ==
    LET taken == owned \cup UNION {Carried(o) : o \in AllOutputs}
    IN {t \in Tracks : \E m, n \in 1 .. Copies : m # n /\ {<<t, m>>, <<t, n>>} \cap taken = {}} = Tracks

\* obs_output_set_audio_encoder() and its like do nothing to a running output.
SetAudio(o, i, e) == IF Running(o) THEN o ELSE [o EXCEPT !.audio[i] = e]
SetVideo(o, v) == IF Running(o) THEN o ELSE [o EXCEPT !.video = v]

\* obs_output_start() fails when it likes, and on a running output.
Started(o) == IF Running(o) THEN {o} ELSE {o, [o EXCEPT !.running = TRUE]}

\* The output breaks, or what was asked for by a stop has been done.
OutputEnds(x) ==
    /\ Running(output[x])
    /\ output' = [output EXCEPT ![x].running = FALSE]
    /\ UNCHANGED <<settings, lingering, broadcast, owned, bitrate, dying, starts>>

LingeringEnds(x) ==
    /\ Running(lingering[x])
    /\ lingering' = [lingering EXCEPT ![x].running = FALSE]
    /\ UNCHANGED <<settings, output, broadcast, owned, bitrate, dying, starts>>

-----------------------------------------------------------------------------
(* osn::Output *)

\* What DeleteOutput() leaves: the output stops and goes, or its stop takes more
\* than 20 s and libobs runs it on.  Bound: this happens once to an object.
Leaves(x) ==
    {lingering[x]} \cup (IF Running(output[x]) /\ lingering[x] = Nil THEN {output[x]} ELSE {})

\* The type of output for a service; without one Start() takes "rtmp_output".
getStreamOutputType(service) ==
    CASE Protocol[service] = "HLS" -> "ffmpeg_hls_muxer"
      [] Protocol[service] \in {"SRT", "RIST"} -> "ffmpeg_mpegts_muxer"
      [] OTHER -> "rtmp_output"

\* A start makes an output when there is none of the type the service wants.
Recreates(s) == output[s] = Nil \/ output[s].type # getStreamOutputType(stream[s].service)
checkOutput(s) == IF Recreates(s) THEN NewObsOutput(getStreamOutputType(stream[s].service)) ELSE output[s]
LeavesOnCheck(s) == IF Recreates(s) THEN Leaves(s) ELSE {lingering[s]}

-----------------------------------------------------------------------------
(* Creation and settings *)

Usable(s) == stream[s] # Nil /\ dying = Nil
UsesStream(s) == s \in uses

CreateStream(s) ==
    /\ UsesStream(s) /\ stream[s] = Nil /\ dying = Nil
    /\ stream' = [stream EXCEPT ![s] = NewStream]
    /\ UNCHANGED <<uses, replay, tracks, sets, outputs, dying, starts>>

\* GetLegacySettings() makes the encoders and the service as well.
CreateLegacyStream(s) ==
    /\ UsesStream(s) /\ stream[s] = Nil /\ dying = Nil
    /\ \E v \in VideoEncoders, e \in AudioEncoders, w \in Services, vod, enforced, advanced \in BOOLEAN :
        /\ \A t \in Streams : stream[t] # Nil => stream[t].videoEncoder # v /\ stream[t].audioEncoder # e
        /\ stream' = [stream EXCEPT ![s] =
               [NewStream EXCEPT !.service = w, !.videoEncoder = v, !.enableTwitchVOD = vod,
                                 !.audioEncoder = IF s \in Simples THEN e ELSE Nil,
                                 !.enforceServiceBitrate = enforced, !.useAdvanced = advanced /\ s \in Simples]]
    /\ UNCHANGED <<uses, replay, tracks, sets, outputs, dying, starts>>

CanSet == dying = Nil /\ sets < MaxSets[uses] /\ sets' = sets + 1

ChangeStream(s, settings_) ==
    /\ CanSet /\ stream[s] # Nil
    /\ stream' = [stream EXCEPT ![s] = settings_]
    /\ UNCHANGED <<uses, replay, tracks, outputs, dying, starts>>

SetService(s) == \E w \in Services \cup {Nil} : ChangeStream(s, [stream[s] EXCEPT !.service = w])
SetVideoEncoder(s) == \E v \in VideoEncoders \cup {Nil} : ChangeStream(s, [stream[s] EXCEPT !.videoEncoder = v])
SetAudioEncoder(s) ==
    s \in Simples /\ \E e \in AudioEncoders \cup {Nil} : ChangeStream(s, [stream[s] EXCEPT !.audioEncoder = e])
SetEnforceServiceBirate(s) == Usable(s) /\ ChangeStream(s, [stream[s] EXCEPT !.enforceServiceBitrate = ~@])
SetEnableTwitchVOD(s) == Usable(s) /\ ChangeStream(s, [stream[s] EXCEPT !.enableTwitchVOD = ~@])
SetUseAdvanced(s) == s \in Simples /\ Usable(s) /\ ChangeStream(s, [stream[s] EXCEPT !.useAdvanced = ~@])
SetAudioTrack(s) == s \in Advanceds /\ \E t \in Tracks : ChangeStream(s, [stream[s] EXCEPT !.audioTrack = t])
SetTwitchTrack(s) == s \in Advanceds /\ \E t \in Tracks : ChangeStream(s, [stream[s] EXCEPT !.twitchTrack = t])

\* VideoEncoder::Update() by the client, with a bitrate of its own.
UpdateVideoEncoder(v) ==
    /\ CanSet
    /\ bitrate' = [bitrate EXCEPT ![v] = "high"]
    /\ UNCHANGED <<uses, stream, replay, tracks, output, lingering, broadcast, owned, dying, starts>>

\* SetDelay(), SetReconnect() and SetNetwork(), with an object or with none.
SetTuning(s) == Usable(s) /\ ChangeStream(s, [stream[s] EXCEPT !.tuned = ~@])

\* SetAtIndex() of the audio tracks.
SetTrack(t) ==
    /\ CanSet
    /\ tracks' = tracks \cup {t}
    /\ UNCHANGED <<uses, stream, replay, outputs, dying, starts>>

-----------------------------------------------------------------------------
(* Encoders of a start *)

\* Does the service cap what s sends?  A simple stream restores its bitrate only
\* with advanced settings.
IsCapped(s) ==
    LET st == stream[s] IN
    /\ st.service \in Capped
    /\ IF s \in Simples THEN st.useAdvanced => st.enforceServiceBitrate ELSE st.enforceServiceBitrate

Lower(v) == [bitrate EXCEPT ![v] = "low"]

updateEncoders(s, outs) ==
    LET st == stream[s]
        idle == /\ st.videoEncoder # Nil /\ ~ActiveIn(st.videoEncoder, outs)
                /\ st.audioEncoder # Nil /\ ~ActiveIn(st.audioEncoder, outs)
    IN IF idle /\ IsCapped(s) THEN Lower(st.videoEncoder) ELSE bitrate

UpdateEncoders(s, outs) ==
    LET st == stream[s]
        idle == st.videoEncoder # Nil /\ ~ActiveIn(st.videoEncoder, outs)
    IN IF idle /\ IsCapped(s) THEN Lower(st.videoEncoder) ELSE bitrate

isTwitchVODSupported(s) == stream[s].service \in Twitch
VodTrackMixerIndex == 1

\* What a start has done so far: to the output o, with the encoders mine that the
\* server owns, when the other outputs are outs.
Setup(o, encoder, mine) == [output |-> o, encoder |-> encoder, owned |-> mine]

SetupTwitchVodAudio(o, archive, mine, outs) ==
    LET e == IF archive = Nil THEN Fresh(VodTrackMixerIndex + 1, mine, outs \cup {o}) ELSE archive
    IN IF archive # Nil /\ ActiveIn(archive, outs \cup {o}) THEN Setup(o, archive, mine)
       ELSE Setup(SetAudio(o, 2, e), e, mine \cup {e})

\* Mutant: the slot of the retained output is not cleared.
StopKeepingSlot(o, archive, mine) ==
    IF archive = Nil \/ Running(o) THEN Setup(o, archive, mine) ELSE Setup(o, Nil, mine \ {archive})

StopTwitchVodAudio(o, archive, mine) ==
    IF archive = Nil \/ Running(o) THEN Setup(o, archive, mine)
    ELSE Setup(SetAudio(o, 2, Nil), Nil, mine \ {archive})

\* Mutant: the archive of the track before is not released.
SetupKeepingArchive(o, archive, mine, outs, track) ==
    LET e == Fresh(track, mine, outs \cup {o})
    IN IF archive # Nil /\ ActiveIn(archive, outs \cup {o}) THEN Setup(o, archive, mine)
       ELSE Setup(SetAudio(o, 2, e), e, mine \cup {e})

SetupTwitchSoundtrackAudio(o, archive, mine, outs, track) ==
    LET e == Fresh(track, mine \ {archive}, outs \cup {o})
    IN IF archive # Nil /\ ActiveIn(archive, outs \cup {o}) THEN Setup(o, archive, mine)
       ELSE Setup(SetAudio(o, 2, e), e, (mine \ {archive}) \cup {e})

StopTwitchSoundtrackAudio(o, archive, mine) ==
    IF Running(o) THEN Setup(o, archive, mine) ELSE Setup(SetAudio(o, 2, Nil), Nil, mine \ {archive})

-----------------------------------------------------------------------------
(* Simple streams *)

CanStart(x) == dying = Nil /\ starts < MaxStarts /\ Spare /\ starts' = starts + 1
PutOutput(x, o, kept) == output' = [output EXCEPT ![x] = o] /\ lingering' = [lingering EXCEPT ![x] = kept]

\* A start that fails once it has its output: an encoder is missing or does not
\* fit the service, or the canvas is not there.
SimpleStartFails(s) ==
    /\ s \in Simples \cap PlainStreams /\ CanStart(s) /\ Usable(s) /\ stream[s].service # Nil
    /\ \E kept \in LeavesOnCheck(s) : PutOutput(s, checkOutput(s), kept)
    /\ UNCHANGED <<settings, broadcast, owned, bitrate, dying>>

Vod(s, o, outs) ==
    LET st == stream[s] IN
    IF st.enableTwitchVOD /\ isTwitchVODSupported(s) THEN SetupTwitchVodAudio(o, st.streamArchive, owned, outs)
    ELSE StopTwitchVodAudio(o, st.streamArchive, owned)

SetObsService(o, w) == IF Running(o) THEN o ELSE [o EXCEPT !.service = w]

SimpleStart(s) ==
    /\ s \in Simples \cap PlainStreams /\ CanStart(s) /\ Usable(s)
    /\ stream[s].service # Nil /\ stream[s].videoEncoder # Nil /\ stream[s].audioEncoder # Nil /\ stream[s].tuned
    /\ \E kept \in LeavesOnCheck(s) :
        LET st == stream[s]
            outs == OutputsWith(s, checkOutput(s), kept)
            set == SetVideo(SetAudio(checkOutput(s), 1, st.audioEncoder), st.videoEncoder)
            vod == Vod(s, set, outs)
        IN /\ bitrate' = updateEncoders(s, outs)
           /\ \E o \in Started(SetObsService(vod.output, st.service)) : PutOutput(s, o, kept)
           /\ stream' = [stream EXCEPT ![s].streamArchive = vod.encoder]
           /\ owned' = vod.owned
    /\ UNCHANGED <<uses, replay, tracks, sets, broadcast, dying>>

-----------------------------------------------------------------------------
(* Advanced streams *)

\* setAudioEncoder(): the server's own encoder, for the track that is set.  Nil
\* when it cannot be had.
setAudioEncoder(s, o, outs) ==
    LET st == stream[s]
        other == st.audioEncoder # Nil /\ st.audioEncoder[1] # st.audioTrack
        mine == IF other THEN owned \ {st.audioEncoder} ELSE owned
        e == IF other \/ st.audioEncoder = Nil THEN Fresh(st.audioTrack, mine, outs \cup {o}) ELSE st.audioEncoder
    IN IF st.audioTrack \notin tracks \/ (other /\ ActiveIn(st.audioEncoder, outs \cup {o})) THEN Setup(o, Nil, owned)
       ELSE Setup(SetAudio(o, 1, e), e, mine \cup {e})

Soundtrack(s, o, mine, outs) ==
    LET st == stream[s] IN
    IF st.enableTwitchVOD /\ isTwitchVODSupported(s) /\ st.twitchTrack \in tracks
    THEN SetupTwitchSoundtrackAudio(o, st.streamArchive, mine, outs, st.twitchTrack)
    ELSE StopTwitchSoundtrackAudio(o, st.streamArchive, mine)

CanStartAdvanced(s) ==
    /\ s \in Advanceds \cap PlainStreams /\ CanStart(s) /\ Usable(s)
    /\ stream[s].service # Nil /\ stream[s].videoEncoder # Nil
    /\ bitrate' = UpdateEncoders(s, AllOutputs)

\* Its video encoder does not fit the service, or it gets no audio encoder.
AdvancedStartFails(s) ==
    /\ CanStartAdvanced(s)
    /\ \E kept \in LeavesOnCheck(s) : PutOutput(s, checkOutput(s), kept)
    /\ UNCHANGED <<settings, broadcast, owned, dying>>

AdvancedStart(s) ==
    /\ CanStartAdvanced(s)
    /\ \E kept \in LeavesOnCheck(s) :
        LET st == stream[s]
            outs == OutputsWith(s, Nil, kept)
            audio == setAudioEncoder(s, checkOutput(s), outs)
            vod == Soundtrack(s, SetVideo(audio.output, st.videoEncoder), audio.owned, outs)
            set == SetObsService(vod.output, st.service)
        IN /\ audio.encoder # Nil
           /\ stream' = [stream EXCEPT ![s].audioEncoder = audio.encoder, ![s].streamArchive = vod.encoder]
           /\ owned' = vod.owned
           /\ \E o \in IF st.tuned THEN Started(set) ELSE {set} : PutOutput(s, o, kept)
    /\ UNCHANGED <<uses, replay, tracks, sets, broadcast, dying>>

-----------------------------------------------------------------------------
(* Enhanced broadcasting *)

\* The track of the second audio, when it is wanted.
VodTracks(b) ==
    LET st == stream[b]
        track == IF b \in Simples THEN VodTrackMixerIndex + 1 ELSE st.twitchTrack
    IN IF st.enableTwitchVOD /\ isTwitchVODSupported(b) /\ (b \in Simples \/ track \in tracks) THEN {track} ELSE {}

\* Mutant: the packet callback is taken off once the output is gone.
DeleteTooSoon(b) == Leaves(b)

\* EnhancedBroadcasting::DeleteOutput() takes its packet callback off the output
\* before anything else.
DeleteBroadcast(b) ==
    {IF kept = output[b] /\ kept # Nil /\ broadcast[b] # {} THEN [kept EXCEPT !.stats = FALSE] ELSE kept :
        kept \in Leaves(b)}

\* The audio encoders that the configuration of the service asks for.
create_audio_encoders(b) ==
    LET outs == AllOutputs
        live == Fresh(1, owned, outs)
    IN <<live>> \o [i \in 1 .. Cardinality(VodTracks(b)) |->
                        Fresh(CHOOSE t \in VodTracks(b) : TRUE, owned \cup {live}, outs)]

\* The output with those encoders.  Its video encoders are its own.
SetupOBSOutput(audio) ==
    [NewObsOutput("rtmp_output") EXCEPT !.audio = [i \in Slots |-> IF i \in DOMAIN audio THEN audio[i] ELSE Nil]]

StartEnhancedBroadcastingStream(b) ==
    /\ b \in Broadcasts /\ CanStart(b) /\ Usable(b) /\ stream[b].service # Nil
    /\ \E kept \in DeleteBroadcast(b) :
        LET audio == create_audio_encoders(b)
            new == [SetupOBSOutput(audio) EXCEPT !.service = stream[b].service]
            made == {audio[i] : i \in DOMAIN audio}
            rest == owned \ broadcast[b]
        IN IF stream[b].tuned
           THEN /\ \E o \in Started([new EXCEPT !.stats = TRUE]) : PutOutput(b, o, kept)
                /\ broadcast' = [broadcast EXCEPT ![b] = made]
                /\ owned' = rest \cup made
           ELSE /\ PutOutput(b, new, kept)
                /\ broadcast' = [broadcast EXCEPT ![b] = {}]
                /\ owned' = rest
    /\ UNCHANGED <<settings, bitrate, dying>>

StopEnhancedBroadcastingStream(b) ==
    /\ b \in Broadcasts /\ Usable(b) /\ output[b] # Nil /\ broadcast[b] # {}
    /\ output' = [output EXCEPT ![b].stats = FALSE]
    /\ UNCHANGED <<settings, lingering, broadcast, owned, bitrate, dying, starts>>

-----------------------------------------------------------------------------
(* Destruction *)

\* The client destroys what borrows a stream before the stream.
Lent(s) == \E r \in Replays : replay[r] # Nil /\ replay[r].streaming = s

\* ~AdvancedStreaming() and ~Streaming(): an archive that is still in use is kept.
Released(s, kept) ==
    LET st == stream[s]
        archive == IF ActiveIn(st.streamArchive, OutputsWith(s, Nil, kept)) THEN {} ELSE {st.streamArchive}
    IN archive \cup (IF s \in Advanceds THEN {st.audioEncoder} ELSE {})

DestroyStream(s) ==
    /\ stream[s] # Nil /\ ~Lent(s)
    /\ IF s \in Broadcasts THEN dying = s ELSE dying = Nil
    /\ \E kept \in Leaves(s) :
        /\ PutOutput(s, Nil, kept)
        /\ owned' = owned \ Released(s, kept)
    /\ stream' = [stream EXCEPT ![s] = Nil]
    /\ dying' = Nil
    /\ UNCHANGED <<uses, replay, tracks, sets, broadcast, bitrate, starts>>

\* The context of a broadcast goes before its base class lets go of the output.
\* Destroy() and destroyOBS_API() do this to a broadcast that runs as well.
DestroyContext(b) ==
    /\ b \in Broadcasts /\ Usable(b) /\ ~Lent(b)
    /\ dying' = b
    /\ broadcast' = [broadcast EXCEPT ![b] = {}]
    /\ owned' = owned \ broadcast[b]
    /\ UNCHANGED <<settings, output, lingering, bitrate, starts>>

-----------------------------------------------------------------------------
(* Replay buffers *)

Ready(r) == r \in uses /\ dying = Nil
SetReplay(r, settings_) ==
    /\ r \in uses /\ CanSet /\ replay[r] # Nil
    /\ replay' = [replay EXCEPT ![r] = settings_]
    /\ UNCHANGED <<uses, stream, tracks, outputs, dying, starts>>

NewReplayBuffer(r, settings_) ==
    /\ Ready(r) /\ replay[r] = Nil
    /\ replay' = [replay EXCEPT ![r] = settings_]
    /\ UNCHANGED <<uses, stream, tracks, sets, outputs, dying, starts>>

CreateReplay(r) == NewReplayBuffer(r, NewReplay)

\* GetLegacySettings().  The mixer is a setting of the advanced page only.
CreateLegacyReplay(r) ==
    \E b \in BOOLEAN, m \in IF r \in SimpleReplays THEN {NewReplay.mixer} ELSE SUBSET Tracks :
        NewReplayBuffer(r, [NewReplay EXCEPT !.mixer = m, !.usesStream = b])

SetMixer(r) == r \in AdvancedReplays /\ \E m \in SUBSET Tracks : SetReplay(r, [replay[r] EXCEPT !.mixer = m])
SetUsesStream(r) == \E b \in BOOLEAN : SetReplay(r, [replay[r] EXCEPT !.usesStream = b])

\* SetStreaming(), with a stream of its own kind or with none.
LendStream(r, kind) == \E s \in kind \cap Streams : stream[s] # Nil /\ SetReplay(r, [replay[r] EXCEPT !.streaming = s])
ForgetStream(r) == SetReplay(r, [replay[r] EXCEPT !.streaming = Nil])
SetSimpleStreaming(r) == r \in SimpleReplays /\ (LendStream(r, Simples) \/ ForgetStream(r))
SetAdvancedStreaming(r) == r \in AdvancedReplays /\ (LendStream(r, Advanceds) \/ ForgetStream(r))

\* SetRecording() of an advanced one without a recording forgets the stream too.
SetNoRecording(r) == r \in AdvancedReplays /\ ForgetStream(r)

BorrowsStream(r) == MultipleRendering /\ replay[r].usesStream

\* The encoders it borrows: its stream's, or those of its recording.
Borrowed(r, ofStream, ofRecording) ==
    IF ~BorrowsStream(r) THEN ofRecording
    ELSE IF replay[r].streaming = Nil THEN Nil
    ELSE stream[replay[r].streaming][ofStream]
BorrowedVideo(r) == Borrowed(r, "videoEncoder", Recorder)
BorrowedAudio(r) == Borrowed(r, "audioEncoder", RecorderAudio)

Idle(r) == IF output[r] = Nil THEN NewObsOutput("replay_buffer") ELSE output[r]

\* With its audio set it starts, or stops short of it: without a video encoder,
\* with one that does not fit, or with a bad directory.
Attempts(o, video) == IF video = Nil THEN {o} ELSE {o, SetVideo(o, video)} \cup Started(SetVideo(o, video))

SimpleReplayStart(r) ==
    /\ r \in SimpleReplays /\ Ready(r) /\ replay[r] # Nil /\ CanStart(r)
    /\ LET rb == replay[r]
           audio == BorrowedAudio(r)
           outs == OutputsWith(r, Idle(r), lingering[r])
       IN /\ bitrate' = IF BorrowsStream(r) /\ rb.streaming # Nil THEN updateEncoders(rb.streaming, outs) ELSE bitrate
          /\ \E o \in IF audio = Nil THEN {Idle(r)} ELSE Attempts(SetAudio(Idle(r), 1, audio), BorrowedVideo(r)) :
                output' = [output EXCEPT ![r] = o]
    /\ UNCHANGED <<uses, stream, replay, tracks, sets, lingering, broadcast, owned, dying>>

\* The n-th of a set of tracks, when there are so many.
NthTrack(set, n) == {t \in set : Cardinality({u \in set : u < t}) = n - 1}

Wanted(r) == replay[r].mixer \cap tracks

\* An advanced one makes an encoder for every track of its mixer.
\* Mutant: the encoders go and the output's slots stay.
ClearOwnersOnly(o) == o

ClearAudioEncoders(o) == IF Running(o) THEN o ELSE [o EXCEPT !.audio = [i \in Slots |-> Nil]]

\* The n-th track's encoder is set to the n-th slot.
SetTrackEncoders(o, wanted, made) ==
    IF Running(o) THEN o
    ELSE [o EXCEPT !.audio = [i \in Slots |-> IF NthTrack(wanted, i) = {} THEN o.audio[i]
                                              ELSE made[CHOOSE t \in NthTrack(wanted, i) : TRUE]]]

AdvancedReplayStart(r) ==
    /\ r \in AdvancedReplays /\ Ready(r) /\ replay[r] # Nil /\ CanStart(r)
    /\ LET rb == replay[r]
           cleared == ClearAudioEncoders(Idle(r))
           outs == OutputsWith(r, cleared, lingering[r])
           mine == owned \ rb.audioEncoders
           made == [t \in Wanted(r) |-> Fresh(t, mine, outs)]
           new == {made[t] : t \in Wanted(r)}
       IN /\ replay' = [replay EXCEPT ![r].audioEncoders = new]
          /\ owned' = mine \cup new
          /\ bitrate' = IF BorrowsStream(r) /\ rb.streaming # Nil THEN UpdateEncoders(rb.streaming, outs) ELSE bitrate
          /\ \E o \in Attempts(SetTrackEncoders(cleared, Wanted(r), made), BorrowedVideo(r)) : output' = [output EXCEPT ![r] = o]
    /\ UNCHANGED <<uses, stream, tracks, sets, lingering, broadcast, dying>>

DestroyReplay(r) ==
    /\ Ready(r) /\ replay[r] # Nil
    /\ \E kept \in Leaves(r) : PutOutput(r, Nil, kept)
    /\ owned' = owned \ replay[r].audioEncoders
    /\ replay' = [replay EXCEPT ![r] = Nil]
    /\ UNCHANGED <<uses, stream, tracks, sets, broadcast, bitrate, dying, starts>>

-----------------------------------------------------------------------------
StreamCalls(s) ==
    \/ CreateStream(s) \/ CreateLegacyStream(s) \/ DestroyStream(s)
    \/ SetService(s) \/ SetVideoEncoder(s) \/ SetEnforceServiceBirate(s) \/ SetEnableTwitchVOD(s) \/ SetTuning(s)

SimpleCalls(s) == SetAudioEncoder(s) \/ SetUseAdvanced(s) \/ SimpleStart(s) \/ SimpleStartFails(s)
AdvancedCalls(s) == SetAudioTrack(s) \/ SetTwitchTrack(s) \/ AdvancedStart(s) \/ AdvancedStartFails(s)
BroadcastCalls(s) == StartEnhancedBroadcastingStream(s) \/ StopEnhancedBroadcastingStream(s) \/ DestroyContext(s)

ReplayCalls(r) ==
    \/ CreateReplay(r) \/ CreateLegacyReplay(r) \/ DestroyReplay(r) \/ SetUsesStream(r)
    \/ SetSimpleStreaming(r) \/ SimpleReplayStart(r)
    \/ SetMixer(r) \/ SetAdvancedStreaming(r) \/ SetNoRecording(r) \/ AdvancedReplayStart(r)

StreamsNext ==
    \/ \E s \in Streams : StreamCalls(s) \/ SimpleCalls(s) \/ AdvancedCalls(s) \/ BroadcastCalls(s)
    \/ \E r \in Replays : ReplayCalls(r)
    \/ \E t \in Tracks : SetTrack(t)
    \/ \E v \in VideoEncoders : UpdateVideoEncoder(v)
    \/ \E x \in Objects : OutputEnds(x) \/ LingeringEnds(x)

StreamsSpec == StreamsInit /\ [][StreamsNext]_streamVars

-----------------------------------------------------------------------------
\* The encoders that somebody still has a pointer to.
HeldBy(x) ==
    IF x \in Replays THEN IF replay[x] = Nil THEN {} ELSE replay[x].audioEncoders
    ELSE (IF x \in Broadcasts THEN broadcast[x] ELSE {})
         \cup (IF stream[x] = Nil THEN {}
               ELSE ({stream[x].streamArchive} \cup IF x \in Advanceds THEN {stream[x].audioEncoder} ELSE {}) \ {Nil})

\* Every audio encoder that the server made has one owner that has not released
\* it, and none is forgotten, but for the archive of a stream that was destroyed
\* while libobs did not let its output end.
EncodersOwned ==
    /\ \A x \in Objects : HeldBy(x) \subseteq owned
    /\ \A x, y \in Objects : x # y => HeldBy(x) \cap HeldBy(y) = {}
    /\ \A e \in owned : \/ \E x \in Objects : e \in HeldBy(x)
                        \/ \E x \in Streams : e \in Carried(lingering[x])

\* An output that libobs may call the packet callback for.
CallsBack(o) == Running(o) /\ o.stats

\* Through starts, restarts, stops and outputs that libobs does not stop in time,
\* an output that can call the packet callback of a broadcast is the one of the
\* context that has its tracker.  The steps of a destruction are left out: it
\* frees the tracker first, whether or not the broadcast runs.
TrackerOutlivesCallback ==
    [][dying = Nil /\ dying' = Nil =>
          \A b \in Broadcasts :
              /\ CallsBack(output'[b]) => broadcast'[b] # {}
              /\ lingering'[b] # lingering[b] => ~CallsBack(lingering'[b])]_streamVars

VodTrack(s) == IF s \in Simples THEN VodTrackMixerIndex + 1 ELSE stream[s].twitchTrack
WantsVod(s) ==
    /\ stream[s].enableTwitchVOD /\ stream[s].service \in Twitch
    /\ s \in Advanceds => stream[s].twitchTrack \in tracks

\* Does another output than the one that begins carry the archive?
ArchiveInUse(s) ==
    stream[s].streamArchive # Nil
      /\ ActiveIn(stream[s].streamArchive, {output'[y] : y \in Objects \ {s}} \cup {lingering'[y] : y \in Objects})

Begins(x) == ~Running(output[x]) /\ Running(output[x])'

\* A stream that begins sends what it is set to, whatever it sent before: its
\* encoders, the main track, the second audio exactly when the service and the
\* settings want it, and under the cap of its service.  A replay buffer that
\* begins keeps what it borrows, and the tracks of its mixer and no other.
StreamSends(s) ==
    LET o == output'[s]
        st == stream[s]
    IN /\ o.video = st.videoEncoder /\ o.service = st.service
       /\ IF s \in Simples THEN o.audio[1] = st.audioEncoder ELSE o.audio[1][1] = st.audioTrack
       /\ IF ~WantsVod(s) THEN o.audio[2] = Nil
          ELSE ArchiveInUse(s) \/ (o.audio[2] # Nil /\ o.audio[2][1] = VodTrack(s))
       /\ IsCapped(s) /\ ~ActiveIn(st.videoEncoder, AllOutputs)
             /\ (s \in Simples => ~ActiveIn(st.audioEncoder, AllOutputs)) => bitrate'[st.videoEncoder] = "low"

ReplayKeeps(r) ==
    LET o == output'[r]
    IN /\ o.video = BorrowedVideo(r)
       /\ IF r \in SimpleReplays THEN Heard(o) = {BorrowedAudio(r)} ELSE {e[1] : e \in Heard(o)} = Wanted(r)

SendsWhatIsSet ==
    [][/\ \A s \in PlainStreams : Begins(s) => StreamSends(s)
       /\ \A r \in Replays : Begins(r) => ReplayKeeps(r)]_streamVars
=============================================================================
