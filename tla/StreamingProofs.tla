--------------------------- MODULE StreamingProofs ---------------------------
(* What is proved of streaming.  For any streams, replay buffers, services,   *)
(* encoders and tracks: the streaming outputs keep their encoders owned, count *)
(* packets only while their context lives, and send what is set.  And for any *)
(* network, workload and budget: what the bandwidth test's policy guarantees, *)
(* and that the test recommends only what it saw.                             *)
EXTENDS StreamingOutputs, YoutubeRamp, FiniteSetTheorems, TLAPS

-----------------------------------------------------------------------------
(* Streaming outputs: outputs and what is done to them.                       *)

LEMMA SlotsThere == Cardinality(Tracks) \in Nat /\ 1 \in Slots /\ 2 \in Slots
<1>1. IsFiniteSet(Tracks) /\ {1, 2} \subseteq Tracks
  BY StreamingOutputsAssumption
<1>2. Cardinality(Tracks) \in Nat
  BY <1>1, FS_CardinalityType
<1>3. IsFiniteSet({1}) /\ Cardinality({1}) = 1
  BY FS_Singleton
<1>4. {1} \cup {2} = {1, 2} /\ 2 \notin {1}
  OBVIOUS
<1>5. Cardinality({1} \cup {2}) = 2
  BY <1>3, <1>4, FS_AddElement
<1>6. 2 <= Cardinality(Tracks)
  BY <1>1, <1>4, <1>5, FS_Subset
<1>. QED
  BY <1>2, <1>6 DEF Slots

LEMMA NewOutputIs ==
    ASSUME NEW type \in {"rtmp_output", "ffmpeg_hls_muxer", "ffmpeg_mpegts_muxer", "replay_buffer"}
    PROVE  LET o == NewObsOutput(type)
           IN  /\ o \in ObsOutputs /\ o # Nil /\ o.type = type /\ o.audio = [i \in Slots |-> Nil]
               /\ ~o.running /\ ~o.stats /\ ~Running(o) /\ Carried(o) = {}
<1> DEFINE o == NewObsOutput(type)
<1>1. /\ o.type = type /\ o.audio = [i \in Slots |-> Nil] /\ o.video = Nil
      /\ o.running = FALSE /\ o.stats = FALSE /\ o.service = Nil
  BY DEF NewObsOutput
<1>2. [i \in Slots |-> Nil] \in [Slots -> AudioEncoders \cup MadeEncoders \cup {RecorderAudio, Nil}]
  OBVIOUS
<1>3. o \in ObsOutputs
  BY <1>2 DEF NewObsOutput, ObsOutputs
<1>4. o # Nil
  BY <1>3, StreamingOutputsAssumption
<1>5. Heard(o) = {}
  BY <1>1 DEF Heard
<1>6. Carried(o) = {}
  BY <1>1, <1>5 DEF Carried
<1>7. ~Running(o)
  BY <1>1 DEF Running
<1>. QED
  BY <1>1, <1>3, <1>4, <1>6, <1>7

LEMMA RunningIs ==
    ASSUME NEW o \in ObsOutputs
    PROVE  o # Nil /\ (Running(o) <=> o.running)
  BY StreamingOutputsAssumption DEF Running

LEMMA AudioSet ==
    ASSUME NEW o \in ObsOutputs, NEW i \in Slots,
           NEW e \in AudioEncoders \cup MadeEncoders \cup {RecorderAudio, Nil}
    PROVE  LET p == SetAudio(o, i, e)
           IN  /\ p \in ObsOutputs /\ p # Nil /\ (Running(o) => p = o)
               /\ p.running = o.running /\ p.video = o.video /\ p.stats = o.stats /\ p.service = o.service
               /\ ~Running(o) => p.audio = [o.audio EXCEPT ![i] = e]
               /\ Carried(p) \subseteq Carried(o) \cup {e}
<1> DEFINE q == [o EXCEPT !.audio[i] = e]
<1>1. o.audio \in [Slots -> AudioEncoders \cup MadeEncoders \cup {RecorderAudio, Nil}]
  BY DEF ObsOutputs
<1>2. q = [o EXCEPT !.audio = [o.audio EXCEPT ![i] = e]]
  BY DEF ObsOutputs
<1>3. [o.audio EXCEPT ![i] = e] \in [Slots -> AudioEncoders \cup MadeEncoders \cup {RecorderAudio, Nil}]
  BY <1>1
<1>4. q \in ObsOutputs
  BY <1>2, <1>3 DEF ObsOutputs
<1>5. /\ q.running = o.running /\ q.video = o.video /\ q.stats = o.stats /\ q.service = o.service
      /\ q.audio = [o.audio EXCEPT ![i] = e]
  BY <1>2 DEF ObsOutputs
<1>6. Heard(q) \subseteq Heard(o) \cup {e}
  BY <1>1, <1>5 DEF Heard
<1>7. Carried(q) \subseteq Carried(o) \cup {e}
  BY <1>4, <1>5, <1>6, RunningIs DEF Carried
<1>. HIDE DEF q
<1>8. SetAudio(o, i, e) = IF Running(o) THEN o ELSE q
  BY DEF SetAudio, q
<1>. QED
  BY <1>4, <1>5, <1>7, <1>8, RunningIs

LEMMA VideoSet ==
    ASSUME NEW o \in ObsOutputs, NEW v \in VideoEncoders \cup {Recorder, Nil}
    PROVE  LET p == SetVideo(o, v)
           IN  /\ p \in ObsOutputs /\ p # Nil /\ (Running(o) => p = o)
               /\ p.running = o.running /\ p.audio = o.audio /\ p.stats = o.stats /\ p.service = o.service
               /\ ~Running(o) => p.video = v
               /\ Carried(p) \subseteq Carried(o) \cup {v}
<1> DEFINE q == [o EXCEPT !.video = v]
<1>1. /\ q \in ObsOutputs /\ q.running = o.running /\ q.audio = o.audio /\ q.stats = o.stats
      /\ q.service = o.service /\ q.video = v
  BY DEF ObsOutputs
<1>2. Carried(q) \subseteq Carried(o) \cup {v}
  BY <1>1, RunningIs DEF Carried, Heard
<1>. HIDE DEF q
<1>3. SetVideo(o, v) = IF Running(o) THEN o ELSE q
  BY DEF SetVideo, q
<1>. QED
  BY <1>1, <1>2, <1>3, RunningIs

LEMMA ServiceSet ==
    ASSUME NEW o \in ObsOutputs, NEW w \in Services
    PROVE  LET p == SetObsService(o, w)
           IN  /\ p \in ObsOutputs /\ p # Nil /\ (Running(o) => p = o)
               /\ p.running = o.running /\ p.audio = o.audio /\ p.video = o.video /\ p.stats = o.stats
               /\ ~Running(o) => p.service = w
               /\ Carried(p) = Carried(o)
<1> DEFINE q == [o EXCEPT !.service = w]
<1>1. /\ q \in ObsOutputs /\ q.running = o.running /\ q.audio = o.audio /\ q.stats = o.stats
      /\ q.service = w /\ q.video = o.video
  BY DEF ObsOutputs
<1>2. Carried(q) = Carried(o)
  BY <1>1, RunningIs DEF Carried, Heard
<1>. HIDE DEF q
<1>3. SetObsService(o, w) = IF Running(o) THEN o ELSE q
  BY DEF SetObsService, q
<1>. QED
  BY <1>1, <1>2, <1>3, RunningIs

\* An output that is started is the same but for whether it runs.
LEMMA StartedIs ==
    ASSUME NEW o \in ObsOutputs, NEW p \in Started(o)
    PROVE  /\ p \in ObsOutputs /\ p # Nil /\ (Running(o) => p = o)
           /\ p.video = o.video /\ p.audio = o.audio /\ p.stats = o.stats /\ p.service = o.service
           /\ Carried(p) = Carried(o)
<1> DEFINE q == [o EXCEPT !.running = TRUE]
<1>1. /\ q \in ObsOutputs /\ q.audio = o.audio /\ q.stats = o.stats
      /\ q.service = o.service /\ q.video = o.video
  BY DEF ObsOutputs
<1>2. Carried(q) = Carried(o)
  BY <1>1, RunningIs DEF Carried, Heard
<1>. HIDE DEF q
<1>3. p = o \/ (~Running(o) /\ p = q)
  BY DEF Started, q
<1>. QED
  BY <1>1, <1>2, <1>3, RunningIs

-----------------------------------------------------------------------------
(* The invariant.                                                             *)

\* What every variable is.
StreamTypes ==
    /\ uses \in Uses /\ sets \in Nat /\ starts \in Nat /\ tracks \subseteq Tracks
    /\ stream \in [Streams -> StreamSettings \cup {Nil}]
    /\ replay \in [Replays -> ReplaySettings \cup {Nil}]
    /\ output \in [Objects -> ObsOutputs \cup {Nil}]
    /\ lingering \in [Objects -> ObsOutputs \cup {Nil}]
    /\ broadcast \in [Broadcasts -> SUBSET MadeEncoders]
    /\ owned \subseteq MadeEncoders
    /\ bitrate \in [VideoEncoders -> {"low", "high"}]
    /\ dying \in Broadcasts \cup {Nil}

\* A stream's own encoders: a simple one has those of the client and an archive
\* for the track of the archive, an advanced one two that the server made, and a
\* broadcast keeps none of them.
StreamOK(s) ==
    stream[s] # Nil =>
        /\ s \in Simples => stream[s].audioEncoder \in AudioEncoders \cup {Nil}
        /\ s \in Simples /\ stream[s].streamArchive # Nil => stream[s].streamArchive[1] = VodTrackMixerIndex + 1
        /\ s \in Advanceds => /\ stream[s].audioEncoder \in MadeEncoders \cup {Nil}
                              /\ stream[s].streamArchive # Nil => stream[s].streamArchive # stream[s].audioEncoder
        /\ s \in Broadcasts => /\ stream[s].streamArchive = Nil
                               /\ s \in Advanceds => stream[s].audioEncoder = Nil
StreamsOK == \A s \in Streams : StreamOK(s)

\* A replay buffer borrows from a stream of its kind that is there.
ReplayOK(r) ==
    replay[r] # Nil /\ replay[r].streaming # Nil =>
        /\ replay[r].streaming \in IF r \in SimpleReplays THEN Simples ELSE Advanceds
        /\ stream[replay[r].streaming] # Nil
ReplaysOK == \A r \in Replays : ReplayOK(r)

\* Only what exists has an output; the second slot of a simple stream's output
\* has its archive or nothing, and a simple replay buffer's uses the first alone.
OutputOK(x) ==
    /\ x \in Streams /\ stream[x] = Nil => output[x] = Nil
    /\ x \in Replays /\ replay[x] = Nil => output[x] = Nil
    /\ x \in Simples \ Broadcasts /\ output[x] # Nil /\ stream[x].streamArchive = Nil => output[x].audio[2] = Nil
    /\ x \in SimpleReplays /\ output[x] # Nil => \A i \in Slots : i # 1 => output[x].audio[i] = Nil
    /\ output[x] # Nil /\ output[x].stats => x \in Broadcasts
OutputsOK == \A x \in Objects : OutputOK(x)

\* While a broadcast's destructor runs, its context is gone.
DyingOK == dying # Nil => broadcast[dying] = {}

\* Else a broadcast whose output can call back has its context.
CountedKept == \A b \in Broadcasts : Running(output[b]) /\ output[b].stats => broadcast[b] # {} \/ dying = b

\* An encoder that somebody owns is on nobody else's output.
OwnersCarry ==
    \A x, y \in Objects : x # y =>
        HeldBy(x) \cap (Carried(output[y]) \cup Carried(lingering[y])) = {}

StreamsInv ==
    /\ StreamTypes /\ StreamsOK /\ ReplaysOK /\ OutputsOK /\ DyingOK
    /\ EncodersOwned /\ OwnersCarry /\ CountedKept
-----------------------------------------------------------------------------
(* What a step begins from.                                                   *)

LEMMA SettingsAre ==
    ASSUME StreamTypes, NEW s \in Streams, stream[s] # Nil
    PROVE  stream[s] \in StreamSettings
  BY DEF StreamTypes

LEMMA OutputsAre ==
    ASSUME StreamTypes, NEW x \in Objects
    PROVE  /\ output[x] \in ObsOutputs \cup {Nil} /\ lingering[x] \in ObsOutputs \cup {Nil}
           /\ output[x] # Nil => output[x] \in ObsOutputs
           /\ lingering[x] # Nil => lingering[x] \in ObsOutputs
           /\ Carried(output[x]) \subseteq UNION {Carried(o) : o \in AllOutputs}
           /\ Carried(lingering[x]) \subseteq UNION {Carried(o) : o \in AllOutputs}
  BY DEF StreamTypes, AllOutputs

\* What is let go of runs on, or what was let go of before stays.
LEMMA LeftIs ==
    ASSUME StreamTypes, NEW x \in Objects, NEW kept \in Leaves(x)
    PROVE  /\ kept \in ObsOutputs \cup {Nil}
           /\ kept = lingering[x] \/ (kept = output[x] /\ lingering[x] = Nil /\ Running(output[x]))
           /\ Carried(lingering[x]) \subseteq Carried(kept)
           /\ Carried(kept) \subseteq Carried(output[x]) \cup Carried(lingering[x])
           /\ Carried(kept) \subseteq UNION {Carried(o) : o \in AllOutputs}
<1>1. kept = lingering[x] \/ (kept = output[x] /\ lingering[x] = Nil /\ Running(output[x]))
  BY DEF Leaves
<1>2. Carried(Nil) = {}
  BY DEF Carried
<1>. QED
  BY <1>1, <1>2, OutputsAre

LEMMA LeftOnCheckIs ==
    ASSUME NEW s, NEW kept \in LeavesOnCheck(s)
    PROVE  kept \in Leaves(s)
  BY DEF LeavesOnCheck, Leaves

LEMMA TypeOfOutput ==
    ASSUME NEW w
    PROVE  getStreamOutputType(w) \in {"rtmp_output", "ffmpeg_hls_muxer", "ffmpeg_mpegts_muxer", "replay_buffer"}
<1>1. CASE Protocol[w] = "HLS"
  BY <1>1 DEF getStreamOutputType
<1>2. CASE Protocol[w] # "HLS" /\ Protocol[w] \in {"SRT", "RIST"}
  BY <1>2 DEF getStreamOutputType
<1>3. CASE Protocol[w] # "HLS" /\ Protocol[w] \notin {"SRT", "RIST"}
  BY <1>3 DEF getStreamOutputType
<1>. QED
  BY <1>1, <1>2, <1>3

\* The output a start goes on with: the one there is, or a new one.
LEMMA CheckedIs ==
    ASSUME StreamTypes, NEW s \in Streams
    PROVE  LET o == checkOutput(s)
           IN  /\ o \in ObsOutputs /\ o # Nil
               /\ o = output[s] \/ (~Running(o) /\ ~o.stats /\ Carried(o) = {} /\ o.audio = [i \in Slots |-> Nil])
               /\ Carried(o) \subseteq Carried(output[s])
               /\ Carried(o) \subseteq UNION {Carried(p) : p \in AllOutputs}
<1>1. s \in Objects
  BY DEF Objects
<1>2. CASE Recreates(s)
  <2> DEFINE type == getStreamOutputType(stream[s].service)
  <2>1. type \in {"rtmp_output", "ffmpeg_hls_muxer", "ffmpeg_mpegts_muxer", "replay_buffer"}
    BY TypeOfOutput
  <2>2. checkOutput(s) = NewObsOutput(type)
    BY <1>2 DEF checkOutput
  <2>. HIDE DEF type
  <2>. QED
    BY <2>1, <2>2, NewOutputIs
<1>3. CASE ~Recreates(s)
  <2>1. output[s] # Nil /\ checkOutput(s) = output[s]
    BY <1>3 DEF Recreates, checkOutput
  <2>. QED
    BY <1>1, <2>1, OutputsAre
<1>. QED
  BY <1>2, <1>3

LEMMA IdleIs ==
    ASSUME StreamTypes, NEW r \in Replays
    PROVE  LET o == Idle(r)
           IN  /\ o \in ObsOutputs /\ o # Nil
               /\ o = output[r] \/ (output[r] = Nil /\ ~Running(o) /\ ~o.stats /\ Carried(o) = {} /\ o.audio = [i \in Slots |-> Nil])
               /\ Carried(o) \subseteq Carried(output[r])
               /\ Carried(o) \subseteq UNION {Carried(p) : p \in AllOutputs}
<1>1. r \in Objects
  BY DEF Objects
<1>2. CASE output[r] = Nil
  BY <1>2, NewOutputIs DEF Idle
<1>3. CASE output[r] # Nil
  <2>1. Idle(r) = output[r]
    BY <1>3 DEF Idle
  <2>. QED
    BY <1>1, <1>3, <2>1, OutputsAre
<1>. QED
  BY <1>2, <1>3

-----------------------------------------------------------------------------
(* New encoders.                                                              *)

\* What no new encoder may be.
Taken == owned \cup UNION {Carried(o) : o \in AllOutputs}

\* With an encoder to spare, and only one other made in this start, what is made
\* is new: nobody's, and on no output.
LEMMA FreshIs ==
    ASSUME Spare, NEW track \in Tracks, NEW mine, NEW outs, NEW other,
           mine \subseteq Taken \cup {other},
           \A o \in outs : Carried(o) \cap MadeEncoders \subseteq Taken \cup {other}
    PROVE  LET e == Fresh(track, mine, outs)
           IN  e \in MadeEncoders /\ e[1] = track /\ e \notin mine /\ \A o \in outs : e \notin Carried(o)
<1> DEFINE taken == mine \cup UNION {Carried(o) : o \in outs}
           n == CHOOSE n \in 1 .. Copies : <<track, n>> \notin taken
<1>1. PICK k, m \in 1 .. Copies : k # m /\ {<<track, k>>, <<track, m>>} \cap Taken = {}
  BY DEF Spare, Taken
<1>2. taken \cap MadeEncoders \subseteq Taken \cup {other}
  OBVIOUS
<1>3. <<track, k>> \in MadeEncoders /\ <<track, m>> \in MadeEncoders /\ <<track, k>> # <<track, m>>
  BY <1>1 DEF MadeEncoders
<1>4. <<track, k>> \notin taken \/ <<track, m>> \notin taken
  BY <1>1, <1>2, <1>3
<1>5. n \in 1 .. Copies /\ <<track, n>> \notin taken
  BY <1>1, <1>4
<1>6. Fresh(track, mine, outs) = <<track, n>>
  BY DEF Fresh
<1>. HIDE DEF n
<1>7. <<track, n>> \in MadeEncoders
  BY <1>5 DEF MadeEncoders
<1>. QED
  BY <1>5, <1>6, <1>7

-----------------------------------------------------------------------------
(* Owners.                                                                    *)

\* Nobody's encoders and outputs but those of s are changed.
OnlyOf(s) ==
    \A x \in Objects \ {s} : output'[x] = output[x] /\ lingering'[x] = lingering[x] /\ HeldBy(x)' = HeldBy(x)

\* A step that releases encoders of s alone, unless what s let go of has them, and
\* makes others that are new keeps every encoder owned once.
LEMMA OneOwner ==
    ASSUME NEW s \in Objects, EncodersOwned, OwnersCarry, OnlyOf(s),
           HeldBy(s)' \subseteq owned', owned \ HeldBy(s) \subseteq owned',
           owned' \subseteq (owned \ HeldBy(s)) \cup HeldBy(s)' \cup {e \in HeldBy(s) : s \in Streams /\ e \in Carried(lingering'[s])},
           \A e \in HeldBy(s)' \ HeldBy(s) :
                /\ e \notin owned
                /\ \A x \in Objects \ {s} : e \notin Carried(output[x]) \cup Carried(lingering[x]),
           s \in Streams => Carried(lingering[s]) \subseteq Carried(lingering'[s]),
           (Carried(output'[s]) \cup Carried(lingering'[s])) \cap owned
                \subseteq Carried(output[s]) \cup Carried(lingering[s]) \cup HeldBy(s) \cup HeldBy(s)'
    PROVE  EncodersOwned' /\ OwnersCarry'
<1>1. \A x \in Objects : HeldBy(x) \subseteq owned
  BY DEF EncodersOwned
<1>2. \A x, y \in Objects : x # y => HeldBy(x) \cap HeldBy(y) = {}
  BY DEF EncodersOwned
<1>3. \A x, y \in Objects : x # y => HeldBy(x) \cap (Carried(output[y]) \cup Carried(lingering[y])) = {}
  BY DEF OwnersCarry
<1>4. \A x \in Objects \ {s} : output'[x] = output[x] /\ lingering'[x] = lingering[x] /\ HeldBy(x)' = HeldBy(x)
  BY DEF OnlyOf
<1>5. \A x \in Objects \ {s} : HeldBy(x) \cap HeldBy(s)' = {}
  BY <1>1, <1>2
<1>6. ASSUME NEW x \in Objects PROVE HeldBy(x)' \subseteq owned'
  BY <1>1, <1>2, <1>4
<1>7. ASSUME NEW x \in Objects, NEW y \in Objects, x # y PROVE HeldBy(x)' \cap HeldBy(y)' = {}
  <2>1. CASE x = s
    BY <2>1, <1>4, <1>5, <1>7
  <2>2. CASE y = s
    BY <2>2, <1>4, <1>5, <1>7
  <2>3. CASE x # s /\ y # s
    BY <2>3, <1>2, <1>4, <1>7
  <2>. QED
    BY <2>1, <2>2, <2>3
<1>8. ASSUME NEW e \in owned'
      PROVE  (\E x \in Objects : e \in HeldBy(x)') \/ (\E x \in Streams : e \in Carried(lingering'[x]))
  <2>1. CASE e \in HeldBy(s)'
    BY <2>1
  <2>2. CASE e \in HeldBy(s) /\ s \in Streams /\ e \in Carried(lingering'[s])
    BY <2>2
  <2>3. CASE e \in owned \ HeldBy(s)
    <3>1. CASE \E x \in Objects : e \in HeldBy(x)
      BY <2>3, <3>1, <1>4
    <3>2. CASE \E x \in Streams : e \in Carried(lingering[x])
      <4>1. PICK x \in Streams : e \in Carried(lingering[x])
        BY <3>2
      <4>2. x = s \/ lingering'[x] = lingering[x]
        BY <1>4 DEF Objects
      <4>. QED
        BY <4>1, <4>2
    <3>. QED
      BY <2>3, <3>1, <3>2 DEF EncodersOwned
  <2>. QED
    BY <2>1, <2>2, <2>3
<1>9. ASSUME NEW x \in Objects, NEW y \in Objects, x # y
      PROVE  HeldBy(x)' \cap (Carried(output'[y]) \cup Carried(lingering'[y])) = {}
  <2>1. CASE y # s /\ x # s
    BY <2>1, <1>3, <1>4, <1>9
  <2>2. CASE x = s
    <3>1. output'[y] = output[y] /\ lingering'[y] = lingering[y]
      BY <2>2, <1>4, <1>9
    <3>2. HeldBy(s) \cap (Carried(output[y]) \cup Carried(lingering[y])) = {}
      BY <2>2, <1>3, <1>9
    <3>. QED
      BY <2>2, <3>1, <3>2, <1>9
  <2>3. CASE y = s
    <3>1. HeldBy(x)' = HeldBy(x) /\ HeldBy(x) \subseteq owned
      BY <2>3, <1>1, <1>4, <1>9
    <3>2. HeldBy(x) \cap (Carried(output[s]) \cup Carried(lingering[s])) = {}
      BY <2>3, <1>3, <1>9
    <3>3. HeldBy(x) \cap HeldBy(s) = {} /\ HeldBy(x) \cap HeldBy(s)' = {}
      BY <2>3, <1>2, <1>5, <1>9
    <3>. QED
      BY <2>3, <3>1, <3>2, <3>3
  <2>. QED
    BY <2>1, <2>2, <2>3
<1>10. EncodersOwned'
  BY <1>6, <1>7, <1>8 DEF EncodersOwned
<1>11. OwnersCarry'
  BY <1>9 DEF OwnersCarry
<1>. QED
  BY <1>10, <1>11

\* A step that changes nobody's encoders, and nothing that an output carries.
LEMMA SameOwners ==
    ASSUME EncodersOwned, OwnersCarry, UNCHANGED owned,
           \A x \in Objects : /\ HeldBy(x)' = HeldBy(x)
                              /\ Carried(output'[x]) = Carried(output[x])
                              /\ Carried(lingering'[x]) = Carried(lingering[x])
    PROVE  EncodersOwned' /\ OwnersCarry'
<1>1. Streams \subseteq Objects
  BY DEF Objects
<1>2. EncodersOwned'
  BY <1>1 DEF EncodersOwned
<1>3. OwnersCarry'
  BY DEF OwnersCarry
<1>. QED
  BY <1>2, <1>3

-----------------------------------------------------------------------------
(* Calls that set something.                                                  *)

\* What a stream holds before it is created counts as nothing.
Archive(s) == IF stream[s] = Nil THEN Nil ELSE stream[s].streamArchive
OwnAudio(s) == IF stream[s] = Nil THEN Nil ELSE stream[s].audioEncoder

LEMMA ChangeKeeps ==
    ASSUME StreamsInv, NEW s \in Streams, NEW st \in StreamSettings,
           st.streamArchive = Archive(s), s \in Advanceds => st.audioEncoder = OwnAudio(s),
           s \in Simples => st.audioEncoder \in AudioEncoders \cup {Nil},
           stream' = [stream EXCEPT ![s] = st], sets' \in Nat,
           UNCHANGED <<uses, replay, tracks, outputs, dying, starts>>
    PROVE  StreamsInv'
<1>1. UNCHANGED <<uses, replay, tracks, output, lingering, broadcast, owned, bitrate, dying, starts>>
  BY DEF outputs
<1>2. /\ stream' \in [Streams -> StreamSettings \cup {Nil}] /\ stream'[s] = st /\ st # Nil
      /\ \A x \in Streams : x # s => stream'[x] = stream[x]
  BY StreamingOutputsAssumption DEF StreamsInv, StreamTypes
<1>3. StreamTypes'
  BY <1>1, <1>2 DEF StreamsInv, StreamTypes
<1>4. StreamsOK'
  <2>1. ASSUME NEW x \in Streams PROVE StreamOK(x)'
    <3>1. CASE x # s
      BY <3>1, <1>2 DEF StreamsInv, StreamsOK, StreamOK
    <3>2. CASE x = s
      <4>1. StreamOK(s)
        BY DEF StreamsInv, StreamsOK
      <4>2. s \in Advanceds => st.audioEncoder \in MadeEncoders \cup {Nil}
        BY <4>1 DEF StreamOK, OwnAudio
      <4>3. s \in Simples /\ st.streamArchive # Nil => st.streamArchive[1] = VodTrackMixerIndex + 1
        BY <4>1 DEF StreamOK, Archive
      <4>4. s \in Advanceds /\ st.streamArchive # Nil => st.streamArchive # st.audioEncoder
        BY <4>1 DEF StreamOK, Archive, OwnAudio
      <4>5. s \in Broadcasts => st.streamArchive = Nil /\ (s \in Advanceds => st.audioEncoder = Nil)
        BY <4>1 DEF StreamOK, Archive, OwnAudio
      <4>. QED
        BY <3>2, <1>2, <4>2, <4>3, <4>4, <4>5 DEF StreamOK
    <3>. QED
      BY <3>1, <3>2
  <2>. QED
    BY <2>1 DEF StreamsOK
<1>5. ReplaysOK'
  <2>1. ASSUME NEW r \in Replays PROVE ReplayOK(r)'
    <3>1. ReplayOK(r)
      BY DEF StreamsInv, ReplaysOK
    <3>2. Simples \subseteq Streams /\ Advanceds \subseteq Streams
      BY DEF Streams
    <3>. QED
      BY <3>1, <3>2, <1>1, <1>2 DEF ReplayOK
  <2>. QED
    BY <2>1 DEF ReplaysOK
<1>6. OutputsOK'
  <2>1. ASSUME NEW x \in Objects PROVE OutputOK(x)'
    <3>1. OutputOK(x)
      BY DEF StreamsInv, OutputsOK
    <3>2. x = s \/ x \notin Streams \/ stream'[x] = stream[x]
      BY <1>2
    <3>3. Simples \subseteq Streams
      BY DEF Streams
    <3>4. x = s /\ stream[x] = Nil => output[x] = Nil
      BY <3>1 DEF OutputOK
    <3>5. x = s /\ stream[x] # Nil => stream'[x].streamArchive = stream[x].streamArchive
      BY <1>2 DEF Archive
    <3>. QED
      BY <3>1, <3>2, <3>3, <3>4, <3>5, <1>1, <1>2 DEF OutputOK
  <2>. QED
    BY <2>1 DEF OutputsOK
<1>7. DyingOK'
  BY <1>1 DEF StreamsInv, DyingOK, Running
<1>8. ASSUME NEW x \in Objects PROVE HeldBy(x)' = HeldBy(x)
  <2>1. CASE x # s
    BY <2>1, <1>1, <1>2 DEF HeldBy, Objects
  <2>2. CASE x = s
    <3>1. s \notin Replays
      BY StreamingOutputsAssumption
    <3>2. HeldBy(s) = (IF s \in Broadcasts THEN broadcast[s] ELSE {}) \cup (({Archive(s)} \cup IF s \in Advanceds THEN {OwnAudio(s)} ELSE {}) \ {Nil})
      BY <3>1 DEF HeldBy, Archive, OwnAudio
    <3>3. HeldBy(s)' = (IF s \in Broadcasts THEN broadcast[s] ELSE {}) \cup (({st.streamArchive} \cup IF s \in Advanceds THEN {st.audioEncoder} ELSE {}) \ {Nil})
      BY <3>1, <1>1, <1>2 DEF HeldBy
    <3>. QED
      BY <2>2, <3>2, <3>3
  <2>. QED
    BY <2>1, <2>2
<1>9. EncodersOwned' /\ OwnersCarry'
  BY <1>1, <1>8, SameOwners DEF StreamsInv
<1>10. CountedKept'
  BY <1>1 DEF StreamsInv, CountedKept, Running
<1>. QED
  BY <1>3, <1>4, <1>5, <1>6, <1>7, <1>9, <1>10 DEF StreamsInv

LEMMA ReplayChangeKeeps ==
    ASSUME StreamsInv, NEW r \in Replays, NEW rb \in ReplaySettings,
           rb.audioEncoders = IF replay[r] = Nil THEN {} ELSE replay[r].audioEncoders,
           rb.streaming # Nil => /\ rb.streaming \in IF r \in SimpleReplays THEN Simples ELSE Advanceds
                                 /\ stream[rb.streaming] # Nil,
           replay' = [replay EXCEPT ![r] = rb], sets' \in Nat,
           UNCHANGED <<uses, stream, tracks, outputs, dying, starts>>
    PROVE  StreamsInv'
<1>1. UNCHANGED <<uses, stream, tracks, output, lingering, broadcast, owned, bitrate, dying, starts>>
  BY DEF outputs
<1>2. /\ replay' \in [Replays -> ReplaySettings \cup {Nil}] /\ replay'[r] = rb /\ rb # Nil
      /\ \A x \in Replays : x # r => replay'[x] = replay[x]
  BY StreamingOutputsAssumption DEF StreamsInv, StreamTypes
<1>3. StreamTypes'
  BY <1>1, <1>2 DEF StreamsInv, StreamTypes
<1>4. StreamsOK'
  BY <1>1 DEF StreamsInv, StreamsOK, StreamOK
<1>5. ReplaysOK'
  <2>1. ASSUME NEW x \in Replays PROVE ReplayOK(x)'
    <3>1. ReplayOK(x)
      BY DEF StreamsInv, ReplaysOK
    <3>. QED
      BY <3>1, <1>1, <1>2 DEF ReplayOK
  <2>. QED
    BY <2>1 DEF ReplaysOK
<1>6. OutputsOK'
  <2>1. ASSUME NEW x \in Objects PROVE OutputOK(x)'
    <3>1. OutputOK(x)
      BY DEF StreamsInv, OutputsOK
    <3>. QED
      BY <3>1, <1>1, <1>2 DEF OutputOK
  <2>. QED
    BY <2>1 DEF OutputsOK
<1>7. DyingOK'
  BY <1>1 DEF StreamsInv, DyingOK, Running
<1>8. ASSUME NEW x \in Objects PROVE HeldBy(x)' = HeldBy(x)
  <2>1. CASE x # r
    BY <2>1, <1>1, <1>2 DEF HeldBy, Objects
  <2>2. CASE x = r
    BY <2>2, <1>2 DEF HeldBy
  <2>. QED
    BY <2>1, <2>2
<1>9. EncodersOwned' /\ OwnersCarry'
  BY <1>1, <1>8, SameOwners DEF StreamsInv
<1>10. CountedKept'
  BY <1>1 DEF StreamsInv, CountedKept, Running
<1>. QED
  BY <1>3, <1>4, <1>5, <1>6, <1>7, <1>9, <1>10 DEF StreamsInv

\* The output or what was let go of ends or is no longer counted: it carries what
\* it carried.
LEMMA EndingKeeps ==
    ASSUME StreamsInv, NEW x \in Objects, NEW o \in ObsOutputs \cup {Nil}, NEW kept \in ObsOutputs \cup {Nil},
           o = output[x] \/ (output[x] # Nil /\ o # Nil /\ o.audio = output[x].audio /\ o.video = output[x].video),
           kept = lingering[x] \/ (lingering[x] # Nil /\ kept # Nil /\ kept.audio = lingering[x].audio /\ kept.video = lingering[x].video),
           Running(o) => Running(output[x]), o # Nil => (o.stats => output[x].stats),
           PutOutput(x, o, kept),
           UNCHANGED <<settings, broadcast, owned, bitrate, dying, starts>>
    PROVE  StreamsInv'
<1>1. UNCHANGED <<uses, stream, replay, tracks, sets, broadcast, owned, bitrate, dying, starts>>
  BY DEF settings
<1>2. /\ output' \in [Objects -> ObsOutputs \cup {Nil}] /\ output'[x] = o
      /\ lingering' \in [Objects -> ObsOutputs \cup {Nil}] /\ lingering'[x] = kept
      /\ \A y \in Objects : y # x => output'[y] = output[y] /\ lingering'[y] = lingering[y]
  BY DEF StreamsInv, StreamTypes, PutOutput
<1>3. StreamTypes'
  BY <1>1, <1>2 DEF StreamsInv, StreamTypes
<1>4. StreamsOK'
  BY <1>1 DEF StreamsInv, StreamsOK, StreamOK
<1>5. ReplaysOK'
  BY <1>1 DEF StreamsInv, ReplaysOK, ReplayOK
<1>6. OutputsOK'
  <2>1. ASSUME NEW y \in Objects PROVE OutputOK(y)'
    <3>1. OutputOK(y)
      BY DEF StreamsInv, OutputsOK
    <3>2. CASE y # x
      BY <3>1, <3>2, <1>1, <1>2 DEF OutputOK
    <3>3. CASE y = x
      BY <3>1, <3>3, <1>1, <1>2 DEF OutputOK
    <3>. QED
      BY <3>2, <3>3
  <2>. QED
    BY <2>1 DEF OutputsOK
<1>7. ASSUME NEW y \in Objects
      PROVE  /\ HeldBy(y)' = HeldBy(y) /\ Carried(output'[y]) = Carried(output[y])
             /\ Carried(lingering'[y]) = Carried(lingering[y])
  <2>1. HeldBy(y)' = HeldBy(y)
    BY <1>1 DEF HeldBy
  <2>2. Carried(o) = Carried(output[x])
    BY DEF Carried, Heard
  <2>3. Carried(kept) = Carried(lingering[x])
    BY DEF Carried, Heard
  <2>. QED
    BY <2>1, <2>2, <2>3, <1>2
<1>8. EncodersOwned' /\ OwnersCarry'
  BY <1>1, <1>7, SameOwners DEF StreamsInv
<1>9. Broadcasts \subseteq Objects
  BY StreamingOutputsAssumption DEF Objects
<1>10. DyingOK'
  <2>1. dying # Nil => dying \in Objects
    BY <1>9 DEF StreamsInv, StreamTypes
  <2>. QED
    BY <1>1, <1>2, <2>1 DEF StreamsInv, DyingOK, Running
<1>11. CountedKept'
  BY <1>1, <1>2, <1>9 DEF StreamsInv, CountedKept, Running
<1>. QED
  BY <1>3, <1>4, <1>5, <1>6, <1>8, <1>10, <1>11 DEF StreamsInv

-----------------------------------------------------------------------------
(* Calls that start an output or destroy its object.                          *)

\* A step of a stream, which leaves the others alone.
LEMMA StreamStepKeeps ==
    ASSUME StreamsInv, NEW s \in Streams, NEW o \in ObsOutputs \cup {Nil}, NEW kept \in ObsOutputs \cup {Nil},
           NEW st \in StreamSettings \cup {Nil}, NEW mine \in SUBSET MadeEncoders,
           PutOutput(s, o, kept), stream' = [stream EXCEPT ![s] = st],
           IF s \in Broadcasts THEN broadcast' = [broadcast EXCEPT ![s] = mine] ELSE broadcast' = broadcast,
           UNCHANGED <<uses, replay, tracks, sets>>, starts' \in Nat,
           bitrate' \in [VideoEncoders -> {"low", "high"}], owned' \subseteq MadeEncoders,
           dying \in {Nil, s}, dying' = Nil \/ (dying' = s /\ s \in Broadcasts /\ mine = {}),
           st = Nil => ~Lent(s), StreamOK(s)', OutputOK(s)',
           s \in Broadcasts /\ Running(o) /\ o.stats => mine # {} \/ dying' = s,
           HeldBy(s)' \subseteq owned', owned \ HeldBy(s) \subseteq owned',
           owned' \subseteq (owned \ HeldBy(s)) \cup HeldBy(s)' \cup {e \in HeldBy(s) : e \in Carried(kept)},
           \A e \in HeldBy(s)' \ HeldBy(s) :
                /\ e \notin owned
                /\ \A x \in Objects \ {s} : e \notin Carried(output[x]) \cup Carried(lingering[x]),
           Carried(lingering[s]) \subseteq Carried(kept),
           (Carried(o) \cup Carried(kept)) \cap owned
                \subseteq Carried(output[s]) \cup Carried(lingering[s]) \cup HeldBy(s) \cup HeldBy(s)'
    PROVE  StreamsInv'
<1>1. s \in Objects /\ s \notin Replays
  BY StreamingOutputsAssumption DEF Objects
<1>2. /\ output' \in [Objects -> ObsOutputs \cup {Nil}] /\ output'[s] = o
      /\ lingering' \in [Objects -> ObsOutputs \cup {Nil}] /\ lingering'[s] = kept
      /\ \A y \in Objects : y # s => output'[y] = output[y] /\ lingering'[y] = lingering[y]
  BY <1>1 DEF StreamsInv, StreamTypes, PutOutput
<1>3. /\ stream' \in [Streams -> StreamSettings \cup {Nil}] /\ stream'[s] = st
      /\ \A y \in Streams : y # s => stream'[y] = stream[y]
  BY DEF StreamsInv, StreamTypes
<1>4. /\ broadcast' \in [Broadcasts -> SUBSET MadeEncoders] /\ (s \in Broadcasts => broadcast'[s] = mine)
      /\ \A b \in Broadcasts : b # s => broadcast'[b] = broadcast[b]
  BY DEF StreamsInv, StreamTypes
<1>5. StreamTypes'
  BY <1>2, <1>3, <1>4 DEF StreamsInv, StreamTypes
<1>6. StreamsOK'
  <2>1. ASSUME NEW x \in Streams PROVE StreamOK(x)'
    <3>1. CASE x # s
      BY <3>1, <1>3 DEF StreamsInv, StreamsOK, StreamOK
    <3>2. CASE x = s
      BY <3>2
    <3>. QED
      BY <3>1, <3>2
  <2>. QED
    BY <2>1 DEF StreamsOK
<1>7. ReplaysOK'
  <2>1. ASSUME NEW r \in Replays PROVE ReplayOK(r)'
    <3>1. ReplayOK(r)
      BY DEF StreamsInv, ReplaysOK
    <3>2. Simples \subseteq Streams /\ Advanceds \subseteq Streams
      BY DEF Streams
    <3>3. replay[r] # Nil /\ replay[r].streaming = s => st # Nil
      BY DEF Lent
    <3>. QED
      BY <3>1, <3>2, <3>3, <1>3 DEF ReplayOK
  <2>. QED
    BY <2>1 DEF ReplaysOK
<1>8. OutputsOK'
  <2>1. ASSUME NEW x \in Objects PROVE OutputOK(x)'
    <3>1. CASE x # s
      <4>1. OutputOK(x)
        BY DEF StreamsInv, OutputsOK
      <4>2. x \in Streams => stream'[x] = stream[x]
        BY <3>1, <1>3
      <4>3. Simples \subseteq Streams
        BY DEF Streams
      <4>. QED
        BY <3>1, <4>1, <4>2, <4>3, <1>2 DEF OutputOK
    <3>2. CASE x = s
      BY <3>2
    <3>. QED
      BY <3>1, <3>2
  <2>. QED
    BY <2>1 DEF OutputsOK
<1>9. DyingOK'
  <2>1. CASE dying' = Nil
    BY <2>1 DEF DyingOK
  <2>2. CASE dying' = s /\ s \in Broadcasts /\ mine = {}
    BY <2>2, <1>4 DEF DyingOK
  <2>. QED
    BY <2>1, <2>2
<1>10. OnlyOf(s)
  <2>1. ASSUME NEW x \in Objects \ {s} PROVE HeldBy(x)' = HeldBy(x)
    <3>1. CASE x \in Replays
      BY <3>1 DEF HeldBy
    <3>2. CASE x \notin Replays
      BY <3>2, <1>3, <1>4 DEF HeldBy, Objects
    <3>. QED
      BY <3>1, <3>2
  <2>. QED
    BY <2>1, <1>2 DEF OnlyOf
<1>11. EncodersOwned' /\ OwnersCarry'
  <2>1. EncodersOwned /\ OwnersCarry
    BY DEF StreamsInv
  <2>2. {e \in HeldBy(s) : e \in Carried(kept)} \subseteq {e \in HeldBy(s) : s \in Streams /\ e \in Carried(lingering'[s])}
    BY <1>2
  <2>. QED
    BY <1>1, <1>2, <1>10, <2>1, <2>2, OneOwner
<1>12. CountedKept'
  <2>1. ASSUME NEW b \in Broadcasts, Running(output'[b]) /\ output'[b].stats PROVE broadcast'[b] # {} \/ dying' = b
    <3>1. b \in Objects /\ b # Nil
      BY StreamingOutputsAssumption DEF Objects
    <3>2. CASE b = s
      <4>1. output'[b] = o /\ broadcast'[b] = mine
        BY <3>2, <1>2, <1>4
      <4>2. Running(o) /\ o.stats
        BY <2>1, <4>1, Zenon
      <4>. QED
        BY <3>2, <4>1, <4>2
    <3>3. CASE b # s
      <4>1. output'[b] = output[b] /\ broadcast'[b] = broadcast[b]
        BY <3>1, <3>3, <1>2, <1>4
      <4>2. dying # b
        BY <3>1, <3>3
      <4>. QED
        BY <2>1, <4>1, <4>2 DEF StreamsInv, CountedKept
    <3>. QED
      BY <3>2, <3>3
  <2>2. \A x \in Objects : Running(output[x])' = Running(output'[x])
    BY DEF Running
  <2>3. Broadcasts \subseteq Objects
    BY StreamingOutputsAssumption DEF Objects
  <2>. QED
    BY <2>1, <2>2, <2>3 DEF CountedKept
<1>. QED
  BY <1>5, <1>6, <1>7, <1>8, <1>9, <1>11, <1>12 DEF StreamsInv

\* And of a replay buffer.
LEMMA ReplayStepKeeps ==
    ASSUME StreamsInv, NEW r \in Replays, NEW o \in ObsOutputs \cup {Nil}, NEW kept \in ObsOutputs \cup {Nil},
           NEW rb \in ReplaySettings \cup {Nil},
           PutOutput(r, o, kept), replay' = [replay EXCEPT ![r] = rb],
           UNCHANGED <<uses, stream, tracks, sets, broadcast, dying>>, starts' \in Nat,
           bitrate' \in [VideoEncoders -> {"low", "high"}], owned' \subseteq MadeEncoders,
           ReplayOK(r)', OutputOK(r)',
           HeldBy(r)' \subseteq owned', owned \ HeldBy(r) \subseteq owned',
           owned' \subseteq (owned \ HeldBy(r)) \cup HeldBy(r)',
           \A e \in HeldBy(r)' \ HeldBy(r) :
                /\ e \notin owned
                /\ \A x \in Objects \ {r} : e \notin Carried(output[x]) \cup Carried(lingering[x]),
           (Carried(o) \cup Carried(kept)) \cap owned
                \subseteq Carried(output[r]) \cup Carried(lingering[r]) \cup HeldBy(r) \cup HeldBy(r)'
    PROVE  StreamsInv'
<1>1. r \in Objects /\ r \notin Streams
  BY StreamingOutputsAssumption DEF Objects
<1>2. /\ output' \in [Objects -> ObsOutputs \cup {Nil}] /\ output'[r] = o
      /\ lingering' \in [Objects -> ObsOutputs \cup {Nil}] /\ lingering'[r] = kept
      /\ \A y \in Objects : y # r => output'[y] = output[y] /\ lingering'[y] = lingering[y]
  BY <1>1 DEF StreamsInv, StreamTypes, PutOutput
<1>3. /\ replay' \in [Replays -> ReplaySettings \cup {Nil}] /\ replay'[r] = rb
      /\ \A y \in Replays : y # r => replay'[y] = replay[y]
  BY DEF StreamsInv, StreamTypes
<1>4. StreamTypes'
  BY <1>2, <1>3 DEF StreamsInv, StreamTypes
<1>5. StreamsOK'
  BY DEF StreamsInv, StreamsOK, StreamOK
<1>6. ReplaysOK'
  <2>1. ASSUME NEW x \in Replays PROVE ReplayOK(x)'
    <3>1. CASE x # r
      BY <3>1, <1>3 DEF StreamsInv, ReplaysOK, ReplayOK
    <3>2. CASE x = r
      BY <3>2
    <3>. QED
      BY <3>1, <3>2
  <2>. QED
    BY <2>1 DEF ReplaysOK
<1>7. OutputsOK'
  <2>1. ASSUME NEW x \in Objects PROVE OutputOK(x)'
    <3>1. CASE x # r
      <4>1. OutputOK(x)
        BY DEF StreamsInv, OutputsOK
      <4>. QED
        BY <3>1, <4>1, <1>2, <1>3 DEF OutputOK
    <3>2. CASE x = r
      BY <3>2
    <3>. QED
      BY <3>1, <3>2
  <2>. QED
    BY <2>1 DEF OutputsOK
<1>8. Broadcasts \subseteq Objects /\ r \notin Broadcasts
  BY <1>1, StreamingOutputsAssumption DEF Objects
<1>9. \A x \in Objects : Running(output[x])' = Running(output'[x])
  BY DEF Running
<1>10. DyingOK'
  <2>1. dying # Nil => dying \in Objects \ {r}
    BY <1>8 DEF StreamsInv, StreamTypes
  <2>. QED
    BY <1>2, <2>1 DEF StreamsInv, DyingOK, Running
<1>11. OnlyOf(r)
  <2>1. ASSUME NEW x \in Objects \ {r} PROVE HeldBy(x)' = HeldBy(x)
    BY <1>3 DEF HeldBy
  <2>. QED
    BY <2>1, <1>2 DEF OnlyOf
<1>12. EncodersOwned' /\ OwnersCarry'
  <2>1. EncodersOwned /\ OwnersCarry
    BY DEF StreamsInv
  <2>. QED
    BY <1>1, <1>2, <1>11, <2>1, OneOwner
<1>13. CountedKept'
  <2>1. \A b \in Broadcasts : Running(output'[b]) /\ output'[b].stats => broadcast'[b] # {} \/ dying' = b
    BY <1>2, <1>8 DEF StreamsInv, CountedKept
  <2>. QED
    BY <2>1, <1>8, <1>9 DEF CountedKept
<1>. QED
  BY <1>4, <1>5, <1>6, <1>7, <1>10, <1>12, <1>13 DEF StreamsInv

-----------------------------------------------------------------------------
(* The second audio of a stream.                                              *)

\* What setting up an encoder leaves: the output with what it had and the encoder,
\* which is the one of before or a new one, and nothing lost or owned for nothing.
SetupOK(p, o, old, mine, outs) ==
    /\ p.output \in ObsOutputs /\ p.output # Nil
    /\ p.output.running = o.running /\ p.output.stats = o.stats
    /\ p.output.video = o.video /\ p.output.service = o.service
    /\ Running(o) => p.output = o
    /\ Carried(p.output) \subseteq Carried(o) \cup {p.encoder}
    /\ p.encoder \in MadeEncoders \cup {Nil}
    /\ p.encoder # Nil => p.encoder \in p.owned
    /\ mine \ {old} \subseteq p.owned
    /\ p.owned \subseteq (mine \ {old}) \cup ({p.encoder} \ {Nil})
    /\ p.encoder \notin {old, Nil} => p.encoder \notin mine /\ \A q \in outs : p.encoder \notin Carried(q)

LEMMA OutsAre ==
    ASSUME StreamTypes, NEW x \in Objects, NEW o, Carried(o) \subseteq UNION {Carried(p) : p \in AllOutputs},
           NEW kept \in Leaves(x)
    PROVE  /\ \A p \in OutputsWith(x, o, kept) : Carried(p) \subseteq Taken
           /\ \A y \in Objects \ {x} : output[y] \in OutputsWith(x, o, kept) /\ lingering[y] \in OutputsWith(x, o, kept)
           /\ o \in OutputsWith(x, o, kept) /\ kept \in OutputsWith(x, o, kept)
<1>1. Carried(kept) \subseteq Taken /\ Carried(o) \subseteq Taken
  BY LeftIs DEF Taken
<1>2. \A y \in Objects : Carried(output[y]) \subseteq Taken /\ Carried(lingering[y]) \subseteq Taken
  BY OutputsAre DEF Taken
<1>. QED
  BY <1>1, <1>2 DEF OutputsWith

\* What a setup goes on from.
SetupFrom(o, old, mine, outs, other) ==
    /\ Spare /\ o \in ObsOutputs /\ old \in MadeEncoders \cup {Nil} /\ mine \subseteq MadeEncoders
    /\ old # Nil => old \in mine
    /\ mine \subseteq Taken \cup {other}
    /\ \A q \in outs \cup {o} : Carried(q) \cap MadeEncoders \subseteq Taken \cup {other}

LEMMA SameSetup ==
    ASSUME NEW o, NEW old, NEW mine, NEW outs, NEW other, SetupFrom(o, old, mine, outs, other)
    PROVE  SetupOK(Setup(o, old, mine), o, old, mine, outs)
<1>1. o \in ObsOutputs /\ o # Nil /\ Nil \notin mine
  BY RunningIs, StreamingOutputsAssumption DEF SetupFrom
<1>2. LET q == Setup(o, old, mine) IN q.output = o /\ q.encoder = old /\ q.owned = mine
  BY DEF Setup
<1>. QED
  BY <1>1, <1>2 DEF SetupOK, SetupFrom

\* An encoder that is put into a slot.
LEMMA PutSetup ==
    ASSUME NEW o, NEW old, NEW mine, NEW outs, NEW other, SetupFrom(o, old, mine, outs, other),
           NEW i \in Slots, NEW e \in MadeEncoders, NEW new \in SUBSET MadeEncoders,
           e \in new, mine \ {old} \subseteq new, new \subseteq (mine \ {old}) \cup {e},
           e # old => e \notin mine /\ \A q \in outs : e \notin Carried(q)
    PROVE  SetupOK(Setup(SetAudio(o, i, e), e, new), o, old, mine, outs)
<1> DEFINE p == SetAudio(o, i, e)
<1>1. /\ o \in ObsOutputs /\ Nil \notin MadeEncoders
      /\ e \in AudioEncoders \cup MadeEncoders \cup {RecorderAudio, Nil}
  BY StreamingOutputsAssumption DEF SetupFrom
<1>2. /\ p \in ObsOutputs /\ p # Nil /\ (Running(o) => p = o)
      /\ p.running = o.running /\ p.video = o.video /\ p.stats = o.stats /\ p.service = o.service
      /\ Carried(p) \subseteq Carried(o) \cup {e}
  <2>. HIDE DEF p
  <2>1. p = SetAudio(o, i, e)
    BY DEF p
  <2>2. i \in Slots
    OBVIOUS
  <2>. QED
    BY ONLY <1>1, <2>1, <2>2, AudioSet
<1>. HIDE DEF p
<1>3. Setup(p, e, new).output = p /\ Setup(p, e, new).encoder = e /\ Setup(p, e, new).owned = new
  BY DEF Setup
<1>4. SetupOK(Setup(p, e, new), o, old, mine, outs)
  BY <1>1, <1>2, <1>3, Zenon DEF SetupOK
<1>. QED
  BY <1>4 DEF p

\* The encoder of before is released, and its slot cleared.
LEMMA ClearSetup ==
    ASSUME NEW o, NEW old, NEW mine, NEW outs, NEW other, SetupFrom(o, old, mine, outs, other), NEW i \in Slots
    PROVE  SetupOK(Setup(SetAudio(o, i, Nil), Nil, mine \ {old}), o, old, mine, outs)
<1> DEFINE p == SetAudio(o, i, Nil)
<1>1. o \in ObsOutputs /\ Nil \in AudioEncoders \cup MadeEncoders \cup {RecorderAudio, Nil}
  BY DEF SetupFrom
<1>2. /\ p \in ObsOutputs /\ p # Nil /\ (Running(o) => p = o)
      /\ p.running = o.running /\ p.video = o.video /\ p.stats = o.stats /\ p.service = o.service
      /\ Carried(p) \subseteq Carried(o) \cup {Nil}
  BY <1>1, AudioSet
<1>. HIDE DEF p
<1>3. LET q == Setup(p, Nil, mine \ {old}) IN q.output = p /\ q.encoder = Nil /\ q.owned = mine \ {old}
  BY DEF Setup
<1>4. SetupOK(Setup(p, Nil, mine \ {old}), o, old, mine, outs)
  BY <1>1, <1>2, <1>3, Zenon DEF SetupOK
<1>. QED
  BY <1>4 DEF p

\* What is in the slots after it.
LEMMA SlotsSet ==
    ASSUME NEW o \in ObsOutputs, ~Running(o), NEW i \in Slots,
           NEW e \in AudioEncoders \cup MadeEncoders \cup {RecorderAudio, Nil}
    PROVE  /\ SetAudio(o, i, e).audio[i] = e
           /\ \A j \in Slots : j # i => SetAudio(o, i, e).audio[j] = o.audio[j]
<1>1. SetAudio(o, i, e).audio = [o.audio EXCEPT ![i] = e]
  BY AudioSet
<1>2. o.audio \in [Slots -> AudioEncoders \cup MadeEncoders \cup {RecorderAudio, Nil}]
  BY DEF ObsOutputs
<1>. QED
  BY <1>1, <1>2

\* What setting up the archive of a simple stream does to the slots.
VodSet(p, o, old, outs) ==
    /\ p.encoder # Nil /\ p.encoder[1] = VodTrackMixerIndex + 1
    /\ ~Running(o) => p.output.audio[1] = o.audio[1]
    /\ ~Running(o) /\ ~(old # Nil /\ ActiveIn(old, outs \cup {o})) => p.output.audio[2] = p.encoder

LEMMA SetupVodIs ==
    ASSUME NEW o, NEW old, NEW mine, NEW outs, NEW other, SetupFrom(o, old, mine, outs, other),
           old # Nil => old[1] = VodTrackMixerIndex + 1
    PROVE  LET p == SetupTwitchVodAudio(o, old, mine, outs)
           IN  SetupOK(p, o, old, mine, outs) /\ VodSet(p, o, old, outs)
<1>1. /\ 1 \in Slots /\ 2 \in Slots /\ VodTrackMixerIndex + 1 \in Tracks /\ Nil \notin MadeEncoders /\ o \in ObsOutputs
  BY SlotsThere, StreamingOutputsAssumption DEF VodTrackMixerIndex, SetupFrom
<1>2. CASE old # Nil /\ ActiveIn(old, outs \cup {o})
  <2>1. SetupTwitchVodAudio(o, old, mine, outs) = Setup(o, old, mine)
    BY <1>2 DEF SetupTwitchVodAudio
  <2>2. Setup(o, old, mine).encoder = old /\ Setup(o, old, mine).output = o
    BY DEF Setup
  <2>. QED
    BY <1>2, <2>1, <2>2, SameSetup DEF VodSet, SetupFrom
<1>3. CASE ~(old # Nil /\ ActiveIn(old, outs \cup {o}))
  <2> DEFINE e == IF old = Nil THEN Fresh(VodTrackMixerIndex + 1, mine, outs \cup {o}) ELSE old
  <2>1. SetupTwitchVodAudio(o, old, mine, outs) = Setup(SetAudio(o, 2, e), e, mine \cup {e})
    BY <1>3 DEF SetupTwitchVodAudio
  <2>2. e \in MadeEncoders /\ e[1] = VodTrackMixerIndex + 1 /\ (e # old => e \notin mine /\ \A q \in outs : e \notin Carried(q))
    <3>1. CASE old = Nil
      BY <3>1, <1>1, FreshIs DEF SetupFrom
    <3>2. CASE old # Nil
      BY <3>2 DEF SetupFrom
    <3>. QED
      BY <3>1, <3>2
  <2>. HIDE DEF e
  <2>3. mine \cup {e} \subseteq (mine \ {old}) \cup {e} /\ mine \cup {e} \subseteq MadeEncoders
    <3>1. old = Nil \/ e = old
      BY DEF e
    <3>. QED
      BY <1>1, <2>2, <3>1 DEF SetupFrom
  <2>4. SetupOK(Setup(SetAudio(o, 2, e), e, mine \cup {e}), o, old, mine, outs)
    BY <1>1, <2>2, <2>3, PutSetup
  <2>5. Setup(SetAudio(o, 2, e), e, mine \cup {e}).encoder = e /\ Setup(SetAudio(o, 2, e), e, mine \cup {e}).output = SetAudio(o, 2, e)
    BY DEF Setup
  <2>6. ~Running(o) => SetAudio(o, 2, e).audio[2] = e /\ SetAudio(o, 2, e).audio[1] = o.audio[1]
    BY <1>1, <2>2, SlotsSet
  <2>. QED
    BY <1>1, <2>1, <2>2, <2>4, <2>5, <2>6 DEF VodSet
<1>. QED
  BY <1>2, <1>3

LEMMA StopVodIs ==
    ASSUME NEW o, NEW old, NEW mine, NEW outs, NEW other, SetupFrom(o, old, mine, outs, other)
    PROVE  LET p == StopTwitchVodAudio(o, old, mine)
           IN  /\ SetupOK(p, o, old, mine, outs)
               /\ p.encoder \in {old, Nil}
               /\ p.encoder = Nil => (old = Nil /\ p.output = o) \/ p.output.audio[2] = Nil
               /\ ~Running(o) => p.encoder = Nil /\ p.output.audio[1] = o.audio[1]
<1>1. 1 \in Slots /\ 2 \in Slots /\ o \in ObsOutputs
  BY SlotsThere DEF SetupFrom
<1>2. CASE old = Nil \/ Running(o)
  <2>1. StopTwitchVodAudio(o, old, mine) = Setup(o, old, mine)
    BY <1>2 DEF StopTwitchVodAudio
  <2>2. Setup(o, old, mine).encoder = old /\ Setup(o, old, mine).output = o
    BY DEF Setup
  <2>. QED
    BY <1>2, <2>1, <2>2, SameSetup
<1>3. CASE ~(old = Nil \/ Running(o))
  <2>1. StopTwitchVodAudio(o, old, mine) = Setup(SetAudio(o, 2, Nil), Nil, mine \ {old})
    BY <1>3 DEF StopTwitchVodAudio
  <2>2. SetupOK(Setup(SetAudio(o, 2, Nil), Nil, mine \ {old}), o, old, mine, outs)
    BY <1>1, ClearSetup
  <2>3. Setup(SetAudio(o, 2, Nil), Nil, mine \ {old}).encoder = Nil /\ Setup(SetAudio(o, 2, Nil), Nil, mine \ {old}).output = SetAudio(o, 2, Nil)
    BY DEF Setup
  <2>4. SetAudio(o, 2, Nil).audio[2] = Nil /\ SetAudio(o, 2, Nil).audio[1] = o.audio[1]
    BY <1>1, <1>3, SlotsSet
  <2>. QED
    BY <2>1, <2>2, <2>3, <2>4
<1>. QED
  BY <1>2, <1>3

\* And the second audio of an advanced one.
SoundtrackSet(p, o, old, outs, track) ==
    /\ ~Running(o) => p.output.audio[1] = o.audio[1]
    /\ ~Running(o) /\ ~(old # Nil /\ ActiveIn(old, outs \cup {o})) =>
           p.encoder # Nil /\ p.encoder[1] = track /\ p.output.audio[2] = p.encoder

LEMMA SetupSoundtrackIs ==
    ASSUME NEW o, NEW old, NEW mine, NEW outs, NEW other, SetupFrom(o, old, mine, outs, other), NEW track \in Tracks
    PROVE  LET p == SetupTwitchSoundtrackAudio(o, old, mine, outs, track)
           IN  SetupOK(p, o, old, mine, outs) /\ SoundtrackSet(p, o, old, outs, track)
<1>1. /\ 1 \in Slots /\ 2 \in Slots /\ Nil \notin MadeEncoders /\ o \in ObsOutputs
  BY SlotsThere, StreamingOutputsAssumption DEF SetupFrom
<1>2. CASE old # Nil /\ ActiveIn(old, outs \cup {o})
  <2>1. SetupTwitchSoundtrackAudio(o, old, mine, outs, track) = Setup(o, old, mine)
    BY <1>2 DEF SetupTwitchSoundtrackAudio
  <2>2. Setup(o, old, mine).output = o
    BY DEF Setup
  <2>. QED
    BY <1>2, <2>1, <2>2, SameSetup DEF SoundtrackSet
<1>3. CASE ~(old # Nil /\ ActiveIn(old, outs \cup {o}))
  <2> DEFINE e == Fresh(track, mine \ {old}, outs \cup {o})
             new == (mine \ {old}) \cup {e}
  <2>1. SetupTwitchSoundtrackAudio(o, old, mine, outs, track) = Setup(SetAudio(o, 2, e), e, new)
    BY <1>3 DEF SetupTwitchSoundtrackAudio
  <2>2. mine \ {old} \subseteq Taken \cup {other} /\ \A q \in outs \cup {o} : Carried(q) \cap MadeEncoders \subseteq Taken \cup {other}
    BY DEF SetupFrom
  <2>3. e \in MadeEncoders /\ e[1] = track /\ e \notin mine \ {old} /\ \A q \in outs \cup {o} : e \notin Carried(q)
    BY <2>2, FreshIs DEF SetupFrom
  <2>. HIDE DEF e
  <2>4. new \in SUBSET MadeEncoders
    BY <2>3 DEF SetupFrom
  <2>5. SetupOK(Setup(SetAudio(o, 2, e), e, new), o, old, mine, outs)
    BY <1>1, <2>3, <2>4, PutSetup
  <2>6. Setup(SetAudio(o, 2, e), e, new).encoder = e /\ Setup(SetAudio(o, 2, e), e, new).output = SetAudio(o, 2, e)
    BY DEF Setup
  <2>7. ~Running(o) => SetAudio(o, 2, e).audio[2] = e /\ SetAudio(o, 2, e).audio[1] = o.audio[1]
    BY <1>1, <2>3, SlotsSet
  <2>. HIDE DEF new
  <2>. QED
    BY <1>1, <2>1, <2>3, <2>5, <2>6, <2>7 DEF SoundtrackSet
<1>. QED
  BY <1>2, <1>3

LEMMA StopSoundtrackIs ==
    ASSUME NEW o, NEW old, NEW mine, NEW outs, NEW other, SetupFrom(o, old, mine, outs, other)
    PROVE  LET p == StopTwitchSoundtrackAudio(o, old, mine)
           IN  /\ SetupOK(p, o, old, mine, outs)
               /\ ~Running(o) => p.output.audio[2] = Nil /\ p.output.audio[1] = o.audio[1]
<1>1. 1 \in Slots /\ 2 \in Slots /\ o \in ObsOutputs
  BY SlotsThere DEF SetupFrom
<1>2. CASE Running(o)
  <2>1. StopTwitchSoundtrackAudio(o, old, mine) = Setup(o, old, mine)
    BY <1>2 DEF StopTwitchSoundtrackAudio
  <2>. QED
    BY <1>2, <2>1, SameSetup
<1>3. CASE ~Running(o)
  <2>1. StopTwitchSoundtrackAudio(o, old, mine) = Setup(SetAudio(o, 2, Nil), Nil, mine \ {old})
    BY <1>3 DEF StopTwitchSoundtrackAudio
  <2>2. SetupOK(Setup(SetAudio(o, 2, Nil), Nil, mine \ {old}), o, old, mine, outs)
    BY <1>1, ClearSetup
  <2>3. Setup(SetAudio(o, 2, Nil), Nil, mine \ {old}).output = SetAudio(o, 2, Nil)
    BY DEF Setup
  <2>4. SetAudio(o, 2, Nil).audio[2] = Nil /\ SetAudio(o, 2, Nil).audio[1] = o.audio[1]
    BY <1>1, <1>3, SlotsSet
  <2>. QED
    BY <2>1, <2>2, <2>3, <2>4
<1>. QED
  BY <1>2, <1>3

\* The audio encoder of an advanced stream, when it gets one.
LEMMA OwnAudioIs ==
    ASSUME NEW s \in Advanceds, NEW o, NEW outs, NEW other, stream[s] \in StreamSettings,
           SetupFrom(o, stream[s].audioEncoder, owned, outs, other),
           setAudioEncoder(s, o, outs).encoder # Nil
    PROVE  LET p == setAudioEncoder(s, o, outs)
           IN  /\ SetupOK(p, o, stream[s].audioEncoder, owned, outs)
               /\ p.encoder[1] = stream[s].audioTrack
               /\ ~Running(o) => p.output.audio[1] = p.encoder
<1> DEFINE st == stream[s]
           old == st.audioEncoder
           changed == old # Nil /\ old[1] # st.audioTrack
           mine == IF changed THEN owned \ {old} ELSE owned
           e == IF changed \/ old = Nil THEN Fresh(st.audioTrack, mine, outs \cup {o}) ELSE old
<1>1. /\ 1 \in Slots /\ Nil \notin MadeEncoders /\ o \in ObsOutputs /\ st.audioTrack \in Tracks
  BY SlotsThere, StreamingOutputsAssumption DEF SetupFrom, StreamSettings
<1>2. ~(st.audioTrack \notin tracks \/ (changed /\ ActiveIn(old, outs \cup {o})))
  BY DEF setAudioEncoder, Setup
<1>3. setAudioEncoder(s, o, outs) = Setup(SetAudio(o, 1, e), e, mine \cup {e})
  BY <1>2 DEF setAudioEncoder
<1>4. mine \subseteq Taken \cup {other} /\ \A q \in outs \cup {o} : Carried(q) \cap MadeEncoders \subseteq Taken \cup {other}
  BY DEF SetupFrom
<1>5. /\ e \in MadeEncoders /\ e[1] = st.audioTrack
      /\ e # old => e \notin mine /\ \A q \in outs : e \notin Carried(q)
  <2>1. CASE changed \/ old = Nil
    <3>1. e = Fresh(st.audioTrack, mine, outs \cup {o})
      BY <2>1
    <3>2. Spare
      BY DEF SetupFrom
    <3> DEFINE track == st.audioTrack
               others == outs \cup {o}
    <3>. HIDE DEF e, mine, track, others
    <3>3. track \in Tracks
      BY <1>1 DEF track
    <3>4. \A q \in others : Carried(q) \cap MadeEncoders \subseteq Taken \cup {other}
      BY <1>4 DEF others
    <3>5. LET f == Fresh(track, mine, others)
          IN  f \in MadeEncoders /\ f[1] = track /\ f \notin mine /\ \A q \in others : f \notin Carried(q)
      BY <3>2, <3>3, <3>4, <1>4, FreshIs
    <3>6. e = Fresh(track, mine, others)
      BY <3>1 DEF track, others
    <3>7. \A q \in outs : q \in others
      BY DEF others
    <3>. QED
      BY <3>5, <3>6, <3>7 DEF track
  <2>2. CASE ~(changed \/ old = Nil)
    BY <2>2 DEF SetupFrom
  <2>. QED
    BY <2>1, <2>2
<1>6. changed \/ old = Nil \/ e = old
  OBVIOUS
<1>. HIDE DEF e
<1>7. e # old => e \notin owned
  BY <1>5, <1>6
<1>8. /\ mine \cup {e} \in SUBSET MadeEncoders /\ owned \ {old} \subseteq mine \cup {e}
      /\ mine \cup {e} \subseteq (owned \ {old}) \cup {e}
  <2>1. owned \subseteq MadeEncoders /\ (old = Nil => old \notin owned)
    BY <1>1 DEF SetupFrom
  <2>. QED
    BY <1>5, <1>6, <2>1
<1>9. SetupOK(Setup(SetAudio(o, 1, e), e, mine \cup {e}), o, old, owned, outs)
  BY <1>1, <1>5, <1>7, <1>8, PutSetup
<1>10. Setup(SetAudio(o, 1, e), e, mine \cup {e}).encoder = e /\ Setup(SetAudio(o, 1, e), e, mine \cup {e}).output = SetAudio(o, 1, e)
  BY DEF Setup
<1>11. ~Running(o) => SetAudio(o, 1, e).audio[1] = e
  BY <1>1, <1>5, SlotsSet
<1>. QED
  BY <1>3, <1>5, <1>9, <1>10, <1>11

-----------------------------------------------------------------------------
(* Starts of streams.                                                         *)

LEMMA HeldByStream ==
    ASSUME NEW s \in Streams, stream[s] # Nil, s \notin Broadcasts
    PROVE  HeldBy(s) = ({stream[s].streamArchive} \cup IF s \in Advanceds THEN {stream[s].audioEncoder} ELSE {}) \ {Nil}
  BY StreamingOutputsAssumption DEF HeldBy

LEMMA HeldByStreamNext ==
    ASSUME NEW s \in Streams, stream'[s] # Nil, s \notin Broadcasts
    PROVE  HeldBy(s)' = ({stream'[s].streamArchive} \cup IF s \in Advanceds THEN {stream'[s].audioEncoder} ELSE {}) \ {Nil}
  BY StreamingOutputsAssumption DEF HeldBy

SimpleSet(s) == SetVideo(SetAudio(checkOutput(s), 1, stream[s].audioEncoder), stream[s].videoEncoder)
SimpleOuts(s, kept) == OutputsWith(s, checkOutput(s), kept)
SimpleVod(s, kept) == Vod(s, SimpleSet(s), SimpleOuts(s, kept))

LEMMA SimpleSetIs ==
    ASSUME StreamsInv, NEW s \in Simples, stream[s] # Nil
    PROVE  LET o == SimpleSet(s)
           IN  /\ o \in ObsOutputs /\ o # Nil
               /\ o.stats = checkOutput(s).stats /\ (Running(o) <=> Running(checkOutput(s)))
               /\ o.service = checkOutput(s).service
               /\ Running(checkOutput(s)) => o = checkOutput(s)
               /\ ~Running(checkOutput(s)) =>
                     /\ o.video = stream[s].videoEncoder /\ o.audio[1] = stream[s].audioEncoder
                     /\ o.audio[2] = checkOutput(s).audio[2]
               /\ Carried(o) \cap MadeEncoders \subseteq Carried(output[s])
               /\ Carried(o) \cap MadeEncoders \subseteq Taken
<1> DEFINE c == checkOutput(s)
           e == stream[s].audioEncoder
           v == stream[s].videoEncoder
           a == SetAudio(c, 1, e)
           o == SetVideo(a, v)
<1>1. /\ s \in Streams /\ StreamTypes /\ 1 \in Slots /\ 2 \in Slots
      /\ e \in AudioEncoders \cup {Nil} /\ stream[s] \in StreamSettings
  <2>1. s \in Streams /\ StreamTypes /\ StreamOK(s)
    BY DEF Streams, StreamsInv, StreamsOK
  <2>. QED
    BY <2>1, SlotsThere, SettingsAre DEF StreamOK
<1>2. v \in VideoEncoders \cup {Recorder, Nil}
  BY <1>1 DEF StreamSettings
<1>. HIDE DEF v, e
<1>10. e \in AudioEncoders \cup MadeEncoders \cup {RecorderAudio, Nil} /\ v \in VideoEncoders \cup {Recorder, Nil}
  BY <1>1, <1>2
<1>3. /\ c \in ObsOutputs /\ c # Nil /\ Carried(c) \subseteq Carried(output[s])
      /\ Carried(c) \subseteq Taken
  BY <1>1, CheckedIs DEF Taken
<1>. HIDE DEF c
<1>4. /\ a \in ObsOutputs /\ a # Nil /\ (Running(c) => a = c)
      /\ a.running = c.running /\ a.video = c.video /\ a.stats = c.stats /\ a.service = c.service
      /\ Carried(a) \subseteq Carried(c) \cup {e}
  <2>1. a = SetAudio(c, 1, e)
    BY DEF a
  <2>. HIDE DEF a
  <2>. QED
    BY ONLY <1>1, <1>3, <1>10, <2>1, AudioSet
<1>5. ~Running(c) => a.audio[1] = e /\ a.audio[2] = c.audio[2]
  BY <1>1, <1>3, SlotsSet
<1>. HIDE DEF a
<1>6. /\ o \in ObsOutputs /\ o # Nil /\ (Running(a) => o = a)
      /\ o.running = a.running /\ o.audio = a.audio /\ o.stats = a.stats /\ o.service = a.service
      /\ ~Running(a) => o.video = v
      /\ Carried(o) \subseteq Carried(a) \cup {v}
  BY <1>10, <1>4, VideoSet
<1>. HIDE DEF o
<1>7. (Running(c) <=> Running(a)) /\ (Running(a) <=> Running(o))
  BY <1>3, <1>4, <1>6, RunningIs
<1>8. e \notin MadeEncoders /\ v \notin MadeEncoders
  BY <1>1, <1>2, StreamingOutputsAssumption
<1>9. SimpleSet(s) = o
  BY DEF SimpleSet, o, a, c, e, v
<1>. QED
  BY <1>3, <1>4, <1>5, <1>6, <1>7, <1>8, <1>9 DEF c, e, v

LEMMA SimpleVodIs ==
    ASSUME StreamsInv, Spare, NEW s \in Simples, s \notin Broadcasts, stream[s] # Nil, NEW kept \in Leaves(s)
    PROVE  LET p == SimpleVod(s, kept)
               o == SimpleSet(s)
               old == stream[s].streamArchive
           IN  /\ SetupOK(p, o, old, owned, SimpleOuts(s, kept))
               /\ p.encoder # Nil => p.encoder[1] = VodTrackMixerIndex + 1
               /\ p.encoder = Nil => p.output.audio[2] = Nil
               /\ ~Running(o) =>
                     /\ p.output.audio[1] = o.audio[1]
                     /\ ~WantsVod(s) => p.output.audio[2] = Nil
                     /\ WantsVod(s) /\ ~(old # Nil /\ ActiveIn(old, SimpleOuts(s, kept) \cup {o})) =>
                            p.encoder # Nil /\ p.output.audio[2] = p.encoder
<1> DEFINE o == SimpleSet(s)
           old == stream[s].streamArchive
           outs == SimpleOuts(s, kept)
<1>1. s \in Streams /\ s \in Objects /\ StreamTypes /\ StreamOK(s) /\ OutputOK(s) /\ EncodersOwned
  BY DEF Streams, Objects, StreamsInv, StreamsOK, OutputsOK
<1>2. old \in MadeEncoders \cup {Nil}
  BY <1>1, SettingsAre DEF StreamSettings
<1>3. old # Nil => old \in owned
  BY <1>1, HeldByStream DEF EncodersOwned
<1>4. /\ o \in ObsOutputs /\ Carried(o) \cap MadeEncoders \subseteq Taken
      /\ Running(checkOutput(s)) => o = checkOutput(s)
      /\ ~Running(checkOutput(s)) => o.audio[2] = checkOutput(s).audio[2]
  BY SimpleSetIs
<1>5. \A q \in outs : Carried(q) \subseteq Taken
  BY <1>1, CheckedIs, OutsAre DEF SimpleOuts
<1>6. SetupFrom(o, old, owned, outs, Nil)
  BY <1>1, <1>2, <1>3, <1>4, <1>5 DEF SetupFrom, StreamTypes, Taken
<1>7. old # Nil => old[1] = VodTrackMixerIndex + 1
  BY <1>1 DEF StreamOK
<1>8. old = Nil => o.audio[2] = Nil
  <2>1. o.audio[2] = checkOutput(s).audio[2]
    BY <1>4
  <2>2. CASE checkOutput(s) = output[s] /\ output[s] # Nil
    BY <1>1, <2>1, <2>2 DEF OutputOK
  <2>3. CASE checkOutput(s).audio = [i \in Slots |-> Nil]
    BY <2>1, <2>3, SlotsThere
  <2>. QED
    BY <1>1, <2>2, <2>3, CheckedIs
<1>9. s \notin Advanceds /\ (WantsVod(s) <=> stream[s].enableTwitchVOD /\ isTwitchVODSupported(s))
  BY StreamingOutputsAssumption DEF WantsVod, isTwitchVODSupported
<1>. HIDE DEF o, old, outs
<1>10. CASE WantsVod(s)
  <2>1. SimpleVod(s, kept) = SetupTwitchVodAudio(o, old, owned, outs)
    BY <1>9, <1>10 DEF SimpleVod, Vod, o, old, outs
  <2> DEFINE p == SimpleVod(s, kept)
  <2>2. /\ SetupOK(p, o, old, owned, outs) /\ p.encoder # Nil /\ p.encoder[1] = VodTrackMixerIndex + 1
        /\ ~Running(o) => p.output.audio[1] = o.audio[1]
        /\ ~Running(o) /\ ~(old # Nil /\ ActiveIn(old, outs \cup {o})) => p.output.audio[2] = p.encoder
    <3>1. SetupOK(p, o, old, owned, outs) /\ VodSet(p, o, old, outs)
      BY <1>6, <1>7, <2>1, SetupVodIs
    <3>. HIDE DEF p
    <3>. QED
      BY <3>1 DEF VodSet
  <2>. HIDE DEF p
  <2>. QED
    BY <1>10, <2>2 DEF p, o, old, outs
<1>11. CASE ~WantsVod(s)
  <2>1. SimpleVod(s, kept) = StopTwitchVodAudio(o, old, owned)
    BY <1>9, <1>11 DEF SimpleVod, Vod, o, old, outs
  <2> DEFINE p == SimpleVod(s, kept)
  <2>2. /\ SetupOK(p, o, old, owned, outs) /\ p.encoder \in {old, Nil}
        /\ p.encoder = Nil => (old = Nil /\ p.output = o) \/ p.output.audio[2] = Nil
        /\ ~Running(o) => p.encoder = Nil /\ p.output.audio[1] = o.audio[1]
    BY <1>6, <2>1, StopVodIs
  <2>. HIDE DEF p
  <2>3. p.encoder = Nil => p.output.audio[2] = Nil
    BY <1>8, <2>2
  <2>4. p.encoder # Nil => p.encoder[1] = VodTrackMixerIndex + 1
    BY <1>7, <2>2
  <2>. QED
    BY <1>11, <2>2, <2>3, <2>4 DEF p, o, old, outs
<1>. QED
  BY <1>10, <1>11

LEMMA BitratesAre ==
    ASSUME StreamTypes, NEW s \in Streams, stream[s] # Nil, NEW outs
    PROVE  /\ updateEncoders(s, outs) \in [VideoEncoders -> {"low", "high"}]
           /\ UpdateEncoders(s, outs) \in [VideoEncoders -> {"low", "high"}]
<1>1. bitrate \in [VideoEncoders -> {"low", "high"}]
  BY DEF StreamTypes
<1>2. ASSUME NEW v PROVE Lower(v) \in [VideoEncoders -> {"low", "high"}]
  BY <1>1 DEF Lower
<1>. QED
  BY <1>1, <1>2 DEF updateEncoders, UpdateEncoders

LEMMA SimpleStartKeeps ==
    ASSUME StreamsInv, NEW s, SimpleStart(s)
    PROVE  StreamsInv'
<1>1. /\ s \in Simples /\ s \in Streams /\ s \notin Broadcasts /\ s \in Objects /\ s \notin Advanceds
      /\ stream[s] # Nil /\ dying = Nil /\ Spare /\ starts' = starts + 1
      /\ UNCHANGED <<uses, replay, tracks, sets, broadcast, dying>>
      /\ stream[s].service # Nil
  BY StreamingOutputsAssumption DEF SimpleStart, PlainStreams, CanStart, Usable, Streams, Objects
<1>2. PICK kept \in LeavesOnCheck(s) :
        /\ bitrate' = updateEncoders(s, SimpleOuts(s, kept))
        /\ \E o \in Started(SetObsService(SimpleVod(s, kept).output, stream[s].service)) : PutOutput(s, o, kept)
        /\ stream' = [stream EXCEPT ![s].streamArchive = SimpleVod(s, kept).encoder]
        /\ owned' = SimpleVod(s, kept).owned
  BY DEF SimpleStart, SimpleSet, SimpleOuts, SimpleVod
<1>3. PICK o \in Started(SetObsService(SimpleVod(s, kept).output, stream[s].service)) : PutOutput(s, o, kept)
  BY <1>2
<1> DEFINE old == stream[s].streamArchive
           p == SimpleVod(s, kept)
           st == [stream[s] EXCEPT !.streamArchive = p.encoder]
<1>4. kept \in Leaves(s)
  BY LeftOnCheckIs
<1>5. /\ SetupOK(p, SimpleSet(s), old, owned, SimpleOuts(s, kept))
      /\ p.encoder # Nil => p.encoder[1] = VodTrackMixerIndex + 1
      /\ p.encoder = Nil => p.output.audio[2] = Nil
  BY <1>1, <1>4, SimpleVodIs
<1>. HIDE DEF p
<1>6. StreamTypes /\ StreamOK(s) /\ OutputOK(s) /\ EncodersOwned
  BY <1>1 DEF StreamsInv, StreamsOK, OutputsOK
<1>7. stream[s] \in StreamSettings /\ stream[s].service \in Services
  <2>1. stream[s] \in StreamSettings
    BY <1>1, <1>6, SettingsAre
  <2>. QED
    BY <1>1, <2>1 DEF StreamSettings
<1>8. p.encoder \in MadeEncoders \cup {Nil}
  BY <1>5 DEF SetupOK
<1>9. /\ st \in StreamSettings /\ st # Nil /\ st.streamArchive = p.encoder /\ st.audioEncoder = stream[s].audioEncoder
      /\ stream' = [stream EXCEPT ![s] = st] /\ stream'[s] = st
  <2>1. st \in StreamSettings /\ st.streamArchive = p.encoder /\ st.audioEncoder = stream[s].audioEncoder
    BY <1>7, <1>8 DEF StreamSettings
  <2>2. stream' = [stream EXCEPT ![s] = st]
    BY <1>2 DEF p
  <2>3. stream'[s] = st
    BY <1>1, <1>6, <2>2 DEF StreamTypes
  <2>. QED
    BY <2>1, <2>2, <2>3, StreamingOutputsAssumption
<1>. HIDE DEF st
<1>10. /\ o \in ObsOutputs /\ o # Nil /\ o.stats = p.output.stats /\ o.audio = p.output.audio
       /\ Carried(o) = Carried(p.output)
  <2>1. p.output \in ObsOutputs
    BY <1>5 DEF SetupOK
  <2> DEFINE q == SetObsService(p.output, stream[s].service)
  <2>2. q \in ObsOutputs /\ q.stats = p.output.stats /\ q.audio = p.output.audio /\ Carried(q) = Carried(p.output)
    BY <1>7, <2>1, ServiceSet
  <2>3. o \in Started(q)
    BY <1>3 DEF p
  <2>. HIDE DEF q
  <2>. QED
    BY <2>2, <2>3, StartedIs
<1>11. ~o.stats
  <2>1. p.output.stats = SimpleSet(s).stats
    BY <1>5 DEF SetupOK
  <2>2. SimpleSet(s).stats = checkOutput(s).stats
    BY <1>1, SimpleSetIs
  <2>3. ~checkOutput(s).stats
    BY <1>1, <1>6, CheckedIs DEF OutputOK
  <2>. QED
    BY <1>10, <2>1, <2>2, <2>3
<1>12. HeldBy(s) = {old} \ {Nil} /\ HeldBy(s)' = {p.encoder} \ {Nil}
  BY <1>1, <1>9, HeldByStream, HeldByStreamNext
<1>13. StreamOK(s)'
  BY <1>1, <1>5, <1>6, <1>9 DEF StreamOK
<1>14. output'[s] = o /\ lingering'[s] = kept
  BY <1>1, <1>3, <1>6 DEF PutOutput, StreamTypes
<1>15. OutputOK(s)'
  <2>1. s \notin Replays /\ s \notin SimpleReplays
    BY <1>1, StreamingOutputsAssumption DEF Replays
  <2>. QED
    BY <1>1, <1>5, <1>9, <1>10, <1>11, <1>14, <2>1 DEF OutputOK
<1>16. /\ kept \in ObsOutputs \cup {Nil} /\ Carried(lingering[s]) \subseteq Carried(kept)
       /\ Carried(kept) \subseteq Carried(output[s]) \cup Carried(lingering[s])
       /\ kept = lingering[s] \/ (kept = output[s] /\ Running(output[s]))
  BY <1>1, <1>4, <1>6, LeftIs
<1>18. /\ \A y \in Objects \ {s} : output[y] \in SimpleOuts(s, kept) /\ lingering[y] \in SimpleOuts(s, kept)
  BY <1>1, <1>4, <1>6, CheckedIs, OutsAre DEF SimpleOuts
<1>19. Carried(o) \cap MadeEncoders \subseteq Carried(output[s]) \cup HeldBy(s)'
  <2>1. Carried(SimpleSet(s)) \cap MadeEncoders \subseteq Carried(output[s])
    BY <1>1, SimpleSetIs
  <2>2. Carried(o) \subseteq Carried(SimpleSet(s)) \cup {p.encoder}
    BY <1>5, <1>10 DEF SetupOK
  <2>3. Nil \notin MadeEncoders
    BY StreamingOutputsAssumption
  <2>. QED
    BY <1>12, <2>1, <2>2, <2>3
<1>20. /\ owned' = p.owned /\ owned' \subseteq MadeEncoders /\ HeldBy(s)' \subseteq owned'
       /\ owned \ HeldBy(s) \subseteq owned' /\ owned' \subseteq (owned \ HeldBy(s)) \cup HeldBy(s)'
  <2>1. owned' = p.owned
    BY <1>2 DEF p
  <2>2. Nil \notin owned /\ owned \subseteq MadeEncoders
    BY <1>6, StreamingOutputsAssumption DEF StreamTypes
  <2>. QED
    BY <1>5, <1>8, <1>12, <2>1, <2>2 DEF SetupOK
<1>21. ASSUME NEW e \in HeldBy(s)' \ HeldBy(s)
       PROVE  e \notin owned /\ \A x \in Objects \ {s} : e \notin Carried(output[x]) \cup Carried(lingering[x])
  <2>1. e = p.encoder /\ e \notin {old, Nil}
    BY <1>12
  <2>. QED
    BY <1>5, <1>18, <2>1 DEF SetupOK
<1>22. /\ bitrate' \in [VideoEncoders -> {"low", "high"}] /\ starts' \in Nat /\ dying' = Nil
  BY <1>1, <1>2, <1>6, BitratesAre DEF StreamTypes
<1>. HIDE DEF old
<1>23. (Carried(o) \cup Carried(kept)) \cap owned \subseteq Carried(output[s]) \cup Carried(lingering[s]) \cup HeldBy(s) \cup HeldBy(s)'
  BY <1>6, <1>16, <1>19 DEF StreamTypes
<1>24. owned' \subseteq (owned \ HeldBy(s)) \cup HeldBy(s)' \cup {e \in HeldBy(s) : e \in Carried(kept)}
  BY <1>20
<1>. QED
  BY <1>1, <1>3, <1>9, <1>10, <1>13, <1>15, <1>16, <1>20, <1>21, <1>22, <1>23, <1>24, StreamStepKeeps

\* A start that gets no further than its output.
LEMMA FailedStartKeeps ==
    ASSUME StreamsInv, NEW s \in PlainStreams, stream[s] # Nil, dying = Nil,
           NEW kept \in LeavesOnCheck(s), PutOutput(s, checkOutput(s), kept),
           UNCHANGED <<settings, broadcast, owned, dying>>, starts' = starts + 1,
           bitrate' \in [VideoEncoders -> {"low", "high"}]
    PROVE  StreamsInv'
<1>1. s \in Streams /\ s \notin Broadcasts /\ s \in Objects /\ s \notin Replays /\ s \notin SimpleReplays
  BY StreamingOutputsAssumption DEF PlainStreams, Objects, Replays
<1>2. UNCHANGED <<uses, stream, replay, tracks, sets, broadcast, owned, dying>>
  BY DEF settings
<1>3. StreamTypes /\ StreamOK(s) /\ OutputOK(s) /\ EncodersOwned
  BY <1>1 DEF StreamsInv, StreamsOK, OutputsOK
<1> DEFINE o == checkOutput(s)
<1>4. /\ o \in ObsOutputs /\ o # Nil /\ Carried(o) \subseteq Carried(output[s])
      /\ o = output[s] \/ (~Running(o) /\ ~o.stats /\ o.audio = [i \in Slots |-> Nil])
  BY <1>1, <1>3, CheckedIs
<1>. HIDE DEF o
<1>5. kept \in Leaves(s)
  BY LeftOnCheckIs
<1>6. /\ kept \in ObsOutputs \cup {Nil} /\ Carried(lingering[s]) \subseteq Carried(kept)
      /\ Carried(kept) \subseteq Carried(output[s]) \cup Carried(lingering[s])
      /\ kept = lingering[s] \/ (kept = output[s] /\ Running(output[s]))
  BY <1>1, <1>3, <1>5, LeftIs
<1>7. output'[s] = o /\ lingering'[s] = kept
  BY <1>1, <1>3 DEF PutOutput, StreamTypes, o
<1>8. stream[s] \in StreamSettings /\ stream' = [stream EXCEPT ![s] = stream[s]]
  BY <1>1, <1>2, <1>3, SettingsAre DEF StreamTypes
<1>9. StreamOK(s)'
  BY <1>2, <1>3 DEF StreamOK
<1>10. OutputOK(s)'
  <2>1. s \in Simples \ Broadcasts /\ stream[s].streamArchive = Nil => o.audio[2] = Nil
    BY <1>1, <1>3, <1>4, SlotsThere DEF OutputOK
  <2>2. ~o.stats
    BY <1>1, <1>3, <1>4 DEF OutputOK
  <2>. QED
    BY <1>1, <1>2, <1>7, <2>1, <2>2 DEF OutputOK
<1>12. HeldBy(s)' = HeldBy(s) /\ HeldBy(s) \subseteq owned
  BY <1>1, <1>2, <1>3 DEF HeldBy, EncodersOwned
<1>13. dying' = Nil /\ starts' \in Nat /\ owned' \subseteq MadeEncoders
  BY <1>2, <1>3 DEF StreamTypes
<1>14. PutOutput(s, o, kept)
  BY DEF o
<1>15. (Carried(o) \cup Carried(kept)) \cap owned \subseteq Carried(output[s]) \cup Carried(lingering[s]) \cup HeldBy(s) \cup HeldBy(s)'
  BY <1>4, <1>6
<1>16. /\ HeldBy(s)' \subseteq owned' /\ owned \ HeldBy(s) \subseteq owned'
       /\ owned' \subseteq (owned \ HeldBy(s)) \cup HeldBy(s)' \cup {e \in HeldBy(s) : e \in Carried(kept)}
       /\ HeldBy(s)' \ HeldBy(s) = {}
  BY <1>2, <1>12
<1>. QED
  BY <1>1, <1>2, <1>4, <1>6, <1>8, <1>9, <1>10, <1>13, <1>14, <1>15, <1>16, StreamStepKeeps

LEMMA SimpleStartFailsKeeps ==
    ASSUME StreamsInv, NEW s, SimpleStartFails(s)
    PROVE  StreamsInv'
<1>1. /\ s \in PlainStreams /\ stream[s] # Nil /\ dying = Nil /\ starts' = starts + 1
      /\ UNCHANGED <<settings, broadcast, owned, bitrate, dying>>
  BY DEF SimpleStartFails, CanStart, Usable
<1>2. PICK kept \in LeavesOnCheck(s) : PutOutput(s, checkOutput(s), kept)
  BY DEF SimpleStartFails
<1>3. bitrate' \in [VideoEncoders -> {"low", "high"}]
  BY <1>1 DEF StreamsInv, StreamTypes
<1>. QED
  BY <1>1, <1>2, <1>3, FailedStartKeeps

LEMMA AdvancedStartFailsKeeps ==
    ASSUME StreamsInv, NEW s, AdvancedStartFails(s)
    PROVE  StreamsInv'
<1>1. /\ s \in PlainStreams /\ stream[s] # Nil /\ dying = Nil /\ starts' = starts + 1
      /\ UNCHANGED <<settings, broadcast, owned, dying>> /\ bitrate' = UpdateEncoders(s, AllOutputs)
  BY DEF AdvancedStartFails, CanStartAdvanced, CanStart, Usable
<1>2. PICK kept \in LeavesOnCheck(s) : PutOutput(s, checkOutput(s), kept)
  BY DEF AdvancedStartFails
<1>3. bitrate' \in [VideoEncoders -> {"low", "high"}]
  BY <1>1, BitratesAre DEF StreamsInv, PlainStreams
<1>. QED
  BY <1>1, <1>2, <1>3, FailedStartKeeps

\* The audio encoder and the second audio of an advanced start.
AdvancedOuts(s, kept) == OutputsWith(s, Nil, kept)
AdvancedAudio(s, kept) == setAudioEncoder(s, checkOutput(s), AdvancedOuts(s, kept))
AdvancedSet(s, kept) == SetVideo(AdvancedAudio(s, kept).output, stream[s].videoEncoder)
AdvancedVod(s, kept) == Soundtrack(s, AdvancedSet(s, kept), AdvancedAudio(s, kept).owned, AdvancedOuts(s, kept))

LEMMA AdvancedAudioIs ==
    ASSUME StreamsInv, Spare, NEW s \in Advanceds, s \notin Broadcasts, stream[s] # Nil, NEW kept \in Leaves(s),
           AdvancedAudio(s, kept).encoder # Nil
    PROVE  LET p == AdvancedAudio(s, kept)
               o == checkOutput(s)
           IN  /\ SetupOK(p, o, stream[s].audioEncoder, owned, AdvancedOuts(s, kept))
               /\ p.encoder[1] = stream[s].audioTrack
               /\ ~Running(o) => p.output.audio[1] = p.encoder
<1>1. s \in Streams /\ s \in Objects /\ StreamTypes /\ StreamOK(s) /\ EncodersOwned
  BY DEF Streams, Objects, StreamsInv, StreamsOK
<1>2. stream[s] \in StreamSettings /\ stream[s].audioEncoder \in MadeEncoders \cup {Nil}
  BY <1>1, SettingsAre DEF StreamOK
<1>3. stream[s].audioEncoder # Nil => stream[s].audioEncoder \in owned
  BY <1>1, HeldByStream DEF EncodersOwned
<1>4. checkOutput(s) \in ObsOutputs /\ Carried(checkOutput(s)) \subseteq Taken
  BY <1>1, CheckedIs DEF Taken
<1>5. Carried(Nil) = {}
  BY DEF Carried
<1>6. \A q \in AdvancedOuts(s, kept) : Carried(q) \subseteq Taken
  BY <1>1, <1>5, OutsAre DEF AdvancedOuts
<1>7. SetupFrom(checkOutput(s), stream[s].audioEncoder, owned, AdvancedOuts(s, kept), Nil)
  BY <1>1, <1>2, <1>3, <1>4, <1>6 DEF SetupFrom, StreamTypes, Taken
<1>. QED
  BY <1>2, <1>7, OwnAudioIs DEF AdvancedAudio

LEMMA AdvancedSetIs ==
    ASSUME StreamsInv, Spare, NEW s \in Advanceds, s \notin Broadcasts, stream[s] # Nil, NEW kept \in Leaves(s),
           AdvancedAudio(s, kept).encoder # Nil
    PROVE  LET o == AdvancedSet(s, kept)
               p == AdvancedAudio(s, kept)
               c == checkOutput(s)
           IN  /\ o \in ObsOutputs /\ o # Nil /\ o.stats = c.stats /\ (Running(o) <=> Running(c))
               /\ ~Running(c) => o.video = stream[s].videoEncoder /\ o.audio = p.output.audio
               /\ Carried(o) \cap MadeEncoders \subseteq Carried(c) \cup {p.encoder}
<1> DEFINE v == stream[s].videoEncoder
           p == AdvancedAudio(s, kept)
           c == checkOutput(s)
           o == SetVideo(p.output, v)
<1>1. s \in Streams /\ StreamTypes
  BY DEF Streams, StreamsInv
<1>2. c \in ObsOutputs
  BY <1>1, CheckedIs
<1>3. v \in VideoEncoders \cup {Recorder, Nil}
  BY <1>1, SettingsAre DEF StreamSettings
<1>4. SetupOK(p, c, stream[s].audioEncoder, owned, AdvancedOuts(s, kept))
  BY AdvancedAudioIs
<1>. HIDE DEF p, v, c
<1>5. /\ p.output \in ObsOutputs /\ p.output.running = c.running /\ p.output.stats = c.stats
      /\ Carried(p.output) \subseteq Carried(c) \cup {p.encoder}
  BY <1>4 DEF SetupOK
<1>6. /\ o \in ObsOutputs /\ o # Nil /\ o.running = p.output.running /\ o.audio = p.output.audio
      /\ o.stats = p.output.stats /\ (~Running(p.output) => o.video = v)
      /\ Carried(o) \subseteq Carried(p.output) \cup {v}
  <2>1. o = SetVideo(p.output, v)
    OBVIOUS
  <2>. HIDE DEF o
  <2>. QED
    BY ONLY <1>3, <1>5, <2>1, VideoSet
<1>7. v \notin MadeEncoders
  BY <1>3, StreamingOutputsAssumption
<1>. HIDE DEF o
<1>8. (Running(o) <=> Running(c)) /\ (Running(p.output) <=> Running(c))
  BY <1>2, <1>5, <1>6, RunningIs
<1>9. AdvancedSet(s, kept) = o
  BY DEF AdvancedSet, o, p, v
<1>. QED
  BY <1>5, <1>6, <1>7, <1>8, <1>9 DEF p, v, c

LEMMA AdvancedVodIs ==
    ASSUME StreamsInv, Spare, NEW s \in Advanceds, s \notin Broadcasts, stream[s] # Nil, NEW kept \in Leaves(s),
           AdvancedAudio(s, kept).encoder # Nil
    PROVE  LET p == AdvancedVod(s, kept)
               o == AdvancedSet(s, kept)
               a == AdvancedAudio(s, kept)
               old == stream[s].streamArchive
               outs == AdvancedOuts(s, kept)
           IN  /\ SetupOK(p, o, old, a.owned, outs) /\ old # a.encoder
               /\ WantsVod(s) => SoundtrackSet(p, o, old, outs, stream[s].twitchTrack)
               /\ ~WantsVod(s) /\ ~Running(o) => p.output.audio[2] = Nil /\ p.output.audio[1] = o.audio[1]
<1> DEFINE a == AdvancedAudio(s, kept)
           o == AdvancedSet(s, kept)
           c == checkOutput(s)
           old == stream[s].streamArchive
           own == stream[s].audioEncoder
           outs == AdvancedOuts(s, kept)
<1>1. s \in Streams /\ s \in Objects /\ StreamTypes /\ StreamOK(s) /\ EncodersOwned
  BY DEF Streams, Objects, StreamsInv, StreamsOK
<1>2. old \in MadeEncoders \cup {Nil} /\ stream[s].twitchTrack \in Tracks
  BY <1>1, SettingsAre DEF StreamSettings
<1>3. old # Nil => old \in owned /\ old # own
  BY <1>1, HeldByStream DEF EncodersOwned, StreamOK
<1>4. /\ o \in ObsOutputs /\ Carried(o) \cap MadeEncoders \subseteq Carried(c) \cup {a.encoder}
  BY AdvancedSetIs
<1>5. SetupOK(a, c, own, owned, outs)
  BY AdvancedAudioIs
<1>6. c \in ObsOutputs /\ Carried(c) \subseteq Taken
  BY <1>1, CheckedIs DEF Taken
<1>7. Carried(Nil) = {}
  BY DEF Carried
<1>8. \A q \in outs : Carried(q) \subseteq Taken
  BY <1>1, <1>7, OutsAre DEF AdvancedOuts
<1>9. owned \subseteq MadeEncoders /\ owned \subseteq Taken /\ Nil \notin MadeEncoders
  BY <1>1, StreamingOutputsAssumption DEF StreamTypes, Taken
<1>. HIDE DEF a, o, c, old, own, outs
<1>10. a.encoder # Nil
  BY DEF a
<1>11. /\ a.owned \subseteq (owned \ {own}) \cup {a.encoder} /\ owned \ {own} \subseteq a.owned
       /\ a.encoder \in MadeEncoders /\ (a.encoder # own => a.encoder \notin owned)
  BY <1>5, <1>10 DEF SetupOK
<1>12. old # a.encoder
  BY <1>3, <1>10, <1>11
<1>13. old # Nil => old \in a.owned
  BY <1>3, <1>11
<1>14. a.owned \subseteq MadeEncoders /\ a.owned \subseteq Taken \cup {a.encoder}
  BY <1>9, <1>11
<1>15. \A q \in outs \cup {o} : Carried(q) \cap MadeEncoders \subseteq Taken \cup {a.encoder}
  BY <1>4, <1>6, <1>8
<1>16. SetupFrom(o, old, a.owned, outs, a.encoder)
  BY <1>2, <1>4, <1>13, <1>14, <1>15 DEF SetupFrom
<1>17. WantsVod(s) <=> stream[s].enableTwitchVOD /\ isTwitchVODSupported(s) /\ stream[s].twitchTrack \in tracks
  BY DEF WantsVod, isTwitchVODSupported
<1> DEFINE p == AdvancedVod(s, kept)
<1>18. CASE WantsVod(s)
  <2>1. p = SetupTwitchSoundtrackAudio(o, old, a.owned, outs, stream[s].twitchTrack)
    BY <1>17, <1>18 DEF AdvancedVod, Soundtrack, o, old, a, outs
  <2>2. SetupOK(p, o, old, a.owned, outs) /\ SoundtrackSet(p, o, old, outs, stream[s].twitchTrack)
    BY <1>2, <1>16, <2>1, SetupSoundtrackIs
  <2>. HIDE DEF p
  <2>. QED
    BY <1>12, <1>18, <2>2 DEF p, o, old, a, outs
<1>19. CASE ~WantsVod(s)
  <2>1. p = StopTwitchSoundtrackAudio(o, old, a.owned)
    BY <1>17, <1>19 DEF AdvancedVod, Soundtrack, o, old, a, outs
  <2>2. SetupOK(p, o, old, a.owned, outs) /\ (~Running(o) => p.output.audio[2] = Nil /\ p.output.audio[1] = o.audio[1])
    BY <1>16, <2>1, StopSoundtrackIs
  <2>. HIDE DEF p
  <2>. QED
    BY <1>12, <1>19, <2>2 DEF p, o, old, a, outs
<1>. QED
  BY <1>18, <1>19

LEMMA AdvancedStartKeeps ==
    ASSUME StreamsInv, NEW s, AdvancedStart(s)
    PROVE  StreamsInv'
<1>1. /\ s \in Advanceds /\ s \in Streams /\ s \notin Broadcasts /\ s \in Objects /\ s \notin Simples
      /\ stream[s] # Nil /\ dying = Nil /\ Spare /\ starts' = starts + 1 /\ stream[s].service # Nil
      /\ UNCHANGED <<uses, replay, tracks, sets, broadcast, dying>> /\ bitrate' = UpdateEncoders(s, AllOutputs)
  BY StreamingOutputsAssumption DEF AdvancedStart, CanStartAdvanced, PlainStreams, CanStart, Usable, Streams, Objects
<1>2. PICK kept \in LeavesOnCheck(s) :
        /\ AdvancedAudio(s, kept).encoder # Nil
        /\ stream' = [stream EXCEPT ![s].audioEncoder = AdvancedAudio(s, kept).encoder,
                                    ![s].streamArchive = AdvancedVod(s, kept).encoder]
        /\ owned' = AdvancedVod(s, kept).owned
        /\ \E o \in IF stream[s].tuned THEN Started(SetObsService(AdvancedVod(s, kept).output, stream[s].service))
                    ELSE {SetObsService(AdvancedVod(s, kept).output, stream[s].service)} : PutOutput(s, o, kept)
  BY DEF AdvancedStart, AdvancedSet, AdvancedOuts, AdvancedVod, AdvancedAudio
<1> DEFINE a == AdvancedAudio(s, kept)
           p == AdvancedVod(s, kept)
           c == checkOutput(s)
           old == stream[s].streamArchive
           own == stream[s].audioEncoder
           outs == AdvancedOuts(s, kept)
           set == AdvancedSet(s, kept)
           q == SetObsService(p.output, stream[s].service)
           st == [stream[s] EXCEPT !.audioEncoder = a.encoder, !.streamArchive = p.encoder]
<1>3. PICK o \in Started(q) \cup {q} : PutOutput(s, o, kept)
  BY <1>2
<1>4. kept \in Leaves(s)
  BY LeftOnCheckIs
<1>5. SetupOK(a, c, own, owned, outs)
  BY <1>1, <1>2, <1>4, AdvancedAudioIs
<1>6. SetupOK(p, set, old, a.owned, outs) /\ old # a.encoder
  BY <1>1, <1>2, <1>4, AdvancedVodIs
<1>7. set \in ObsOutputs /\ set.stats = c.stats /\ Carried(set) \cap MadeEncoders \subseteq Carried(c) \cup {a.encoder}
  BY <1>1, <1>2, <1>4, AdvancedSetIs
<1>8. StreamTypes /\ StreamOK(s) /\ OutputOK(s) /\ EncodersOwned
  BY <1>1 DEF StreamsInv, StreamsOK, OutputsOK
<1>9. stream[s] \in StreamSettings /\ stream[s].service \in Services
  <2>1. stream[s] \in StreamSettings
    BY <1>1, <1>8, SettingsAre
  <2>. QED
    BY <1>1, <2>1 DEF StreamSettings
<1>10. a.encoder # Nil /\ owned' = p.owned
  BY <1>2
<1>11. Nil \notin MadeEncoders /\ owned \subseteq MadeEncoders
  BY <1>8, StreamingOutputsAssumption DEF StreamTypes
<1>12. stream' = [stream EXCEPT ![s] = st]
  BY <1>2
<1>13. \A y \in Objects \ {s} : output[y] \in outs /\ lingering[y] \in outs
  <2>1. Carried(Nil) = {}
    BY DEF Carried
  <2>. QED
    BY <1>1, <1>4, <1>8, <2>1, OutsAre DEF AdvancedOuts
<1>14. c.stats => output[s] # Nil /\ output[s].stats
  BY <1>1, <1>8, CheckedIs
<1>15. Carried(c) \subseteq Carried(output[s])
  BY <1>1, <1>8, CheckedIs
<1>. HIDE DEF a, p, c, outs, set, q
<1>16. a.encoder \in MadeEncoders /\ p.encoder \in MadeEncoders \cup {Nil}
  BY <1>5, <1>6, <1>10 DEF SetupOK
<1>17. /\ st \in StreamSettings /\ st.streamArchive = p.encoder /\ st.audioEncoder = a.encoder
       /\ st # Nil /\ stream'[s] = st
  <2>1. st \in StreamSettings /\ st.streamArchive = p.encoder /\ st.audioEncoder = a.encoder
    BY <1>9, <1>16 DEF StreamSettings
  <2>2. stream'[s] = st
    BY <1>1, <1>8, <1>12 DEF StreamTypes
  <2>. QED
    BY <2>1, <2>2, StreamingOutputsAssumption
<1>. HIDE DEF st
<1>18. HeldBy(s) = {old, own} \ {Nil} /\ HeldBy(s)' = {a.encoder, p.encoder} \ {Nil}
  <2>1. HeldBy(s) = {old, own} \ {Nil}
    BY <1>1, HeldByStream
  <2>2. HeldBy(s)' = {a.encoder, p.encoder} \ {Nil}
    BY <1>1, <1>17, HeldByStreamNext
  <2>. QED
    BY <2>1, <2>2
<1>19. HeldBy(s) \subseteq owned
  BY <1>1, <1>8 DEF EncodersOwned
<1>. HIDE DEF old, own
<1>20. p.encoder # a.encoder
  BY <1>5, <1>6, <1>10 DEF SetupOK
<1>21. /\ o \in ObsOutputs /\ o # Nil /\ o.stats = p.output.stats /\ o.audio = p.output.audio
       /\ Carried(o) = Carried(p.output)
  <2>1. p.output \in ObsOutputs
    BY <1>6 DEF SetupOK
  <2>2. q \in ObsOutputs /\ q # Nil /\ q.stats = p.output.stats /\ q.audio = p.output.audio /\ Carried(q) = Carried(p.output)
    BY <1>9, <2>1, ServiceSet DEF q
  <2>. QED
    BY <2>2, <1>3, StartedIs
<1>22. ~o.stats
  <2>1. o.stats = c.stats
    BY <1>6, <1>7, <1>21 DEF SetupOK
  <2>. QED
    BY <1>1, <1>8, <1>14, <2>1 DEF OutputOK
<1>23. StreamOK(s)'
  BY <1>1, <1>16, <1>17, <1>20 DEF StreamOK
<1>24. output'[s] = o /\ lingering'[s] = kept
  BY <1>1, <1>3, <1>8 DEF PutOutput, StreamTypes
<1>25. OutputOK(s)'
  <2>1. s \notin Replays /\ s \notin SimpleReplays
    BY <1>1, StreamingOutputsAssumption DEF Replays
  <2>. QED
    BY <1>1, <1>17, <1>21, <1>22, <1>24, <2>1 DEF OutputOK
<1>26. /\ kept \in ObsOutputs \cup {Nil} /\ Carried(lingering[s]) \subseteq Carried(kept)
       /\ Carried(kept) \subseteq Carried(output[s]) \cup Carried(lingering[s])
       /\ kept = lingering[s] \/ (kept = output[s] /\ Running(output[s]))
  BY <1>1, <1>4, <1>8, LeftIs
<1>28. Carried(o) \cap MadeEncoders \subseteq Carried(output[s]) \cup HeldBy(s)'
  <2>1. Carried(o) \subseteq Carried(set) \cup {p.encoder}
    BY <1>6, <1>21 DEF SetupOK
  <2>. QED
    BY <1>7, <1>10, <1>11, <1>15, <1>18, <2>1
<1>29. /\ a.owned \subseteq (owned \ {own}) \cup {a.encoder} /\ owned \ {own} \subseteq a.owned
       /\ a.encoder \in a.owned
       /\ (a.encoder # own => a.encoder \notin owned /\ \A x \in outs : a.encoder \notin Carried(x))
  BY <1>5, <1>10 DEF SetupOK
<1>30. /\ p.owned \subseteq (a.owned \ {old}) \cup ({p.encoder} \ {Nil}) /\ a.owned \ {old} \subseteq p.owned
       /\ (p.encoder # Nil => p.encoder \in p.owned)
       /\ (p.encoder \notin {old, Nil} => p.encoder \notin a.owned /\ \A x \in outs : p.encoder \notin Carried(x))
  BY <1>6 DEF SetupOK
<1>31. HeldBy(s)' \subseteq owned'
  BY <1>6, <1>10, <1>18, <1>29, <1>30
<1>32. owned \ HeldBy(s) \subseteq owned'
  BY <1>10, <1>11, <1>18, <1>29, <1>30
<1>33. owned' \subseteq (owned \ HeldBy(s)) \cup HeldBy(s)' \cup {e \in HeldBy(s) : e \in Carried(kept)}
  BY <1>10, <1>18, <1>29, <1>30
<1>34. ASSUME NEW e \in HeldBy(s)' \ HeldBy(s)
       PROVE  e \notin owned /\ \A x \in Objects \ {s} : e \notin Carried(output[x]) \cup Carried(lingering[x])
  <2>1. CASE e = a.encoder
    <3>1. e # own
      BY <2>1, <1>10, <1>18
    <3>. QED
      BY <2>1, <3>1, <1>13, <1>29
  <2>2. CASE e = p.encoder
    <3>1. e \notin {old, Nil} /\ e # own
      BY <2>2, <1>18
    <3>. QED
      BY <2>2, <3>1, <1>13, <1>29, <1>30
  <2>. QED
    BY <2>1, <2>2, <1>18
<1>35. bitrate' \in [VideoEncoders -> {"low", "high"}] /\ starts' \in Nat /\ dying' = Nil
  BY <1>1, <1>8, BitratesAre DEF StreamTypes
<1>36. owned' \subseteq MadeEncoders
  BY <1>10, <1>11, <1>16, <1>29, <1>30
<1>37. (Carried(o) \cup Carried(kept)) \cap owned \subseteq Carried(output[s]) \cup Carried(lingering[s]) \cup HeldBy(s) \cup HeldBy(s)'
  BY <1>11, <1>26, <1>28
<1>. QED
  BY <1>1, <1>3, <1>12, <1>17, <1>21, <1>23, <1>25, <1>26, <1>31, <1>32, <1>33, <1>34, <1>35, <1>36, <1>37, StreamStepKeeps

-----------------------------------------------------------------------------
(* Broadcasts.                                                                *)

\* (<<x>> \o <<y>>) has the two.
LEMMA TwoInOrder ==
    ASSUME NEW S, NEW s \in Seq(S), NEW t \in Seq(S), Len(s) = 1, Len(t) = 1
    PROVE  DOMAIN (s \o t) = 1 .. 2 /\ (s \o t)[1] = s[1] /\ (s \o t)[2] = t[1]
<1>1. /\ s \o t \in Seq(S) /\ Len(s \o t) = Len(s) + Len(t)
      /\ \A i \in 1 .. Len(s) : (s \o t)[i] = s[i]
      /\ \A i \in Len(s) + 1 .. Len(s) + Len(t) : (s \o t)[i] = t[i - Len(s)]
  BY ONLY TRUE
<1> DEFINE u == s \o t
<1>. HIDE DEF u
<1>2. u \in Seq(S) /\ Len(u) = 2 /\ u[1] = s[1]
  BY <1>1 DEF u
<1>3. u[2] = t[2 - 1]
  BY <1>1 DEF u
<1>. QED
  BY <1>2, <1>3 DEF u

LEMMA OneOrNone == \A S, e : [i \in 1 .. 1 |-> e] = <<e>> /\ [i \in 1 .. 0 |-> e] = <<>>
  OBVIOUS

\* The encoders of a broadcast are new.
LEMMA EncodersOfBroadcast ==
    ASSUME StreamsInv, Spare, NEW b \in Broadcasts, stream[b] # Nil
    PROVE  LET audio == create_audio_encoders(b)
               made == {audio[i] : i \in DOMAIN audio}
           IN  /\ made \subseteq MadeEncoders /\ made # {}
               /\ \A e \in made : e \notin owned /\ \A o \in AllOutputs : e \notin Carried(o)
<1> DEFINE live == Fresh(1, owned, AllOutputs)
           second == Fresh(CHOOSE t \in VodTracks(b) : TRUE, owned \cup {live}, AllOutputs)
<1>1. b \in Streams /\ 1 \in Tracks /\ VodTrackMixerIndex + 1 \in Tracks /\ StreamTypes
  BY StreamingOutputsAssumption DEF VodTrackMixerIndex, StreamsInv
<1>2. stream[b].twitchTrack \in Tracks
  BY <1>1, SettingsAre DEF StreamSettings
<1>3. \A o \in AllOutputs : Carried(o) \subseteq Taken
  BY DEF Taken
<1>4. owned \subseteq Taken
  BY DEF Taken
<1>5. live \in MadeEncoders /\ live \notin owned /\ \A o \in AllOutputs : live \notin Carried(o)
  BY <1>1, <1>3, <1>4, FreshIs
<1>. HIDE DEF live
<1>6. CASE VodTracks(b) = {}
  <2>1. Cardinality(VodTracks(b)) = 0
    BY <1>6, FS_EmptySet
  <2>2. create_audio_encoders(b) = <<live>> \o <<>>
    BY <2>1, OneOrNone DEF create_audio_encoders, live
  <2>3. <<live>> \o <<>> = <<live>>
    OBVIOUS
  <2> DEFINE audio == create_audio_encoders(b)
  <2>. HIDE DEF audio
  <2>4. audio = <<live>>
    BY <2>2, <2>3 DEF audio
  <2>5. {audio[i] : i \in DOMAIN audio} = {live}
    BY <2>4
  <2>. QED
    BY <1>5, <2>5 DEF audio
<1>7. CASE VodTracks(b) # {}
  <2>1. PICK track \in Tracks : VodTracks(b) = {track}
    BY <1>1, <1>2, <1>7 DEF VodTracks
  <2>2. Cardinality(VodTracks(b)) = 1
    BY <2>1, FS_Singleton
  <2>3. (CHOOSE t \in VodTracks(b) : TRUE) \in Tracks
    BY <2>1
  <2>4. owned \cup {live} \subseteq Taken \cup {live}
    BY <1>4
  <2>5. second \in MadeEncoders /\ second \notin owned /\ \A o \in AllOutputs : second \notin Carried(o)
    <3> DEFINE who == CHOOSE t \in VodTracks(b) : TRUE
               mine == owned \cup {live}
    <3>. HIDE DEF who, mine
    <3>1. who \in Tracks /\ mine \subseteq Taken \cup {live} /\ owned \subseteq mine
      BY <2>3, <2>4 DEF who, mine
    <3>2. LET e == Fresh(who, mine, AllOutputs)
          IN  e \in MadeEncoders /\ e[1] = who /\ e \notin mine /\ \A o \in AllOutputs : e \notin Carried(o)
      BY <1>3, <3>1, FreshIs
    <3>. QED
      BY <3>1, <3>2 DEF who, mine
  <2>6. create_audio_encoders(b) = <<live>> \o [i \in 1 .. 1 |-> second]
    BY <2>2 DEF create_audio_encoders, live
  <2>. HIDE DEF second
  <2>7. create_audio_encoders(b) = <<live>> \o <<second>>
    BY <2>6, OneOrNone
  <2> DEFINE one == <<live>>
             other == <<second>>
             audio == create_audio_encoders(b)
  <2>8. /\ one \in Seq(MadeEncoders) /\ Len(one) = 1 /\ one[1] = live
        /\ other \in Seq(MadeEncoders) /\ Len(other) = 1 /\ other[1] = second
    BY <1>5, <2>5
  <2>9. audio = one \o other
    BY <2>7
  <2>. HIDE DEF one, other, audio
  <2>10. DOMAIN audio = 1 .. 2 /\ audio[1] = live /\ audio[2] = second
    BY <2>8, <2>9, TwoInOrder
  <2>11. {audio[i] : i \in DOMAIN audio} = {live, second}
    BY <2>10
  <2>. QED
    BY <1>5, <2>5, <2>11 DEF audio
<1>. QED
  BY <1>6, <1>7

LEMMA OutputOfBroadcast ==
    ASSUME NEW audio, {audio[i] : i \in DOMAIN audio} \subseteq MadeEncoders, NEW w \in Services
    PROVE  LET o == [SetupOBSOutput(audio) EXCEPT !.service = w]
               p == [o EXCEPT !.stats = TRUE]
           IN  /\ o \in ObsOutputs /\ o # Nil /\ o.running = FALSE /\ o.stats = FALSE
               /\ Carried(o) \subseteq {audio[i] : i \in DOMAIN audio}
               /\ p \in ObsOutputs /\ p # Nil
               /\ Carried(p) \subseteq {audio[i] : i \in DOMAIN audio}
<1> DEFINE n == NewObsOutput("rtmp_output")
           f == [i \in Slots |-> IF i \in DOMAIN audio THEN audio[i] ELSE Nil]
           m == [n EXCEPT !.audio = f]
           o == [m EXCEPT !.service = w]
           p == [o EXCEPT !.stats = TRUE]
<1>1. n \in ObsOutputs
  BY NewOutputIs
<1>2. n.video = Nil /\ n.running = FALSE /\ n.stats = FALSE
  BY DEF NewObsOutput
<1>3. f \in [Slots -> AudioEncoders \cup MadeEncoders \cup {RecorderAudio, Nil}]
  OBVIOUS
<1>4. m = SetupOBSOutput(audio)
  BY DEF SetupOBSOutput
<1>5. {f[i] : i \in Slots} \ {Nil} \subseteq {audio[i] : i \in DOMAIN audio}
  OBVIOUS
<1>. HIDE DEF n, f
<1>6. /\ m \in ObsOutputs /\ m.running = FALSE /\ m.stats = FALSE /\ m.video = Nil /\ m.audio = f
  BY <1>1, <1>2, <1>3 DEF ObsOutputs
<1>. HIDE DEF m
<1>7. /\ o \in ObsOutputs /\ o.running = FALSE /\ o.stats = FALSE /\ o.video = Nil /\ o.audio = f
  BY <1>6 DEF ObsOutputs
<1>. HIDE DEF o
<1>8. /\ p \in ObsOutputs /\ p.video = Nil /\ p.audio = f
  BY <1>7 DEF ObsOutputs
<1>. HIDE DEF p
<1>9. Carried(o) \subseteq {audio[i] : i \in DOMAIN audio} /\ Carried(p) \subseteq {audio[i] : i \in DOMAIN audio}
  BY <1>5, <1>7, <1>8, RunningIs DEF Carried, Heard
<1>. QED
  BY <1>4, <1>7, <1>8, <1>9, RunningIs DEF o, p

\* What a broadcast lets go of does not call back any more.
LEMMA LetGoOf ==
    ASSUME StreamsInv, dying = Nil, NEW b \in Broadcasts, NEW kept \in DeleteBroadcast(b)
    PROVE  /\ kept \in ObsOutputs \cup {Nil}
           /\ kept = lingering[b] \/ ~CallsBack(kept)
           /\ Carried(lingering[b]) \subseteq Carried(kept)
           /\ Carried(kept) \subseteq Carried(output[b]) \cup Carried(lingering[b])
<1>1. b \in Objects /\ b # Nil /\ StreamTypes /\ CountedKept
  BY StreamingOutputsAssumption DEF Objects, StreamsInv
<1>2. PICK was \in Leaves(b) :
        kept = IF was = output[b] /\ was # Nil /\ broadcast[b] # {} THEN [was EXCEPT !.stats = FALSE] ELSE was
  BY DEF DeleteBroadcast
<1>3. /\ was \in ObsOutputs \cup {Nil} /\ Carried(lingering[b]) \subseteq Carried(was)
      /\ Carried(was) \subseteq Carried(output[b]) \cup Carried(lingering[b])
      /\ was = lingering[b] \/ was = output[b]
  BY <1>1, LeftIs
<1>4. CASE was = output[b] /\ was # Nil /\ broadcast[b] # {}
  <2>1. was \in ObsOutputs
    BY <1>3, <1>4
  <2>2. kept = [was EXCEPT !.stats = FALSE]
    BY <1>2, <1>4
  <2>3. kept \in ObsOutputs /\ kept.stats = FALSE /\ kept.audio = was.audio /\ kept.video = was.video
    BY <2>1, <2>2 DEF ObsOutputs
  <2>4. Carried(kept) = Carried(was)
    BY <2>1, <2>3, RunningIs DEF Carried, Heard
  <2>. QED
    BY <1>3, <2>3, <2>4 DEF CallsBack
<1>5. CASE ~(was = output[b] /\ was # Nil /\ broadcast[b] # {})
  <2>1. kept = was
    BY <1>2, <1>5
  <2>2. kept = lingering[b] \/ ~CallsBack(kept)
    BY <1>1, <1>3, <1>5, <2>1 DEF CountedKept, CallsBack, Running
  <2>. QED
    BY <1>3, <2>1, <2>2
<1>. QED
  BY <1>4, <1>5

LEMMA HeldByBroadcast ==
    ASSUME StreamsInv, NEW b \in Broadcasts
    PROVE  HeldBy(b) = broadcast[b]
<1>1. b \in Streams /\ b \notin Replays /\ StreamOK(b)
  BY StreamingOutputsAssumption DEF StreamsInv, StreamsOK
<1>. QED
  BY <1>1 DEF HeldBy, StreamOK

LEMMA BroadcastStartKeeps ==
    ASSUME StreamsInv, NEW b, StartEnhancedBroadcastingStream(b)
    PROVE  StreamsInv'
<1>1. /\ b \in Broadcasts /\ b \in Streams /\ b \in Objects /\ b \notin Replays /\ b \notin SimpleReplays
      /\ stream[b] # Nil /\ dying = Nil /\ Spare /\ starts' = starts + 1 /\ stream[b].service # Nil
      /\ UNCHANGED <<uses, stream, replay, tracks, sets, bitrate, dying>>
  BY StreamingOutputsAssumption DEF StartEnhancedBroadcastingStream, CanStart, Usable, Objects, settings, Replays
<1> DEFINE audio == create_audio_encoders(b)
           made == {audio[i] : i \in DOMAIN audio}
           new == [SetupOBSOutput(audio) EXCEPT !.service = stream[b].service]
           counted == [new EXCEPT !.stats = TRUE]
           rest == owned \ broadcast[b]
<1>2. PICK kept \in DeleteBroadcast(b) :
        IF stream[b].tuned
        THEN /\ \E o \in Started(counted) : PutOutput(b, o, kept)
             /\ broadcast' = [broadcast EXCEPT ![b] = made]
             /\ owned' = rest \cup made
        ELSE /\ PutOutput(b, new, kept)
             /\ broadcast' = [broadcast EXCEPT ![b] = {}]
             /\ owned' = rest
  BY DEF StartEnhancedBroadcastingStream
<1>3. /\ made \subseteq MadeEncoders /\ made # {}
      /\ \A e \in made : e \notin owned /\ \A o \in AllOutputs : e \notin Carried(o)
  BY <1>1, EncodersOfBroadcast
<1>4. StreamTypes /\ StreamOK(b) /\ OutputOK(b) /\ EncodersOwned
  BY <1>1 DEF StreamsInv, StreamsOK, OutputsOK
<1>5. stream[b] \in StreamSettings /\ stream[b].service \in Services /\ stream' = [stream EXCEPT ![b] = stream[b]]
  <2>1. stream[b] \in StreamSettings
    BY <1>1, <1>4, SettingsAre
  <2>. QED
    BY <1>1, <1>4, <2>1 DEF StreamSettings, StreamTypes
<1>. HIDE DEF audio
<1>7. /\ counted \in ObsOutputs /\ counted # Nil /\ Carried(counted) \subseteq made
      /\ new \in ObsOutputs /\ new # Nil /\ Carried(new) \subseteq made
      /\ new.running = FALSE /\ new.stats = FALSE
  BY <1>3, <1>5, OutputOfBroadcast
<1>. HIDE DEF made, counted, new
<1>8. HeldBy(b) = broadcast[b] /\ broadcast[b] \subseteq owned
  BY <1>1, <1>4, HeldByBroadcast DEF EncodersOwned
<1>9. /\ kept \in ObsOutputs \cup {Nil}
      /\ Carried(lingering[b]) \subseteq Carried(kept)
      /\ Carried(kept) \subseteq Carried(output[b]) \cup Carried(lingering[b])
  BY <1>1, LetGoOf
<1>10. PICK o \in ObsOutputs, mine \in {made, {}} :
          /\ PutOutput(b, o, kept) /\ broadcast' = [broadcast EXCEPT ![b] = mine] /\ owned' = rest \cup mine
          /\ o # Nil /\ Carried(o) \subseteq made /\ (Running(o) /\ o.stats => mine # {})
  <2>1. CASE stream[b].tuned
    <3>1. PICK o \in Started(counted) : PutOutput(b, o, kept)
      BY <1>2, <2>1
    <3>2. o \in ObsOutputs /\ o # Nil /\ Carried(o) = Carried(counted)
      BY <1>7, <3>1, StartedIs
    <3>. QED
      BY <1>2, <1>3, <1>7, <2>1, <3>1, <3>2
  <2>2. CASE ~stream[b].tuned
    <3>1. PutOutput(b, new, kept) /\ broadcast' = [broadcast EXCEPT ![b] = {}] /\ owned' = rest \cup {}
      BY <1>2, <2>2
    <3>2. ~Running(new)
      BY <1>7, RunningIs
    <3>. QED
      BY <1>7, <3>1, <3>2
  <2>. QED
    BY <2>1, <2>2
<1>11. output'[b] = o /\ broadcast'[b] = mine
  BY <1>1, <1>4, <1>10 DEF PutOutput, StreamTypes
<1>12. HeldBy(b)' = mine
  <2>1. b \in Advanceds => stream[b].audioEncoder = Nil
    BY <1>1, <1>4 DEF StreamOK
  <2>2. stream[b].streamArchive = Nil
    BY <1>1, <1>4 DEF StreamOK
  <2>. QED
    BY <1>1, <1>11, <2>1, <2>2 DEF HeldBy
<1>13. StreamOK(b)'
  BY <1>1, <1>4 DEF StreamOK
<1>14. OutputOK(b)'
  BY <1>1, <1>10, <1>11 DEF OutputOK
<1>15. dying' = Nil /\ starts' \in Nat /\ bitrate' \in [VideoEncoders -> {"low", "high"}]
  BY <1>1, <1>4 DEF StreamTypes
<1>16. mine \in SUBSET MadeEncoders /\ mine \subseteq made
  BY <1>3, <1>10
<1>17. owned' \subseteq MadeEncoders
  BY <1>4, <1>10, <1>16 DEF StreamTypes
<1>18. HeldBy(b)' \subseteq owned' /\ owned \ HeldBy(b) \subseteq owned'
  BY <1>8, <1>10, <1>12
<1>19. owned' \subseteq (owned \ HeldBy(b)) \cup HeldBy(b)' \cup {e \in HeldBy(b) : e \in Carried(kept)}
  BY <1>8, <1>10, <1>12
<1>20. ASSUME NEW e \in HeldBy(b)' \ HeldBy(b)
       PROVE  e \notin owned /\ \A x \in Objects \ {b} : e \notin Carried(output[x]) \cup Carried(lingering[x])
  BY <1>3, <1>12, <1>16 DEF AllOutputs
<1>21. (Carried(o) \cup Carried(kept)) \cap owned \subseteq Carried(output[b]) \cup Carried(lingering[b]) \cup HeldBy(b) \cup HeldBy(b)'
  BY <1>3, <1>9, <1>10
<1>22. IF b \in Broadcasts THEN broadcast' = [broadcast EXCEPT ![b] = mine] ELSE broadcast' = broadcast
  BY <1>1, <1>10
<1>. QED
  BY <1>1, <1>5, <1>9, <1>10, <1>13, <1>14, <1>15, <1>16, <1>17, <1>18, <1>19, <1>20, <1>21, <1>22, StreamStepKeeps

LEMMA BroadcastStopKeeps ==
    ASSUME StreamsInv, NEW b, StopEnhancedBroadcastingStream(b)
    PROVE  StreamsInv'
<1>1. /\ b \in Objects /\ output[b] # Nil /\ output' = [output EXCEPT ![b].stats = FALSE]
      /\ UNCHANGED <<settings, lingering, broadcast, owned, bitrate, dying, starts>>
  BY StreamingOutputsAssumption DEF StopEnhancedBroadcastingStream, Objects
<1> DEFINE o == [output[b] EXCEPT !.stats = FALSE]
<1>2. output[b] \in ObsOutputs /\ StreamTypes
  BY <1>1 DEF StreamsInv, StreamTypes
<1>3. o \in ObsOutputs /\ o.audio = output[b].audio /\ o.video = output[b].video /\ o.running = output[b].running /\ o.stats = FALSE
  BY <1>2 DEF ObsOutputs
<1>4. PutOutput(b, o, lingering[b])
  BY <1>1, <1>2 DEF PutOutput, StreamTypes
<1>. HIDE DEF o
<1>5. Running(o) => Running(output[b])
  BY <1>2, <1>3, RunningIs
<1>6. o # Nil
  BY <1>3, RunningIs
<1>7. lingering[b] \in ObsOutputs \cup {Nil}
  BY <1>1, <1>2, OutputsAre
<1>. QED
  BY <1>1, <1>3, <1>4, <1>5, <1>6, <1>7, EndingKeeps

LEMMA EndsKeepStreams ==
    ASSUME StreamsInv, NEW x \in Objects, OutputEnds(x) \/ LingeringEnds(x)
    PROVE  StreamsInv'
<1>1. StreamTypes
  BY DEF StreamsInv
<1>2. CASE OutputEnds(x)
  <2>1. /\ output' = [output EXCEPT ![x].running = FALSE] /\ output[x] # Nil /\ Running(output[x])
        /\ UNCHANGED <<settings, lingering, broadcast, owned, bitrate, dying, starts>>
    BY <1>2 DEF OutputEnds, Running
  <2> DEFINE o == [output[x] EXCEPT !.running = FALSE]
  <2>2. output[x] \in ObsOutputs
    BY <1>1, <2>1, OutputsAre
  <2>3. o \in ObsOutputs /\ o.audio = output[x].audio /\ o.video = output[x].video /\ o.stats = output[x].stats
    BY <2>2 DEF ObsOutputs
  <2>4. PutOutput(x, o, lingering[x])
    BY <1>1, <2>1 DEF PutOutput, StreamTypes
  <2>. HIDE DEF o
  <2>5. o # Nil /\ lingering[x] \in ObsOutputs \cup {Nil}
    BY <1>1, <2>3, RunningIs, OutputsAre
  <2>. QED
    BY <2>1, <2>3, <2>4, <2>5, EndingKeeps
<1>3. CASE LingeringEnds(x)
  <2>1. /\ lingering' = [lingering EXCEPT ![x].running = FALSE] /\ lingering[x] # Nil /\ Running(lingering[x])
        /\ UNCHANGED <<settings, output, broadcast, owned, bitrate, dying, starts>>
    BY <1>3 DEF LingeringEnds, Running
  <2> DEFINE o == [lingering[x] EXCEPT !.running = FALSE]
  <2>2. lingering[x] \in ObsOutputs
    BY <1>1, <2>1, OutputsAre
  <2>3. o \in ObsOutputs /\ o.audio = lingering[x].audio /\ o.video = lingering[x].video /\ o.stats = lingering[x].stats
    BY <2>2 DEF ObsOutputs
  <2>4. PutOutput(x, output[x], o)
    BY <1>1, <2>1 DEF PutOutput, StreamTypes
  <2>. HIDE DEF o
  <2>5. o # Nil /\ output[x] \in ObsOutputs \cup {Nil}
    BY <1>1, <2>3, RunningIs, OutputsAre
  <2>. QED
    BY <2>1, <2>3, <2>4, <2>5, EndingKeeps
<1>. QED
  BY <1>2, <1>3

-----------------------------------------------------------------------------
(* Destruction.                                                               *)

LEMMA ContextDestroyKeeps ==
    ASSUME StreamsInv, NEW b, DestroyContext(b)
    PROVE  StreamsInv'
<1>1. /\ b \in Broadcasts /\ b \in Streams /\ b \in Objects /\ b \notin Replays
      /\ stream[b] # Nil /\ dying = Nil /\ dying' = b
      /\ broadcast' = [broadcast EXCEPT ![b] = {}] /\ owned' = owned \ broadcast[b]
      /\ UNCHANGED <<uses, stream, replay, tracks, sets, output, lingering, bitrate, starts>>
  BY StreamingOutputsAssumption DEF DestroyContext, Usable, Objects, settings
<1>2. StreamTypes /\ StreamOK(b) /\ OutputOK(b) /\ EncodersOwned
  BY <1>1 DEF StreamsInv, StreamsOK, OutputsOK
<1>3. /\ output[b] \in ObsOutputs \cup {Nil} /\ lingering[b] \in ObsOutputs \cup {Nil}
      /\ PutOutput(b, output[b], lingering[b])
  BY <1>1, <1>2 DEF StreamTypes, PutOutput
<1>4. stream[b] \in StreamSettings /\ stream' = [stream EXCEPT ![b] = stream[b]]
  BY <1>1, <1>2, SettingsAre DEF StreamTypes
<1>5. HeldBy(b) = broadcast[b]
  BY <1>1, HeldByBroadcast
<1>6. HeldBy(b)' = {}
  <2>1. stream[b].streamArchive = Nil /\ (b \in Advanceds => stream[b].audioEncoder = Nil)
    BY <1>1, <1>2 DEF StreamOK
  <2>2. broadcast'[b] = {}
    BY <1>1, <1>2 DEF StreamTypes
  <2>. QED
    BY <1>1, <2>1, <2>2 DEF HeldBy
<1>7. StreamOK(b)'
  BY <1>1, <1>2 DEF StreamOK
<1>8. OutputOK(b)'
  BY <1>1, <1>2 DEF OutputOK
<1>9. /\ owned' \subseteq MadeEncoders /\ starts' \in Nat /\ bitrate' \in [VideoEncoders -> {"low", "high"}]
  BY <1>1, <1>2 DEF StreamTypes
<1>11. IF b \in Broadcasts THEN broadcast' = [broadcast EXCEPT ![b] = {}] ELSE broadcast' = broadcast
  BY <1>1
<1>12. /\ HeldBy(b)' \subseteq owned' /\ owned \ HeldBy(b) \subseteq owned' /\ HeldBy(b)' \ HeldBy(b) = {}
       /\ owned' \subseteq (owned \ HeldBy(b)) \cup HeldBy(b)' \cup {e \in HeldBy(b) : e \in Carried(lingering[b])}
       /\ (Carried(output[b]) \cup Carried(lingering[b])) \cap owned
              \subseteq Carried(output[b]) \cup Carried(lingering[b]) \cup HeldBy(b) \cup HeldBy(b)'
  BY <1>1, <1>5, <1>6
<1>13. UNCHANGED <<uses, replay, tracks, sets>>
  BY <1>1
<1>14. Running(output[b]) /\ output[b].stats => {} # {} \/ dying' = b
  BY <1>1
<1>15. {} \in SUBSET MadeEncoders
  OBVIOUS
<1>16. dying \in {Nil, b} /\ dying' = b /\ b \in Broadcasts /\ {} = {}
  BY <1>1
<1>. QED
  BY <1>1, <1>3, <1>4, <1>7, <1>8, <1>9, <1>11, <1>12, <1>13, <1>14, <1>15, <1>16, StreamStepKeeps

LEMMA StreamDestroyKeeps ==
    ASSUME StreamsInv, NEW s \in Streams, DestroyStream(s)
    PROVE  StreamsInv'
<1>1. /\ s \in Objects /\ s \notin Replays /\ s # Nil /\ stream[s] # Nil /\ ~Lent(s)
      /\ (s \in Broadcasts => dying = s) /\ dying' = Nil
      /\ stream' = [stream EXCEPT ![s] = Nil]
      /\ UNCHANGED <<uses, replay, tracks, sets, broadcast, bitrate, starts>>
  BY StreamingOutputsAssumption DEF DestroyStream, Objects
<1>2. PICK kept \in Leaves(s) : PutOutput(s, Nil, kept) /\ owned' = owned \ Released(s, kept)
  BY DEF DestroyStream
<1>3. StreamTypes /\ StreamOK(s) /\ OutputOK(s) /\ EncodersOwned /\ OwnersCarry /\ DyingOK
  BY <1>1 DEF StreamsInv, StreamsOK, OutputsOK
<1> DEFINE old == stream[s].streamArchive
           own == stream[s].audioEncoder
           mine == IF s \in Broadcasts THEN broadcast[s] ELSE {}
           outs == OutputsWith(s, Nil, kept)
<1>4. mine = {}
  BY <1>1, <1>3 DEF DyingOK
<1>5. /\ kept \in ObsOutputs \cup {Nil} /\ Carried(lingering[s]) \subseteq Carried(kept)
      /\ Carried(kept) \subseteq Carried(output[s]) \cup Carried(lingering[s])
      /\ kept = lingering[s] \/ (kept = output[s] /\ Running(output[s]))
  BY <1>1, <1>2, <1>3, LeftIs
<1>6. dying \in {Nil, s}
  BY DEF DestroyStream
<1>7. HeldBy(s) = ({old} \cup IF s \in Advanceds THEN {own} ELSE {}) \ {Nil}
  BY <1>1, <1>4 DEF HeldBy
<1>8. stream'[s] = Nil
  BY <1>3, <1>1 DEF StreamTypes
<1>9. HeldBy(s)' = {}
  BY <1>1, <1>4, <1>8 DEF HeldBy
<1>10. Nil \notin owned /\ owned \subseteq MadeEncoders /\ HeldBy(s) \subseteq owned
  BY <1>1, <1>3, StreamingOutputsAssumption DEF StreamTypes, EncodersOwned
<1>11. Released(s, kept) = (IF ActiveIn(old, outs) THEN {} ELSE {old}) \cup (IF s \in Advanceds THEN {own} ELSE {})
  BY DEF Released
<1>12. ActiveIn(old, outs) /\ old \in HeldBy(s) => old \in Carried(kept)
  <2>1. ASSUME ActiveIn(old, outs), old \in HeldBy(s) PROVE old \in Carried(kept)
    <3>1. PICK o \in outs : old \in Carried(o)
      BY <2>1 DEF ActiveIn
    <3>2. \A y \in Objects \ {s} : old \notin Carried(output[y]) \cup Carried(lingering[y])
      BY <1>1, <1>3, <2>1 DEF OwnersCarry
    <3>3. o \in {output[y] : y \in Objects \ {s}} \cup {lingering[y] : y \in Objects \ {s}} \cup {Nil, kept}
      BY DEF OutputsWith
    <3>4. Carried(Nil) = {}
      BY DEF Carried
    <3>. HIDE DEF old, outs
    <3>. QED
      BY <3>1, <3>2, <3>3, <3>4
  <2>. QED
    BY <2>1
<1>. HIDE DEF old, own, outs
<1>13. owned \ HeldBy(s) \subseteq owned'
  BY <1>2, <1>7, <1>10, <1>11
<1>14. owned' \subseteq (owned \ HeldBy(s)) \cup HeldBy(s)' \cup {e \in HeldBy(s) : e \in Carried(kept)}
  <2>1. ASSUME NEW e \in owned', e \in HeldBy(s) PROVE e \in Carried(kept)
    <3>1. e \notin Released(s, kept)
      BY <1>2
    <3>2. e = old /\ ActiveIn(old, outs)
      BY <1>7, <1>11, <2>1, <3>1
    <3>. QED
      BY <1>12, <2>1, <3>2
  <2>. QED
    BY <1>2, <2>1
<1>15. StreamOK(s)'
  BY <1>8 DEF StreamOK
<1>16. output'[s] = Nil
  BY <1>1, <1>2, <1>3 DEF PutOutput, StreamTypes
<1>17. OutputOK(s)'
  BY <1>1, <1>16 DEF OutputOK
<1>18. IF s \in Broadcasts THEN broadcast' = [broadcast EXCEPT ![s] = mine] ELSE broadcast' = broadcast
  BY <1>1, <1>3 DEF StreamTypes
<1>19. mine \in SUBSET MadeEncoders
  BY <1>4
<1>20. /\ owned' \subseteq MadeEncoders /\ starts' \in Nat /\ bitrate' \in [VideoEncoders -> {"low", "high"}]
  BY <1>1, <1>2, <1>3 DEF StreamTypes
<1>21. Carried(Nil) = {} /\ ~Running(Nil)
  BY DEF Carried, Running
<1>. HIDE DEF mine
<1>22. (Carried(Nil) \cup Carried(kept)) \cap owned \subseteq Carried(output[s]) \cup Carried(lingering[s]) \cup HeldBy(s) \cup HeldBy(s)'
  BY <1>5, <1>21
<1>23. Nil \in ObsOutputs \cup {Nil} /\ Nil \in StreamSettings \cup {Nil} /\ HeldBy(s)' \subseteq owned' /\ HeldBy(s)' \ HeldBy(s) = {}
  BY <1>9
<1>24. UNCHANGED <<uses, replay, tracks, sets>>
  BY <1>1
<1>. QED
  BY <1>1, <1>2, <1>5, <1>6, <1>13, <1>14, <1>15, <1>17, <1>18, <1>19, <1>20, <1>21, <1>22, <1>23, <1>24, StreamStepKeeps

-----------------------------------------------------------------------------
(* Replay buffers.                                                            *)

LEMMA HeldByReplay ==
    ASSUME NEW r \in Replays, replay[r] # Nil
    PROVE  HeldBy(r) = replay[r].audioEncoders
  BY DEF HeldBy

LEMMA ReplayDestroyKeeps ==
    ASSUME StreamsInv, NEW r \in Replays, DestroyReplay(r)
    PROVE  StreamsInv'
<1>1. /\ r \in Objects /\ replay[r] # Nil /\ replay' = [replay EXCEPT ![r] = Nil]
      /\ owned' = owned \ replay[r].audioEncoders
      /\ UNCHANGED <<uses, stream, tracks, sets, broadcast, bitrate, dying, starts>>
  BY DEF DestroyReplay, Objects
<1>2. PICK kept \in Leaves(r) : PutOutput(r, Nil, kept)
  BY DEF DestroyReplay
<1>3. StreamTypes /\ OutputOK(r) /\ r \notin Broadcasts /\ r \notin Streams
  BY <1>1, StreamingOutputsAssumption DEF StreamsInv, OutputsOK
<1>4. /\ kept \in ObsOutputs \cup {Nil}
      /\ Carried(kept) \subseteq Carried(output[r]) \cup Carried(lingering[r])
      /\ kept = lingering[r] \/ (kept = output[r] /\ Running(output[r]))
  BY <1>1, <1>2, <1>3, LeftIs
<1>6. replay'[r] = Nil /\ output'[r] = Nil
  BY <1>1, <1>2, <1>3 DEF PutOutput, StreamTypes
<1>7. HeldBy(r) = replay[r].audioEncoders /\ HeldBy(r)' = {}
  BY <1>1, <1>6, HeldByReplay DEF HeldBy
<1>8. ReplayOK(r)'
  BY <1>6 DEF ReplayOK
<1>9. OutputOK(r)'
  BY <1>3, <1>6 DEF OutputOK
<1>10. /\ owned' \subseteq MadeEncoders /\ starts' \in Nat /\ bitrate' \in [VideoEncoders -> {"low", "high"}]
  BY <1>1, <1>3 DEF StreamTypes
<1>11. Carried(Nil) = {}
  BY DEF Carried
<1>12. /\ HeldBy(r)' \subseteq owned' /\ owned \ HeldBy(r) \subseteq owned' /\ HeldBy(r)' \ HeldBy(r) = {}
       /\ owned' \subseteq (owned \ HeldBy(r)) \cup HeldBy(r)'
       /\ (Carried(Nil) \cup Carried(kept)) \cap owned \subseteq Carried(output[r]) \cup Carried(lingering[r]) \cup HeldBy(r) \cup HeldBy(r)'
  BY <1>1, <1>4, <1>7, <1>11
<1>13. Nil \in ObsOutputs \cup {Nil} /\ Nil \in ReplaySettings \cup {Nil}
  OBVIOUS
<1>14. UNCHANGED <<uses, stream, tracks, sets, broadcast, dying>>
  BY <1>1
<1>. QED
  BY <1>1, <1>2, <1>4, <1>8, <1>9, <1>10, <1>12, <1>13, <1>14, ReplayStepKeeps

\* What a replay buffer borrows is not the server's to release, if it is simple.
LEMMA BorrowedIs ==
    ASSUME StreamsInv, NEW r \in Replays, replay[r] # Nil
    PROVE  /\ BorrowedVideo(r) \in VideoEncoders \cup {Recorder, Nil}
           /\ r \in SimpleReplays => BorrowedAudio(r) \in AudioEncoders \cup {RecorderAudio, Nil}
           /\ replay[r].streaming # Nil => replay[r].streaming \in Streams /\ stream[replay[r].streaming] # Nil
<1>1. StreamTypes /\ ReplayOK(r) /\ \A s \in Streams : StreamOK(s)
  BY DEF StreamsInv, ReplaysOK, StreamsOK
<1>2. replay[r].streaming # Nil => replay[r].streaming \in Streams /\ stream[replay[r].streaming] # Nil
  BY <1>1 DEF ReplayOK, Streams
<1>3. CASE BorrowsStream(r) /\ replay[r].streaming # Nil
  <2> DEFINE s == replay[r].streaming
  <2>1. s \in Streams /\ stream[s] \in StreamSettings /\ StreamOK(s) /\ stream[s] # Nil
    BY <1>1, <1>2, <1>3, SettingsAre
  <2>2. r \in SimpleReplays => s \in Simples
    BY <1>1, <1>3 DEF ReplayOK
  <2>3. BorrowedVideo(r) = stream[s].videoEncoder /\ BorrowedAudio(r) = stream[s].audioEncoder
    BY <1>3 DEF BorrowedVideo, BorrowedAudio, Borrowed
  <2>. HIDE DEF s
  <2>4. stream[s].videoEncoder \in VideoEncoders \cup {Nil}
    BY <2>1 DEF StreamSettings
  <2>5. s \in Simples => stream[s].audioEncoder \in AudioEncoders \cup {Nil}
    BY <2>1 DEF StreamOK
  <2>. QED
    BY <1>2, <2>2, <2>3, <2>4, <2>5
<1>4. CASE ~(BorrowsStream(r) /\ replay[r].streaming # Nil)
  BY <1>2, <1>4 DEF BorrowedVideo, BorrowedAudio, Borrowed
<1>. QED
  BY <1>3, <1>4

LEMMA AttemptsAre ==
    ASSUME NEW p \in ObsOutputs, NEW v \in VideoEncoders \cup {Recorder, Nil}, NEW o \in Attempts(p, v)
    PROVE  /\ o \in ObsOutputs /\ o # Nil /\ o.audio = p.audio /\ o.stats = p.stats
           /\ Carried(o) \subseteq Carried(p) \cup {v}
           /\ Running(o) /\ ~Running(p) => o.video = v
<1> DEFINE q == SetVideo(p, v)
<1>1. /\ q \in ObsOutputs /\ q # Nil /\ (Running(p) => q = p)
      /\ q.running = p.running /\ q.audio = p.audio /\ q.stats = p.stats
      /\ (~Running(p) => q.video = v)
      /\ Carried(q) \subseteq Carried(p) \cup {v}
  BY VideoSet
<1>. HIDE DEF q
<1>2. Running(p) <=> Running(q)
  BY <1>1, RunningIs
<1>3. o \in {p, q} \cup Started(q)
  BY DEF Attempts, q
<1>4. CASE o \in {p, q}
  BY <1>1, <1>2, <1>4, RunningIs
<1>5. CASE o \in Started(q)
  <2>1. o \in ObsOutputs /\ o # Nil /\ o.video = q.video /\ o.audio = q.audio /\ o.stats = q.stats /\ Carried(o) = Carried(q)
    BY <1>1, <1>5, StartedIs
  <2>. QED
    BY <1>1, <1>2, <2>1
<1>. QED
  BY <1>3, <1>4, <1>5

LEMMA SimpleReplayStartKeeps ==
    ASSUME StreamsInv, NEW r, SimpleReplayStart(r)
    PROVE  StreamsInv'
<1>1. /\ r \in SimpleReplays /\ r \in Replays /\ r \in Objects /\ replay[r] # Nil /\ starts' = starts + 1
      /\ r \notin Broadcasts /\ r \notin Streams /\ r \notin Simples
      /\ UNCHANGED <<uses, stream, replay, tracks, sets, lingering, broadcast, owned, dying>>
  BY StreamingOutputsAssumption DEF SimpleReplayStart, Replays, Objects, CanStart, Streams
<1> DEFINE outs == OutputsWith(r, Idle(r), lingering[r])
           rb == replay[r]
           audio == BorrowedAudio(r)
           video == BorrowedVideo(r)
<1>2. /\ bitrate' = IF BorrowsStream(r) /\ rb.streaming # Nil THEN updateEncoders(rb.streaming, outs) ELSE bitrate
      /\ \E o \in IF audio = Nil THEN {Idle(r)} ELSE Attempts(SetAudio(Idle(r), 1, audio), video) :
             output' = [output EXCEPT ![r] = o]
  BY DEF SimpleReplayStart
<1>3. PICK o \in IF audio = Nil THEN {Idle(r)} ELSE Attempts(SetAudio(Idle(r), 1, audio), video) :
             output' = [output EXCEPT ![r] = o]
  BY <1>2
<1>4. StreamTypes /\ ReplayOK(r) /\ OutputOK(r) /\ EncodersOwned
  BY <1>1 DEF StreamsInv, ReplaysOK, OutputsOK
<1>5. /\ Idle(r) \in ObsOutputs /\ Idle(r) # Nil
      /\ Idle(r) = output[r] \/ (~Idle(r).stats /\ Idle(r).audio = [i \in Slots |-> Nil])
      /\ Carried(Idle(r)) \subseteq Carried(output[r])
  BY <1>1, <1>4, IdleIs
<1>6. /\ video \in VideoEncoders \cup {Recorder, Nil} /\ audio \in AudioEncoders \cup {RecorderAudio, Nil}
      /\ rb.streaming # Nil => rb.streaming \in Streams /\ stream[rb.streaming] # Nil
  BY <1>1, BorrowedIs
<1>7. bitrate' \in [VideoEncoders -> {"low", "high"}]
  BY <1>2, <1>4, <1>6, BitratesAre DEF StreamTypes
<1>8. \A i \in Slots : i # 1 => Idle(r).audio[i] = Nil
  BY <1>1, <1>4, <1>5 DEF OutputOK
<1>9. ~Idle(r).stats
  BY <1>1, <1>4, <1>5 DEF OutputOK
<1>. HIDE DEF video, audio, outs, rb
<1>10. /\ o \in ObsOutputs /\ o # Nil /\ ~o.stats /\ \A i \in Slots : i # 1 => o.audio[i] = Nil
       /\ Carried(o) \subseteq Carried(output[r]) \cup {audio, video}
  <2>1. CASE audio = Nil
    BY <2>1, <1>3, <1>5, <1>8, <1>9
  <2>2. CASE audio # Nil
    <3> DEFINE p == SetAudio(Idle(r), 1, audio)
    <3>1. audio \in AudioEncoders \cup MadeEncoders \cup {RecorderAudio, Nil} /\ 1 \in Slots
      BY <1>6, SlotsThere
    <3>2. p = SetAudio(Idle(r), 1, audio)
      OBVIOUS
    <3>. HIDE DEF p
    <3>3. /\ p \in ObsOutputs /\ p # Nil /\ (Running(Idle(r)) => p = Idle(r))
          /\ p.stats = Idle(r).stats
          /\ ~Running(Idle(r)) => p.audio = [Idle(r).audio EXCEPT ![1] = audio]
          /\ Carried(p) \subseteq Carried(Idle(r)) \cup {audio}
      BY ONLY <1>5, <3>1, <3>2, AudioSet
    <3>4. o \in Attempts(p, video)
      BY <1>3, <2>2, <3>2
    <3>5. o \in ObsOutputs /\ o # Nil /\ o.audio = p.audio /\ o.stats = p.stats /\ Carried(o) \subseteq Carried(p) \cup {video}
      BY <1>6, <3>3, <3>4, AttemptsAre
    <3>6. Idle(r).audio \in [Slots -> AudioEncoders \cup MadeEncoders \cup {RecorderAudio, Nil}]
      BY <1>5 DEF ObsOutputs
    <3>7. \A i \in Slots : i # 1 => p.audio[i] = Nil
      BY <1>8, <3>3, <3>6
    <3>. QED
      BY <1>5, <1>9, <3>3, <3>5, <3>7
  <2>. QED
    BY <2>1, <2>2
<1>11. output'[r] = o /\ PutOutput(r, o, lingering[r])
  BY <1>1, <1>3, <1>4 DEF PutOutput, StreamTypes
<1>12. HeldBy(r)' = HeldBy(r) /\ HeldBy(r) \subseteq owned
  BY <1>1, <1>4 DEF HeldBy, EncodersOwned
<1>13. ReplayOK(r)'
  BY <1>1, <1>4 DEF ReplayOK
<1>14. OutputOK(r)'
  BY <1>1, <1>10, <1>11 DEF OutputOK
<1>16. replay[r] \in ReplaySettings /\ replay' = [replay EXCEPT ![r] = replay[r]]
  BY <1>1, <1>4 DEF StreamTypes
<1>17. owned' \subseteq MadeEncoders /\ starts' \in Nat /\ lingering[r] \in ObsOutputs \cup {Nil} /\ owned \subseteq MadeEncoders
  BY <1>1, <1>4 DEF StreamTypes
<1>18. audio \notin MadeEncoders /\ video \notin MadeEncoders
  BY <1>6, StreamingOutputsAssumption
<1>19. (Carried(o) \cup Carried(lingering[r])) \cap owned \subseteq Carried(output[r]) \cup Carried(lingering[r]) \cup HeldBy(r) \cup HeldBy(r)'
  BY <1>10, <1>17, <1>18
<1>20. /\ HeldBy(r)' \subseteq owned' /\ owned \ HeldBy(r) \subseteq owned' /\ HeldBy(r)' \ HeldBy(r) = {}
       /\ owned' \subseteq (owned \ HeldBy(r)) \cup HeldBy(r)'
  BY <1>1, <1>12
<1>21. UNCHANGED <<uses, stream, tracks, sets, broadcast, dying>>
  BY <1>1
<1>. QED
  BY <1>1, <1>7, <1>10, <1>11, <1>13, <1>14, <1>16, <1>17, <1>19, <1>20, <1>21, ReplayStepKeeps

\* The slots of an advanced replay buffer: empty, then an encoder for each track.
LEMMA ClearedIs ==
    ASSUME NEW o \in ObsOutputs
    PROVE  LET p == ClearAudioEncoders(o)
           IN  /\ p \in ObsOutputs /\ p # Nil /\ (Running(p) <=> Running(o)) /\ p.stats = o.stats
               /\ ~Running(o) => p.audio = [i \in Slots |-> Nil]
               /\ Carried(p) \subseteq Carried(o)
<1> DEFINE f == [i \in Slots |-> Nil]
           q == [o EXCEPT !.audio = f]
<1>1. f \in [Slots -> AudioEncoders \cup MadeEncoders \cup {RecorderAudio, Nil}] /\ {f[i] : i \in Slots} \subseteq {Nil}
  OBVIOUS
<1>2. ClearAudioEncoders(o) = IF Running(o) THEN o ELSE q
  BY DEF ClearAudioEncoders
<1>. HIDE DEF f
<1>3. q \in ObsOutputs /\ q.audio = f /\ q.video = o.video /\ q.stats = o.stats /\ q.running = o.running
  BY <1>1 DEF ObsOutputs
<1>. HIDE DEF q
<1>4. Carried(q) \subseteq Carried(o)
  BY <1>1, <1>3, RunningIs DEF Carried, Heard
<1>. QED
  BY <1>2, <1>3, <1>4, RunningIs DEF f

TracksOK(p, o, wanted, made) ==
    /\ p \in ObsOutputs /\ p # Nil /\ p.stats = o.stats
    /\ Running(p) <=> Running(o)
    /\ ~Running(o) => p.audio = [i \in Slots |-> IF NthTrack(wanted, i) = {} THEN o.audio[i]
                                                 ELSE made[CHOOSE t \in NthTrack(wanted, i) : TRUE]]
    /\ Carried(p) \subseteq Carried(o) \cup {made[t] : t \in wanted}

LEMMA TracksSet ==
    ASSUME NEW o \in ObsOutputs, NEW wanted, NEW made, \A t \in wanted : made[t] \in MadeEncoders
    PROVE  TracksOK(SetTrackEncoders(o, wanted, made), o, wanted, made)
<1> DEFINE f == [i \in Slots |-> IF NthTrack(wanted, i) = {} THEN o.audio[i]
                                 ELSE made[CHOOSE t \in NthTrack(wanted, i) : TRUE]]
           q == [o EXCEPT !.audio = f]
<1>1. \A i \in Slots : NthTrack(wanted, i) # {} => (CHOOSE t \in NthTrack(wanted, i) : TRUE) \in wanted
  BY DEF NthTrack
<1>2. o.audio \in [Slots -> AudioEncoders \cup MadeEncoders \cup {RecorderAudio, Nil}]
  BY DEF ObsOutputs
<1>3. \A i \in Slots : f[i] = o.audio[i] \/ f[i] \in {made[t] : t \in wanted}
  BY <1>1
<1>4. f \in [Slots -> AudioEncoders \cup MadeEncoders \cup {RecorderAudio, Nil}]
  BY <1>1, <1>2
<1>5. SetTrackEncoders(o, wanted, made) = IF Running(o) THEN o ELSE q
  BY DEF SetTrackEncoders
<1>. HIDE DEF f
<1>6. q \in ObsOutputs /\ q.audio = f /\ q.video = o.video /\ q.stats = o.stats /\ q.running = o.running
  BY <1>4 DEF ObsOutputs
<1>. HIDE DEF q
<1>7. Carried(q) \subseteq Carried(o) \cup {made[t] : t \in wanted}
  BY <1>3, <1>6, RunningIs DEF Carried, Heard
<1>. QED
  BY <1>5, <1>6, <1>7, RunningIs DEF f, TracksOK

\* The encoders an advanced replay buffer makes, and its output without any.
MixMine(r) == owned \ replay[r].audioEncoders
MixCleared(r) == ClearAudioEncoders(Idle(r))
MixOuts(r) == OutputsWith(r, MixCleared(r), lingering[r])
MixMade(r) == [t \in Wanted(r) |-> Fresh(t, MixMine(r), MixOuts(r))]
MixNew(r) == {MixMade(r)[t] : t \in Wanted(r)}

LEMMA MixIs ==
    ASSUME StreamsInv, Spare, NEW r \in AdvancedReplays, replay[r] # Nil
    PROVE  /\ MixCleared(r) \in ObsOutputs /\ MixCleared(r) # Nil /\ ~MixCleared(r).stats
           /\ Carried(MixCleared(r)) \subseteq Carried(output[r])
           /\ Wanted(r) \subseteq Tracks
           /\ \A t \in Wanted(r) : MixMade(r)[t] \in MadeEncoders /\ MixMade(r)[t][1] = t
           /\ MixNew(r) \subseteq MadeEncoders
           /\ \A e \in MixNew(r) : e \notin MixMine(r) /\ \A o \in MixOuts(r) : e \notin Carried(o)
<1>1. /\ r \in Replays /\ r \in Objects /\ StreamTypes /\ OutputOK(r) /\ r \notin Broadcasts
  BY StreamingOutputsAssumption DEF Replays, Objects, StreamsInv, OutputsOK
<1>2. /\ Idle(r) \in ObsOutputs /\ Idle(r) # Nil
      /\ Idle(r) = output[r] \/ ~Idle(r).stats
      /\ Carried(Idle(r)) \subseteq Carried(output[r])
      /\ Carried(Idle(r)) \subseteq UNION {Carried(p) : p \in AllOutputs}
  BY <1>1, IdleIs
<1>3. /\ MixCleared(r) \in ObsOutputs /\ MixCleared(r) # Nil /\ MixCleared(r).stats = Idle(r).stats
      /\ Carried(MixCleared(r)) \subseteq Carried(Idle(r))
  BY <1>2, ClearedIs DEF MixCleared
<1>4. ~Idle(r).stats
  BY <1>1, <1>2 DEF OutputOK
<1>5. Wanted(r) \subseteq Tracks
  BY <1>1 DEF Wanted, StreamTypes
<1>6. lingering[r] \in Leaves(r)
  BY DEF Leaves
<1>7. \A o \in MixOuts(r) : Carried(o) \subseteq Taken
  BY <1>1, <1>2, <1>3, <1>6, OutsAre DEF MixOuts
<1>8. MixMine(r) \subseteq Taken
  BY DEF MixMine, Taken
<1>9. ASSUME NEW t \in Wanted(r)
      PROVE  LET e == Fresh(t, MixMine(r), MixOuts(r))
             IN  e \in MadeEncoders /\ e[1] = t /\ e \notin MixMine(r) /\ \A o \in MixOuts(r) : e \notin Carried(o)
  BY <1>5, <1>7, <1>8, FreshIs
<1>10. \A t \in Wanted(r) : MixMade(r)[t] = Fresh(t, MixMine(r), MixOuts(r))
  BY DEF MixMade
<1>. QED
  BY <1>2, <1>3, <1>4, <1>5, <1>9, <1>10 DEF MixNew

LEMMA AdvancedReplayStartKeeps ==
    ASSUME StreamsInv, NEW r, AdvancedReplayStart(r)
    PROVE  StreamsInv'
<1>1. /\ r \in AdvancedReplays /\ r \in Replays /\ r \in Objects /\ replay[r] # Nil /\ starts' = starts + 1 /\ Spare
      /\ r \notin Broadcasts /\ r \notin Streams /\ r \notin Simples /\ r \notin SimpleReplays
      /\ UNCHANGED <<uses, stream, tracks, sets, lingering, broadcast, dying>>
  BY StreamingOutputsAssumption DEF AdvancedReplayStart, Replays, Objects, CanStart, Streams
<1> DEFINE rb == replay[r]
           new == MixNew(r)
           video == BorrowedVideo(r)
           set == SetTrackEncoders(MixCleared(r), Wanted(r), MixMade(r))
           next == [rb EXCEPT !.audioEncoders = new]
<1>2. /\ replay' = [replay EXCEPT ![r].audioEncoders = new]
      /\ owned' = MixMine(r) \cup new
      /\ bitrate' = IF BorrowsStream(r) /\ rb.streaming # Nil THEN UpdateEncoders(rb.streaming, MixOuts(r)) ELSE bitrate
      /\ \E o \in Attempts(set, video) : output' = [output EXCEPT ![r] = o]
  BY DEF AdvancedReplayStart, MixNew, MixMade, MixOuts, MixCleared, MixMine
<1>3. PICK o \in Attempts(set, video) : output' = [output EXCEPT ![r] = o]
  BY <1>2
<1>4. StreamTypes /\ ReplayOK(r) /\ EncodersOwned /\ rb \in ReplaySettings
  BY <1>1 DEF StreamsInv, ReplaysOK, StreamTypes
<1>5. /\ video \in VideoEncoders \cup {Recorder, Nil}
      /\ rb.streaming # Nil => rb.streaming \in Streams /\ stream[rb.streaming] # Nil
  BY <1>1, BorrowedIs
<1>6. /\ MixCleared(r) \in ObsOutputs /\ ~MixCleared(r).stats
      /\ Carried(MixCleared(r)) \subseteq Carried(output[r])
      /\ \A t \in Wanted(r) : MixMade(r)[t] \in MadeEncoders
      /\ new \subseteq MadeEncoders
      /\ \A e \in new : e \notin MixMine(r) /\ \A p \in MixOuts(r) : e \notin Carried(p)
  BY <1>1, MixIs
<1>7. bitrate' \in [VideoEncoders -> {"low", "high"}]
  BY <1>2, <1>4, <1>5, BitratesAre DEF StreamTypes
<1>8. /\ next \in ReplaySettings /\ next.audioEncoders = new /\ next.streaming = rb.streaming
  BY <1>4, <1>6 DEF ReplaySettings
<1>9. replay' = [replay EXCEPT ![r] = next]
  BY <1>2
<1>10. /\ set \in ObsOutputs /\ set.stats = MixCleared(r).stats
       /\ Carried(set) \subseteq Carried(MixCleared(r)) \cup new
  <2> DEFINE c == MixCleared(r)
             w == Wanted(r)
             mk == MixMade(r)
  <2>1. set = SetTrackEncoders(c, w, mk) /\ new = {mk[t] : t \in w}
    BY DEF MixNew
  <2>2. c \in ObsOutputs /\ \A t \in w : mk[t] \in MadeEncoders
    BY <1>6
  <2>3. c = MixCleared(r)
    OBVIOUS
  <2>. HIDE DEF set, next, new, video, c, w, mk
  <2>4. set.stats = c.stats /\ set \in ObsOutputs /\ Carried(set) \subseteq Carried(c) \cup {mk[t] : t \in w}
    <3>1. TracksOK(SetTrackEncoders(c, w, mk), c, w, mk)
      BY ONLY <2>2, TracksSet
    <3>. QED
      BY ONLY <2>1, <3>1 DEF TracksOK
  <2>. QED
    BY ONLY <2>1, <2>3, <2>4
<1>. HIDE DEF set, next, new, video
<1>11. o \in ObsOutputs /\ o # Nil /\ o.stats = set.stats /\ Carried(o) \subseteq Carried(set) \cup {video}
  BY <1>3, <1>5, <1>10, AttemptsAre
<1>12. /\ replay'[r] = next /\ next # Nil /\ output'[r] = o /\ PutOutput(r, o, lingering[r])
  BY <1>1, <1>3, <1>4, <1>8, <1>9, StreamingOutputsAssumption DEF PutOutput, StreamTypes
<1>13. HeldBy(r) = rb.audioEncoders /\ HeldBy(r)' = new /\ HeldBy(r) \subseteq owned
  BY <1>1, <1>4, <1>8, <1>12 DEF HeldBy, EncodersOwned
<1>14. ReplayOK(r)'
  BY <1>1, <1>4, <1>8, <1>12 DEF ReplayOK
<1>15. OutputOK(r)'
  BY <1>1, <1>6, <1>10, <1>11, <1>12 DEF OutputOK
<1>17. owned \subseteq MadeEncoders /\ starts' \in Nat /\ lingering[r] \in ObsOutputs \cup {Nil}
  BY <1>1, <1>4 DEF StreamTypes
<1>18. video \notin MadeEncoders
  BY <1>5, StreamingOutputsAssumption
<1>19. MixMine(r) = owned \ HeldBy(r)
  BY <1>13 DEF MixMine
<1>20. owned' \subseteq MadeEncoders
  BY <1>2, <1>6, <1>17, <1>19 DEF new
<1>21. /\ HeldBy(r)' \subseteq owned' /\ owned \ HeldBy(r) \subseteq owned'
       /\ owned' \subseteq (owned \ HeldBy(r)) \cup HeldBy(r)'
  BY <1>2, <1>13, <1>19 DEF new
<1>22. \A y \in Objects \ {r} : output[y] \in MixOuts(r) /\ lingering[y] \in MixOuts(r)
  BY DEF MixOuts, OutputsWith
<1>23. ASSUME NEW e \in HeldBy(r)' \ HeldBy(r)
       PROVE  e \notin owned /\ \A x \in Objects \ {r} : e \notin Carried(output[x]) \cup Carried(lingering[x])
  BY <1>6, <1>13, <1>19, <1>22
<1>24. (Carried(o) \cup Carried(lingering[r])) \cap owned \subseteq Carried(output[r]) \cup Carried(lingering[r]) \cup HeldBy(r) \cup HeldBy(r)'
  BY <1>6, <1>10, <1>11, <1>13, <1>17, <1>18
<1>25. UNCHANGED <<uses, stream, tracks, sets, broadcast, dying>>
  BY <1>1
<1>. QED
  BY <1>1, <1>7, <1>8, <1>9, <1>11, <1>12, <1>14, <1>15, <1>17, <1>20, <1>21, <1>23, <1>24, <1>25, ReplayStepKeeps

\* Settings and creation.
LEMMA NewStreamIs == NewStream \in StreamSettings
<1>1. 1 \in Tracks /\ 2 \in Tracks
  BY StreamingOutputsAssumption
<1>. QED
  BY <1>1 DEF NewStream, StreamSettings

LEMMA ChangeStreamKeeps ==
    ASSUME StreamsInv, NEW s \in Streams, NEW st, ChangeStream(s, st),
           stream[s] \in StreamSettings => /\ st \in StreamSettings
                                           /\ st.streamArchive = stream[s].streamArchive
                                           /\ s \in Advanceds => st.audioEncoder = stream[s].audioEncoder
                                           /\ s \in Simples => \/ st.audioEncoder = stream[s].audioEncoder
                                                               \/ st.audioEncoder \in AudioEncoders \cup {Nil}
    PROVE  StreamsInv'
<1>1. StreamTypes /\ StreamOK(s) /\ stream[s] # Nil
  BY DEF StreamsInv, StreamsOK, ChangeStream
<1>2. stream[s] \in StreamSettings
  BY <1>1 DEF StreamTypes
<1>3. st.streamArchive = Archive(s) /\ (s \in Advanceds => st.audioEncoder = OwnAudio(s))
  BY <1>1, <1>2 DEF Archive, OwnAudio
<1>4. s \in Simples => st.audioEncoder \in AudioEncoders \cup {Nil}
  BY <1>1, <1>2 DEF StreamOK
<1>5. sets' \in Nat
  BY <1>1 DEF ChangeStream, CanSet, StreamTypes
<1>6. stream' = [stream EXCEPT ![s] = st] /\ UNCHANGED <<uses, replay, tracks, outputs, dying, starts>>
  BY DEF ChangeStream
<1>. QED
  BY <1>2, <1>3, <1>4, <1>5, <1>6, ChangeKeeps

LEMMA CreateStreamKeeps ==
    ASSUME StreamsInv, NEW s \in Streams, CreateStream(s)
    PROVE  StreamsInv'
<1>1. NewStream \in StreamSettings /\ NewStream.streamArchive = Nil /\ NewStream.audioEncoder = Nil
  BY NewStreamIs DEF NewStream
<1>2. Archive(s) = Nil /\ OwnAudio(s) = Nil
  BY DEF CreateStream, Archive, OwnAudio
<1>3. sets' \in Nat
  BY DEF CreateStream, StreamsInv, StreamTypes
<1>4. stream' = [stream EXCEPT ![s] = NewStream] /\ UNCHANGED <<uses, replay, tracks, outputs, dying, starts>>
  BY DEF CreateStream
<1>. QED
  BY <1>1, <1>2, <1>3, <1>4, ChangeKeeps

LEMMA CreateLegacyStreamKeeps ==
    ASSUME StreamsInv, NEW s \in Streams, CreateLegacyStream(s)
    PROVE  StreamsInv'
<1>1. PICK v \in VideoEncoders, e \in AudioEncoders, w \in Services, vod, enforced, advanced \in BOOLEAN :
        /\ \A t \in Streams : stream[t] # Nil => stream[t].videoEncoder # v /\ stream[t].audioEncoder # e
        /\ stream' = [stream EXCEPT ![s] =
               [NewStream EXCEPT !.service = w, !.videoEncoder = v, !.enableTwitchVOD = vod,
                                 !.audioEncoder = IF s \in Simples THEN e ELSE Nil,
                                 !.enforceServiceBitrate = enforced, !.useAdvanced = advanced /\ s \in Simples]]
  BY DEF CreateLegacyStream
<1> DEFINE st == [NewStream EXCEPT !.service = w, !.videoEncoder = v, !.enableTwitchVOD = vod,
                                 !.audioEncoder = IF s \in Simples THEN e ELSE Nil,
                                 !.enforceServiceBitrate = enforced, !.useAdvanced = advanced /\ s \in Simples]
           advanced_ == advanced /\ s \in Simples
<1>2. advanced_ \in BOOLEAN /\ Nil \notin Streams
  BY StreamingOutputsAssumption
<1>. HIDE DEF advanced_
<1>3. /\ [NewStream EXCEPT !.service = w, !.videoEncoder = v, !.enableTwitchVOD = vod,
                            !.audioEncoder = IF s \in Simples THEN e ELSE Nil,
                            !.enforceServiceBitrate = enforced, !.useAdvanced = advanced_] \in StreamSettings
      /\ st.streamArchive = Nil /\ st.audioEncoder = IF s \in Simples THEN e ELSE Nil
  BY <1>2, StreamingOutputsAssumption DEF NewStream, StreamSettings
<1>4. st \in StreamSettings
  BY <1>3 DEF advanced_
<1>5. Archive(s) = Nil /\ OwnAudio(s) = Nil
  BY DEF CreateLegacyStream, Archive, OwnAudio
<1>6. s \in Advanceds => s \notin Simples
  BY StreamingOutputsAssumption
<1>7. sets' \in Nat
  BY DEF CreateLegacyStream, StreamsInv, StreamTypes
<1>8. stream' = [stream EXCEPT ![s] = st] /\ UNCHANGED <<uses, replay, tracks, outputs, dying, starts>>
  BY <1>1 DEF CreateLegacyStream
<1>9. st.streamArchive = Archive(s) /\ (s \in Advanceds => st.audioEncoder = OwnAudio(s))
      /\ (s \in Simples => st.audioEncoder \in AudioEncoders \cup {Nil})
  BY <1>3, <1>5, <1>6
<1>. HIDE DEF st
<1>. QED
  BY <1>4, <1>7, <1>8, <1>9, ChangeKeeps

StreamSets(s) ==
    \/ SetService(s) \/ SetVideoEncoder(s) \/ SetAudioEncoder(s) \/ SetEnforceServiceBirate(s) \/ SetEnableTwitchVOD(s)
    \/ SetUseAdvanced(s) \/ SetAudioTrack(s) \/ SetTwitchTrack(s) \/ SetTuning(s)

LEMMA StreamSetsKeep ==
    ASSUME StreamsInv, NEW s \in Streams, StreamSets(s)
    PROVE  StreamsInv'
<1> USE DEF StreamSettings
<1>1. CASE SetService(s)
  <2>1. PICK w \in Services \cup {Nil} : ChangeStream(s, [stream[s] EXCEPT !.service = w])
    BY <1>1 DEF SetService
  <2>. QED
    BY <2>1, ChangeStreamKeeps
<1>2. CASE SetVideoEncoder(s)
  <2>1. PICK v \in VideoEncoders \cup {Nil} : ChangeStream(s, [stream[s] EXCEPT !.videoEncoder = v])
    BY <1>2 DEF SetVideoEncoder
  <2>. QED
    BY <2>1, ChangeStreamKeeps
<1>3. CASE SetAudioEncoder(s)
  <2>1. PICK e \in AudioEncoders \cup {Nil} : ChangeStream(s, [stream[s] EXCEPT !.audioEncoder = e])
    BY <1>3 DEF SetAudioEncoder
  <2>2. s \in Simples /\ s \notin Advanceds
    BY <1>3, StreamingOutputsAssumption DEF SetAudioEncoder
  <2>. QED
    BY <2>1, <2>2, ChangeStreamKeeps
<1>4. CASE SetEnforceServiceBirate(s)
  <2>1. ChangeStream(s, [stream[s] EXCEPT !.enforceServiceBitrate = ~@])
    BY <1>4 DEF SetEnforceServiceBirate
  <2>. QED
    BY <2>1, ChangeStreamKeeps
<1>5. CASE SetEnableTwitchVOD(s)
  <2>1. ChangeStream(s, [stream[s] EXCEPT !.enableTwitchVOD = ~@])
    BY <1>5 DEF SetEnableTwitchVOD
  <2>. QED
    BY <2>1, ChangeStreamKeeps
<1>6. CASE SetUseAdvanced(s)
  <2>1. ChangeStream(s, [stream[s] EXCEPT !.useAdvanced = ~@])
    BY <1>6 DEF SetUseAdvanced
  <2>. QED
    BY <2>1, ChangeStreamKeeps
<1>7. CASE SetAudioTrack(s)
  <2>1. PICK t \in Tracks : ChangeStream(s, [stream[s] EXCEPT !.audioTrack = t])
    BY <1>7 DEF SetAudioTrack
  <2>. QED
    BY <2>1, ChangeStreamKeeps
<1>8. CASE SetTwitchTrack(s)
  <2>1. PICK t \in Tracks : ChangeStream(s, [stream[s] EXCEPT !.twitchTrack = t])
    BY <1>8 DEF SetTwitchTrack
  <2>. QED
    BY <2>1, ChangeStreamKeeps
<1>9. CASE SetTuning(s)
  <2>1. ChangeStream(s, [stream[s] EXCEPT !.tuned = ~@])
    BY <1>9 DEF SetTuning
  <2>. QED
    BY <2>1, ChangeStreamKeeps
<1>. QED
  BY <1>1, <1>2, <1>3, <1>4, <1>5, <1>6, <1>7, <1>8, <1>9 DEF StreamSets

\* Only the bitrate of a video encoder, or the tracks there are.
LEMMA SideSetsKeep ==
    ASSUME StreamsInv, (\E v \in VideoEncoders : UpdateVideoEncoder(v)) \/ (\E t \in Tracks : SetTrack(t))
    PROVE  StreamsInv'
<1>1. /\ StreamTypes
      /\ UNCHANGED <<uses, stream, replay, output, lingering, broadcast, owned, dying, starts>> /\ sets' = sets + 1
  BY DEF StreamsInv, UpdateVideoEncoder, SetTrack, CanSet, outputs
<1>2. bitrate' \in [VideoEncoders -> {"low", "high"}] /\ tracks' \subseteq Tracks
  BY <1>1 DEF UpdateVideoEncoder, SetTrack, outputs, StreamTypes
<1>3. StreamTypes'
  BY <1>1, <1>2 DEF StreamTypes
<1>4. StreamsOK' /\ ReplaysOK' /\ OutputsOK'
  BY <1>1 DEF StreamsInv, StreamsOK, StreamOK, ReplaysOK, ReplayOK, OutputsOK, OutputOK
<1>5. DyingOK' /\ CountedKept'
  BY <1>1 DEF StreamsInv, DyingOK, CountedKept, Running
<1>6. \A x \in Objects : HeldBy(x)' = HeldBy(x) /\ Carried(output'[x]) = Carried(output[x]) /\ Carried(lingering'[x]) = Carried(lingering[x])
  BY <1>1 DEF HeldBy
<1>7. EncodersOwned' /\ OwnersCarry'
  BY <1>1, <1>6, SameOwners DEF StreamsInv
<1>. QED
  BY <1>3, <1>4, <1>5, <1>7 DEF StreamsInv

\* The settings of a replay buffer.
LEMMA SetReplayKeeps ==
    ASSUME StreamsInv, NEW r \in Replays, NEW rb, SetReplay(r, rb),
           replay[r] \in ReplaySettings => /\ rb \in ReplaySettings /\ rb.audioEncoders = replay[r].audioEncoders
                                           /\ \/ rb.streaming \in {replay[r].streaming, Nil}
                                              \/ /\ rb.streaming \in IF r \in SimpleReplays THEN Simples ELSE Advanceds
                                                 /\ stream[rb.streaming] # Nil
    PROVE  StreamsInv'
<1>1. StreamTypes /\ ReplayOK(r) /\ replay[r] # Nil
  BY DEF StreamsInv, ReplaysOK, SetReplay
<1>2. replay[r] \in ReplaySettings
  BY <1>1 DEF StreamTypes
<1>3. rb.streaming # Nil => /\ rb.streaming \in IF r \in SimpleReplays THEN Simples ELSE Advanceds
                            /\ stream[rb.streaming] # Nil
  BY <1>1, <1>2 DEF ReplayOK
<1>4. sets' \in Nat
  BY <1>1 DEF SetReplay, CanSet, StreamTypes
<1>5. replay' = [replay EXCEPT ![r] = rb] /\ UNCHANGED <<uses, stream, tracks, outputs, dying, starts>>
  BY DEF SetReplay
<1>. QED
  BY <1>1, <1>2, <1>3, <1>4, <1>5, ReplayChangeKeeps

LEMMA NewReplayBufferKeeps ==
    ASSUME StreamsInv, NEW r \in Replays, NEW rb \in ReplaySettings, NewReplayBuffer(r, rb),
           rb.audioEncoders = {}, rb.streaming = Nil
    PROVE  StreamsInv'
<1>1. replay[r] = Nil /\ sets' \in Nat
  BY DEF NewReplayBuffer, StreamsInv, StreamTypes
<1>2. replay' = [replay EXCEPT ![r] = rb] /\ UNCHANGED <<uses, stream, tracks, outputs, dying, starts>>
  BY DEF NewReplayBuffer
<1>. QED
  BY <1>1, <1>2, ReplayChangeKeeps

ReplaySets(r) ==
    \/ CreateReplay(r) \/ CreateLegacyReplay(r) \/ SetUsesStream(r) \/ SetSimpleStreaming(r)
    \/ SetMixer(r) \/ SetAdvancedStreaming(r) \/ SetNoRecording(r)

LEMMA ReplaySetsKeep ==
    ASSUME StreamsInv, NEW r \in Replays, ReplaySets(r)
    PROVE  StreamsInv'
<1> USE DEF ReplaySettings
<1>1. 1 \in Tracks
  BY StreamingOutputsAssumption
<1>2. CASE CreateReplay(r)
  <2>1. NewReplay \in ReplaySettings /\ NewReplay.audioEncoders = {} /\ NewReplay.streaming = Nil
    BY <1>1 DEF NewReplay
  <2>. QED
    BY <1>2, <2>1, NewReplayBufferKeeps DEF CreateReplay
<1>3. CASE CreateLegacyReplay(r)
  <2>1. PICK b \in BOOLEAN, m \in SUBSET Tracks : NewReplayBuffer(r, [NewReplay EXCEPT !.mixer = m, !.usesStream = b])
    BY <1>1, <1>3 DEF CreateLegacyReplay, NewReplay
  <2> DEFINE rb == [NewReplay EXCEPT !.mixer = m, !.usesStream = b]
  <2>2. rb \in ReplaySettings /\ rb.audioEncoders = {} /\ rb.streaming = Nil
    BY <1>1 DEF NewReplay
  <2>. QED
    BY <2>1, <2>2, NewReplayBufferKeeps
<1>4. CASE SetUsesStream(r)
  <2>1. PICK b \in BOOLEAN : SetReplay(r, [replay[r] EXCEPT !.usesStream = b])
    BY <1>4 DEF SetUsesStream
  <2>. QED
    BY <2>1, SetReplayKeeps
<1>5. CASE SetMixer(r)
  <2>1. PICK m \in SUBSET Tracks : SetReplay(r, [replay[r] EXCEPT !.mixer = m])
    BY <1>5 DEF SetMixer
  <2>. QED
    BY <2>1, SetReplayKeeps
<1>6. CASE ForgetStream(r)
  <2>1. SetReplay(r, [replay[r] EXCEPT !.streaming = Nil])
    BY <1>6 DEF ForgetStream
  <2>. QED
    BY <2>1, SetReplayKeeps
<1>7. ASSUME NEW kind, LendStream(r, kind), kind = IF r \in SimpleReplays THEN Simples ELSE Advanceds
      PROVE  StreamsInv'
  <2>1. PICK s \in kind \cap Streams : stream[s] # Nil /\ SetReplay(r, [replay[r] EXCEPT !.streaming = s])
    BY <1>7 DEF LendStream
  <2>. QED
    BY <1>7, <2>1, SetReplayKeeps
<1>8. r \in AdvancedReplays => r \notin SimpleReplays
  BY StreamingOutputsAssumption
<1>. QED
  BY <1>2, <1>3, <1>4, <1>5, <1>6, <1>7, <1>8 DEF ReplaySets, SetSimpleStreaming, SetAdvancedStreaming, SetNoRecording

-----------------------------------------------------------------------------
(* The specification keeps the invariant.                                     *)

LEMMA StreamsStart == StreamsInit => StreamsInv
<1> SUFFICES ASSUME StreamsInit PROVE StreamsInv
  OBVIOUS
<1>1. /\ \A s \in Streams : stream[s] = Nil
      /\ \A r \in Replays : replay[r] = Nil
      /\ \A x \in Objects : output[x] = Nil /\ lingering[x] = Nil
      /\ \A b \in Broadcasts : broadcast[b] = {}
      /\ owned = {} /\ dying = Nil
  BY DEF StreamsInit
<1>2. StreamTypes
  BY StreamingOutputsAssumption DEF StreamsInit, StreamTypes
<1>3. StreamsOK /\ ReplaysOK /\ OutputsOK /\ DyingOK
  BY <1>1 DEF StreamsOK, StreamOK, ReplaysOK, ReplayOK, OutputsOK, OutputOK, DyingOK
<1>4. CountedKept
  BY <1>1, StreamingOutputsAssumption DEF CountedKept, Running, Objects
<1>5. \A x \in Objects : HeldBy(x) = {}
  BY <1>1 DEF HeldBy, Objects
<1>6. EncodersOwned /\ OwnersCarry
  BY <1>1, <1>5 DEF EncodersOwned, OwnersCarry
<1>. QED
  BY <1>2, <1>3, <1>4, <1>6 DEF StreamsInv

LEMMA StreamsStutter == StreamsInv /\ UNCHANGED streamVars => StreamsInv'
<1> SUFFICES ASSUME StreamsInv, UNCHANGED streamVars PROVE StreamsInv'
  OBVIOUS
<1>1. UNCHANGED <<uses, stream, replay, output, lingering, broadcast, owned, bitrate, tracks, dying, starts, sets>>
  BY DEF streamVars
<1>2. StreamTypes' /\ StreamsOK' /\ ReplaysOK' /\ OutputsOK'
  BY <1>1 DEF StreamsInv, StreamTypes, StreamsOK, StreamOK, ReplaysOK, ReplayOK, OutputsOK, OutputOK
<1>3. DyingOK' /\ CountedKept'
  BY <1>1 DEF StreamsInv, DyingOK, CountedKept, Running
<1>4. \A x \in Objects : HeldBy(x)' = HeldBy(x) /\ Carried(output'[x]) = Carried(output[x]) /\ Carried(lingering'[x]) = Carried(lingering[x])
  BY <1>1 DEF HeldBy
<1>5. EncodersOwned' /\ OwnersCarry'
  BY <1>1, <1>4, SameOwners DEF StreamsInv
<1>. QED
  BY <1>2, <1>3, <1>5 DEF StreamsInv

LEMMA StreamsStep == StreamsInv /\ [StreamsNext]_streamVars => StreamsInv'
<1> SUFFICES ASSUME StreamsInv, [StreamsNext]_streamVars PROVE StreamsInv'
  OBVIOUS
<1>1. ASSUME NEW s \in Streams, StreamCalls(s) \/ SimpleCalls(s) \/ AdvancedCalls(s) PROVE StreamsInv'
  <2>1. CASE CreateStream(s)
    BY <2>1, CreateStreamKeeps
  <2>2. CASE CreateLegacyStream(s)
    BY <2>2, CreateLegacyStreamKeeps
  <2>3. CASE DestroyStream(s)
    BY <2>3, StreamDestroyKeeps
  <2>4. CASE StreamSets(s)
    BY <2>4, StreamSetsKeep
  <2>5. CASE SimpleStart(s)
    BY <2>5, SimpleStartKeeps
  <2>6. CASE SimpleStartFails(s)
    BY <2>6, SimpleStartFailsKeeps
  <2>7. CASE AdvancedStart(s)
    BY <2>7, AdvancedStartKeeps
  <2>8. CASE AdvancedStartFails(s)
    BY <2>8, AdvancedStartFailsKeeps
  <2>. QED
    BY <1>1, <2>1, <2>2, <2>3, <2>4, <2>5, <2>6, <2>7, <2>8 DEF StreamCalls, SimpleCalls, AdvancedCalls, StreamSets
<1>2. ASSUME NEW b, BroadcastCalls(b) PROVE StreamsInv'
  BY <1>2, BroadcastStartKeeps, BroadcastStopKeeps, ContextDestroyKeeps DEF BroadcastCalls
<1>3. ASSUME NEW r \in Replays, ReplayCalls(r) PROVE StreamsInv'
  BY <1>3, ReplayDestroyKeeps, SimpleReplayStartKeeps, AdvancedReplayStartKeeps, ReplaySetsKeep DEF ReplayCalls, ReplaySets
<1>4. ASSUME NEW x \in Objects, OutputEnds(x) \/ LingeringEnds(x) PROVE StreamsInv'
  BY <1>4, EndsKeepStreams
<1>5. CASE (\E v \in VideoEncoders : UpdateVideoEncoder(v)) \/ (\E t \in Tracks : SetTrack(t))
  BY <1>5, SideSetsKeep
<1>6. CASE UNCHANGED streamVars
  BY <1>6, StreamsStutter
<1>. QED
  BY <1>1, <1>2, <1>3, <1>4, <1>5, <1>6 DEF StreamsNext

LEMMA StreamsSafe == StreamsSpec => []StreamsInv
  BY StreamsStart, StreamsStep, PTL DEF StreamsSpec

\* Whatever the client does with its streams and replay buffers, each keeps what
\* it may have: settings of its kind, and an output that exists.
THEOREM StreamsTypes == StreamsSpec => []StreamTypes
<1>1. StreamsInv => StreamTypes
  BY DEF StreamsInv
<1>. QED
  BY <1>1, StreamsSafe, PTL

\* Every audio encoder that a start made has one owner which has not released it,
\* whatever outputs end, fail to start or outlive their stream.
THEOREM AudioEncodersOwned == StreamsSpec => []EncodersOwned
<1>1. StreamsInv => EncodersOwned
  BY DEF StreamsInv
<1>. QED
  BY <1>1, StreamsSafe, PTL

\* While no broadcast is being destroyed, an output that its broadcast lets go of
\* does not call back.
LEMMA LetGoSilent ==
    ASSUME StreamsInv, StreamsNext, dying = Nil, NEW b \in Broadcasts, lingering'[b] # lingering[b]
    PROVE  ~CallsBack(lingering'[b])
<1>1. b \in Objects /\ b # Nil /\ b \notin PlainStreams /\ b \notin Replays /\ StreamTypes /\ lingering' # lingering
  BY StreamingOutputsAssumption DEF PlainStreams, Objects, StreamsInv
<1>2. ASSUME NEW s, s # b, NEW o, NEW kept, PutOutput(s, o, kept) PROVE FALSE
  BY <1>1, <1>2 DEF PutOutput, StreamTypes
<1>3. ASSUME NEW s \in Streams, StreamCalls(s) \/ SimpleCalls(s) \/ AdvancedCalls(s) PROVE FALSE
  <2>1. CASE DestroyStream(s)
    <3>1. s # b
      BY <1>1, <2>1 DEF DestroyStream
    <3>. QED
      BY <1>2, <2>1, <3>1 DEF DestroyStream
  <2>2. CASE SimpleStart(s) \/ AdvancedStart(s) \/ SimpleStartFails(s) \/ AdvancedStartFails(s)
    <3>1. s # b
      BY <1>1, <2>2 DEF SimpleStart, AdvancedStart, SimpleStartFails, AdvancedStartFails, CanStartAdvanced
    <3>. QED
      BY <1>2, <2>2, <3>1 DEF SimpleStart, AdvancedStart, SimpleStartFails, AdvancedStartFails
  <2>. QED
    BY <1>1, <1>3, <2>1, <2>2
       DEF StreamCalls, SimpleCalls, AdvancedCalls, CreateStream, CreateLegacyStream, ChangeStream, SetService,
           SetVideoEncoder, SetAudioEncoder, SetEnforceServiceBirate, SetEnableTwitchVOD, SetUseAdvanced,
           SetAudioTrack, SetTwitchTrack, SetTuning, outputs
<1>4. ASSUME NEW s \in Streams, BroadcastCalls(s) PROVE ~CallsBack(lingering'[b])
  <2>1. CASE StartEnhancedBroadcastingStream(s)
    <3>1. PICK kept \in DeleteBroadcast(s) : \E o : PutOutput(s, o, kept)
      BY <2>1 DEF StartEnhancedBroadcastingStream
    <3>2. s = b
      BY <1>2, <3>1
    <3>3. lingering'[b] = kept
      BY <1>1, <3>1, <3>2 DEF PutOutput, StreamTypes
    <3>. QED
      BY <3>1, <3>2, <3>3, LetGoOf
  <2>2. CASE StopEnhancedBroadcastingStream(s) \/ DestroyContext(s)
    BY <1>1, <2>2 DEF StopEnhancedBroadcastingStream, DestroyContext
  <2>. QED
    BY <1>4, <2>1, <2>2 DEF BroadcastCalls
<1>5. ASSUME NEW r \in Replays, ReplayCalls(r) PROVE FALSE
  <2>1. CASE DestroyReplay(r)
    <3>1. r # b
      BY <1>1
    <3>. QED
      BY <1>2, <2>1, <3>1 DEF DestroyReplay
  <2>. QED
    BY <1>1, <1>5, <2>1
       DEF ReplayCalls, CreateReplay, CreateLegacyReplay, NewReplayBuffer, SetReplay, SetUsesStream, SetMixer,
           SetSimpleStreaming, SetAdvancedStreaming, SetNoRecording, LendStream, ForgetStream, outputs,
           SimpleReplayStart, AdvancedReplayStart
<1>6. ASSUME NEW y \in Objects, OutputEnds(y) \/ LingeringEnds(y) PROVE ~CallsBack(lingering'[b])
  <2>1. LingeringEnds(y)
    BY <1>1, <1>6 DEF OutputEnds
  <2>2. y = b /\ lingering[b] \in ObsOutputs
    BY <1>1, <2>1 DEF LingeringEnds, Running, StreamTypes
  <2>3. lingering'[b].running = FALSE
    BY <1>1, <2>1, <2>2 DEF LingeringEnds, StreamTypes, ObsOutputs
  <2>. QED
    BY <2>3 DEF CallsBack, Running
<1>7. ~(\E t \in Tracks : SetTrack(t)) /\ ~(\E v \in VideoEncoders : UpdateVideoEncoder(v))
  BY <1>1 DEF SetTrack, UpdateVideoEncoder, outputs
<1>. QED
  BY <1>3, <1>4, <1>5, <1>6, <1>7 DEF StreamsNext

\* For as long as no broadcast is destroyed, an output that can call the packet
\* callback has the context with its tracker, and one that was let go of cannot.
THEOREM CallbackHasTracker == StreamsSpec => TrackerOutlivesCallback
<1> DEFINE Outlives ==
      dying = Nil /\ dying' = Nil =>
          \A b \in Broadcasts :
              /\ CallsBack(output'[b]) => broadcast'[b] # {}
              /\ lingering'[b] # lingering[b] => ~CallsBack(lingering'[b])
<1>1. StreamsInv /\ [StreamsNext]_streamVars => [Outlives]_streamVars
  <2> SUFFICES ASSUME StreamsInv, StreamsNext, dying = Nil, dying' = Nil, NEW b \in Broadcasts
               PROVE  /\ CallsBack(output'[b]) => broadcast'[b] # {}
                      /\ lingering'[b] # lingering[b] => ~CallsBack(lingering'[b])
    OBVIOUS
  <2>1. CallsBack(output'[b]) => broadcast'[b] # {}
    <3>1. CountedKept'
      BY StreamsStep DEF StreamsInv
    <3>2. b # Nil
      BY StreamingOutputsAssumption
    <3>3. Running(output[b])' = Running(output'[b])
      BY DEF Running
    <3>. QED
      BY <3>1, <3>2, <3>3 DEF CountedKept, CallsBack
  <2>2. lingering'[b] # lingering[b] => ~CallsBack(lingering'[b])
    BY LetGoSilent
  <2>. QED
    BY <2>1, <2>2
<1>2. TrackerOutlivesCallback <=> [][Outlives]_streamVars
  BY DEF TrackerOutlivesCallback
<1>. HIDE DEF Outlives
<1>. QED
  BY <1>1, <1>2, StreamsSafe, PTL DEF StreamsSpec

-----------------------------------------------------------------------------
(* What begins is what is set.                                                *)

\* What runs on when a start goes on with an output that does not run: it ran
\* before, and runs after the start.
LEMMA RanBefore ==
    ASSUME StreamTypes, NEW s \in Objects, NEW o, ~Running(o), NEW kept \in Leaves(s), NEW e,
           ActiveIn(e, OutputsWith(s, o, kept))
    PROVE  ActiveIn(e, AllOutputs)
<1>1. kept = lingering[s] \/ kept = output[s]
  BY LeftIs
<1>2. \A q \in OutputsWith(s, o, kept) : q \in AllOutputs \/ q = o
  BY <1>1 DEF OutputsWith, AllOutputs
<1>. QED
  BY <1>2 DEF ActiveIn

LEMMA RunsAfter ==
    ASSUME NEW s \in Objects, NEW o, ~Running(o), NEW kept, NEW e, NEW p, ~Running(p), lingering'[s] = kept,
           \A y \in Objects \ {s} : output'[y] = output[y] /\ lingering'[y] = lingering[y],
           ActiveIn(e, OutputsWith(s, o, kept) \cup {p})
    PROVE  ActiveIn(e, {output'[y] : y \in Objects \ {s}} \cup {lingering'[y] : y \in Objects})
<1> DEFINE others == {output'[y] : y \in Objects \ {s}} \cup {lingering'[y] : y \in Objects}
<1>1. PICK q \in OutputsWith(s, o, kept) \cup {p} : Running(q) /\ e \in Carried(q)
  BY DEF ActiveIn
<1>2. q = kept \/ \E y \in Objects \ {s} : q = output[y] \/ q = lingering[y]
  BY <1>1 DEF OutputsWith
<1>3. q \in others
  BY <1>2
<1>. QED
  BY <1>1, <1>3 DEF ActiveIn

LEMMA SimpleSends ==
    ASSUME StreamsInv, NEW s \in PlainStreams, SimpleStart(s), Begins(s)
    PROVE  StreamSends(s)
<1>1. /\ s \in Simples /\ s \in Streams /\ s \in Objects /\ s \notin Broadcasts /\ s \notin Advanceds
      /\ stream[s] # Nil /\ Spare /\ StreamTypes
      /\ stream[s].service # Nil /\ stream[s].videoEncoder # Nil /\ stream[s].audioEncoder # Nil
  BY StreamingOutputsAssumption DEF SimpleStart, CanStart, Usable, PlainStreams, Streams, Objects, StreamsInv
<1>2. PICK kept \in LeavesOnCheck(s) :
        /\ bitrate' = updateEncoders(s, SimpleOuts(s, kept))
        /\ \E o \in Started(SetObsService(SimpleVod(s, kept).output, stream[s].service)) : PutOutput(s, o, kept)
  BY DEF SimpleStart, SimpleOuts, SimpleVod, SimpleSet
<1>3. PICK o \in Started(SetObsService(SimpleVod(s, kept).output, stream[s].service)) : PutOutput(s, o, kept)
  BY <1>2
<1>4. kept \in Leaves(s)
  BY LeftOnCheckIs
<1> DEFINE st == stream[s]
           vod == SimpleVod(s, kept)
           set == SimpleSet(s)
           outs == SimpleOuts(s, kept)
           put == SetObsService(vod.output, st.service)
<1>5. st \in StreamSettings /\ st.service \in Services /\ st.videoEncoder \in VideoEncoders
  BY <1>1, SettingsAre DEF StreamSettings
<1>6. output'[s] = o /\ lingering'[s] = kept /\ \A y \in Objects \ {s} : output'[y] = output[y] /\ lingering'[y] = lingering[y]
  BY <1>1, <1>3 DEF PutOutput, StreamTypes
<1>7. ~Running(checkOutput(s))
  BY <1>1, CheckedIs DEF Begins
<1>8. /\ set \in ObsOutputs /\ ~Running(set) /\ set.video = st.videoEncoder /\ set.audio[1] = st.audioEncoder
  BY <1>1, <1>7, SimpleSetIs
<1>9. /\ SetupOK(vod, set, st.streamArchive, owned, outs)
      /\ vod.encoder # Nil => vod.encoder[1] = VodTrackMixerIndex + 1
      /\ vod.output.audio[1] = set.audio[1]
      /\ ~WantsVod(s) => vod.output.audio[2] = Nil
      /\ WantsVod(s) /\ ~(st.streamArchive # Nil /\ ActiveIn(st.streamArchive, outs \cup {set})) =>
             vod.encoder # Nil /\ vod.output.audio[2] = vod.encoder
  BY <1>1, <1>4, <1>8, SimpleVodIs
<1>10. outs = OutputsWith(s, checkOutput(s), kept)
  BY DEF SimpleOuts
<1>. HIDE DEF vod, set, outs, st
<1>11. vod.output \in ObsOutputs /\ vod.output.video = set.video /\ vod.output.running = set.running
  BY <1>9 DEF SetupOK
<1>12. ~Running(vod.output)
  BY <1>8, <1>11, RunningIs
<1>13. /\ put \in ObsOutputs /\ put.audio = vod.output.audio /\ put.video = vod.output.video /\ put.service = st.service
  BY <1>5, <1>11, <1>12, ServiceSet
<1>14. o \in Started(put)
  BY <1>3 DEF vod, st
<1>. HIDE DEF put
<1>15. o.video = put.video /\ o.audio = put.audio /\ o.service = put.service
  BY <1>13, <1>14, StartedIs
<1>16. /\ o.video = st.videoEncoder /\ o.service = st.service /\ o.audio[1] = st.audioEncoder
       /\ o.audio[2] = vod.output.audio[2]
  BY <1>8, <1>9, <1>11, <1>13, <1>15
<1>17. st.streamArchive # Nil /\ ActiveIn(st.streamArchive, outs \cup {set}) => ArchiveInUse(s)
  BY <1>1, <1>4, <1>6, <1>7, <1>8, <1>10, RunsAfter DEF ArchiveInUse, st
<1>18. VodTrack(s) = VodTrackMixerIndex + 1
  BY <1>1 DEF VodTrack
<1>19. IF ~WantsVod(s) THEN o.audio[2] = Nil
       ELSE ArchiveInUse(s) \/ (o.audio[2] # Nil /\ o.audio[2][1] = VodTrack(s))
  BY <1>9, <1>16, <1>17, <1>18
<1>20. ASSUME IsCapped(s), ~ActiveIn(st.videoEncoder, AllOutputs), ~ActiveIn(st.audioEncoder, AllOutputs)
       PROVE  bitrate'[st.videoEncoder] = "low"
  <2>1. ~ActiveIn(st.videoEncoder, outs) /\ ~ActiveIn(st.audioEncoder, outs)
    BY <1>1, <1>4, <1>7, <1>10, <1>20, RanBefore
  <2>2. bitrate' = Lower(st.videoEncoder)
    BY <1>1, <1>2, <1>20, <2>1 DEF updateEncoders, st, outs
  <2>. QED
    BY <1>1, <1>5, <2>2 DEF Lower, StreamTypes
<1>. QED
  BY <1>1, <1>6, <1>16, <1>19, <1>20 DEF StreamSends, st

LEMMA AdvancedSends ==
    ASSUME StreamsInv, NEW s \in PlainStreams, AdvancedStart(s), Begins(s)
    PROVE  StreamSends(s)
<1>1. /\ s \in Advanceds /\ s \in Streams /\ s \in Objects /\ s \notin Broadcasts /\ s \notin Simples
      /\ stream[s] # Nil /\ Spare /\ StreamTypes
      /\ stream[s].service # Nil /\ stream[s].videoEncoder # Nil
      /\ bitrate' = UpdateEncoders(s, AllOutputs)
  BY StreamingOutputsAssumption DEF AdvancedStart, CanStartAdvanced, CanStart, Usable, PlainStreams, Streams, Objects, StreamsInv
<1>2. PICK kept \in LeavesOnCheck(s) :
        /\ AdvancedAudio(s, kept).encoder # Nil
        /\ LET set == SetObsService(AdvancedVod(s, kept).output, stream[s].service)
           IN  \E o \in IF stream[s].tuned THEN Started(set) ELSE {set} : PutOutput(s, o, kept)
  BY DEF AdvancedStart, AdvancedVod, AdvancedSet, AdvancedAudio, AdvancedOuts
<1>4. kept \in Leaves(s)
  BY LeftOnCheckIs
<1> DEFINE st == stream[s]
           a == AdvancedAudio(s, kept)
           vod == AdvancedVod(s, kept)
           set == AdvancedSet(s, kept)
           outs == AdvancedOuts(s, kept)
           put == SetObsService(vod.output, st.service)
<1>3. PICK o \in IF st.tuned THEN Started(put) ELSE {put} : PutOutput(s, o, kept)
  BY <1>2
<1>5. st \in StreamSettings /\ st.service \in Services /\ st.videoEncoder \in VideoEncoders
  BY <1>1, SettingsAre DEF StreamSettings
<1>6. output'[s] = o /\ lingering'[s] = kept /\ \A y \in Objects \ {s} : output'[y] = output[y] /\ lingering'[y] = lingering[y]
  BY <1>1, <1>3 DEF PutOutput, StreamTypes
<1>7. ~Running(checkOutput(s))
  BY <1>1, CheckedIs DEF Begins
<1>8. a.encoder[1] = st.audioTrack /\ a.output.audio[1] = a.encoder
  BY <1>1, <1>2, <1>4, <1>7, AdvancedAudioIs
<1>9. set \in ObsOutputs /\ ~Running(set) /\ set.video = st.videoEncoder /\ set.audio = a.output.audio
  BY <1>1, <1>2, <1>4, <1>7, AdvancedSetIs
<1>10. /\ SetupOK(vod, set, st.streamArchive, a.owned, outs)
       /\ WantsVod(s) => SoundtrackSet(vod, set, st.streamArchive, outs, st.twitchTrack)
       /\ ~WantsVod(s) => vod.output.audio[2] = Nil /\ vod.output.audio[1] = set.audio[1]
  BY <1>1, <1>2, <1>4, <1>9, AdvancedVodIs
<1>11. outs = OutputsWith(s, Nil, kept)
  BY DEF AdvancedOuts
<1>. HIDE DEF vod, set, outs, st, a
<1>12. vod.output \in ObsOutputs /\ vod.output.video = set.video /\ ~Running(vod.output)
  BY <1>9, <1>10, RunningIs DEF SetupOK
<1>13. /\ put \in ObsOutputs /\ put.audio = vod.output.audio /\ put.video = vod.output.video /\ put.service = st.service
  BY <1>5, <1>12, ServiceSet
<1>. HIDE DEF put
<1>14. o.video = put.video /\ o.audio = put.audio /\ o.service = put.service
  BY <1>3, <1>13, StartedIs
<1>15. /\ vod.output.audio[1] = set.audio[1]
       /\ WantsVod(s) /\ ~(st.streamArchive # Nil /\ ActiveIn(st.streamArchive, outs \cup {set})) =>
              vod.output.audio[2] # Nil /\ vod.output.audio[2][1] = st.twitchTrack
  BY <1>9, <1>10 DEF SoundtrackSet
<1>16. /\ o.video = st.videoEncoder /\ o.service = st.service /\ o.audio[1][1] = st.audioTrack
       /\ o.audio[2] = vod.output.audio[2]
  BY <1>8, <1>9, <1>12, <1>13, <1>14, <1>15
<1>17. ~Running(Nil)
  BY DEF Running
<1>18. st.streamArchive # Nil /\ ActiveIn(st.streamArchive, outs \cup {set}) => ArchiveInUse(s)
  BY <1>1, <1>4, <1>6, <1>9, <1>11, <1>17, RunsAfter DEF ArchiveInUse, st
<1>19. VodTrack(s) = st.twitchTrack
  BY <1>1 DEF VodTrack, st
<1>20. IF ~WantsVod(s) THEN o.audio[2] = Nil
       ELSE ArchiveInUse(s) \/ (o.audio[2] # Nil /\ o.audio[2][1] = VodTrack(s))
  BY <1>10, <1>15, <1>16, <1>18, <1>19
<1>21. ASSUME IsCapped(s), ~ActiveIn(st.videoEncoder, AllOutputs)
       PROVE  bitrate'[st.videoEncoder] = "low"
  <2>1. bitrate' = Lower(st.videoEncoder)
    BY <1>1, <1>21 DEF UpdateEncoders, st
  <2>. QED
    BY <1>1, <1>5, <2>1 DEF Lower, StreamTypes
<1>. QED
  BY <1>1, <1>6, <1>16, <1>20, <1>21 DEF StreamSends, st

LEMMA SimpleReplaySends ==
    ASSUME StreamsInv, NEW r \in Replays, SimpleReplayStart(r), Begins(r)
    PROVE  ReplayKeeps(r)
<1>1. r \in SimpleReplays /\ r \in Objects /\ replay[r] # Nil /\ StreamTypes /\ OutputOK(r)
  BY DEF SimpleReplayStart, Objects, StreamsInv, OutputsOK
<1> DEFINE audio == BorrowedAudio(r)
           video == BorrowedVideo(r)
           p == SetAudio(Idle(r), 1, audio)
<1>2. PICK o \in IF audio = Nil THEN {Idle(r)} ELSE Attempts(p, video) : output' = [output EXCEPT ![r] = o]
  BY DEF SimpleReplayStart
<1>3. output'[r] = o /\ Running(o)
  BY <1>1, <1>2 DEF Begins, StreamTypes
<1>4. Idle(r) \in ObsOutputs /\ ~Running(Idle(r)) /\ (Idle(r) = output[r] \/ Idle(r).audio = [i \in Slots |-> Nil])
  BY <1>1, IdleIs DEF Begins
<1>5. \A i \in Slots : i # 1 => Idle(r).audio[i] = Nil
  BY <1>1, <1>4, RunningIs DEF OutputOK
<1>6. audio \in AudioEncoders \cup {RecorderAudio, Nil} /\ video \in VideoEncoders \cup {Recorder, Nil}
  BY <1>1, BorrowedIs
<1>7. audio # Nil /\ o \in Attempts(p, video)
  BY <1>2, <1>3, <1>4
<1>8. p = SetAudio(Idle(r), 1, audio) /\ audio \in AudioEncoders \cup MadeEncoders \cup {RecorderAudio, Nil} /\ 1 \in Slots
  BY <1>6, SlotsThere
<1>9. Idle(r).audio \in [Slots -> AudioEncoders \cup MadeEncoders \cup {RecorderAudio, Nil}]
  BY <1>4 DEF ObsOutputs
<1>. HIDE DEF p, audio, video
<1>10. p \in ObsOutputs /\ p.running = Idle(r).running /\ p.audio = [Idle(r).audio EXCEPT ![1] = audio]
  BY ONLY <1>4, <1>8, AudioSet
<1>11. ~Running(p)
  BY <1>4, <1>10, RunningIs
<1>12. o.video = video /\ o.audio = p.audio
  BY <1>3, <1>6, <1>7, <1>10, <1>11, AttemptsAre
<1>13. o.audio[1] = audio /\ \A i \in Slots : i # 1 => o.audio[i] = Nil
  BY <1>5, <1>8, <1>9, <1>10, <1>12
<1>14. Heard(o) = {audio}
  BY <1>7, <1>8, <1>13 DEF Heard
<1>. QED
  BY <1>1, <1>3, <1>12, <1>14 DEF ReplayKeeps, audio, video

\* The tracks of a mixer have a slot each.
LEMMA NthIsOne ==
    ASSUME NEW set \in SUBSET Tracks, NEW t \in set
    PROVE  /\ Cardinality({u \in set : u < t}) + 1 \in Slots
           /\ NthTrack(set, Cardinality({u \in set : u < t}) + 1) = {t}
<1> DEFINE Below(x) == {u \in set : u < x}
<1>1. IsFiniteSet(set) /\ IsFiniteSet(Tracks) /\ set \subseteq Nat
  BY StreamingOutputsAssumption, FS_Subset
<1>2. \A x \in set : IsFiniteSet(Below(x)) /\ Cardinality(Below(x)) \in Nat
  BY <1>1, FS_Subset, FS_CardinalityType
<1>3. ASSUME NEW x \in set, NEW y \in set, x < y
      PROVE  Cardinality(Below(x)) < Cardinality(Below(y))
  <2>1. Below(x) \subseteq Below(y) /\ x \in Below(y) /\ x \notin Below(x)
    <3>1. x \in Nat /\ y \in Nat /\ \A u \in set : u \in Nat
      BY <1>1
    <3>2. \A u \in set : u < x => u < y
      BY <1>3, <3>1
    <3>3. ~(x < x)
      BY <3>1
    <3>. QED
      BY <1>3, <3>2, <3>3
  <2>2. Below(x) # Below(y)
    BY <2>1
  <2>. HIDE DEF Below
  <2>3. IsFiniteSet(Below(y)) /\ Cardinality(Below(x)) <= Cardinality(Below(y)) /\ Cardinality(Below(x)) # Cardinality(Below(y))
    BY <1>2, <2>1, <2>2, FS_Subset
  <2>. QED
    BY <1>2, <2>3
<1>4. \A u \in set : Cardinality(Below(u)) = Cardinality(Below(t)) => u = t
  <2> SUFFICES ASSUME NEW u \in set, Cardinality(Below(u)) = Cardinality(Below(t)), u # t PROVE FALSE
    OBVIOUS
  <2>1. u < t \/ t < u
    BY <1>1
  <2>. HIDE DEF Below
  <2>. QED
    BY <1>2, <1>3, <2>1
<1>5. Cardinality(Below(t)) < Cardinality(Tracks)
  <2>1. Below(t) \subseteq Tracks /\ t \in Tracks /\ t \notin Below(t)
    <3>1. t \in Nat
      BY <1>1
    <3>2. ~(t < t)
      BY <3>1
    <3>. QED
      BY <3>2
  <2>2. Below(t) # Tracks
    BY <2>1
  <2>. HIDE DEF Below
  <2>3. Cardinality(Below(t)) <= Cardinality(Tracks) /\ Cardinality(Below(t)) # Cardinality(Tracks) /\ Cardinality(Tracks) \in Nat
    BY <1>1, <2>1, <2>2, FS_Subset, FS_CardinalityType
  <2>. QED
    BY <1>2, <2>3
<1>6. ASSUME NEW n PROVE \A u : u \in NthTrack(set, n) <=> u \in set /\ Cardinality(Below(u)) = n - 1
  BY DEF NthTrack
<1>7. (Cardinality(Below(t)) + 1) - 1 = Cardinality(Below(t))
  <2>. HIDE DEF Below
  <2>. QED
    BY <1>2
<1>8. NthTrack(set, Cardinality(Below(t)) + 1) = {t}
  <2> DEFINE n == Cardinality(Below(t)) + 1
  <2>1. n - 1 = Cardinality(Below(t))
    BY <1>7
  <2>. HIDE DEF Below, n
  <2>2. \A u : u \in NthTrack(set, n) <=> u \in set /\ Cardinality(Below(u)) = Cardinality(Below(t))
    BY <1>6, <2>1
  <2>3. NthTrack(set, n) = {t}
    BY <1>4, <2>2
  <2>. QED
    BY <2>3 DEF n
<1>9. Cardinality(Below(t)) + 1 \in Slots
  <2>. HIDE DEF Below
  <2>. QED
    BY <1>2, <1>5, SlotsThere DEF Slots
<1>. QED
  BY <1>8, <1>9

\* What is heard of an output whose slots were set for tracks alone.
MadeFor(set, made) == set \subseteq Tracks /\ \A t \in set : made[t] \in MadeEncoders /\ made[t][1] = t
InOrder(o, set, made) ==
    o.audio = [i \in Slots |-> IF NthTrack(set, i) = {} THEN Nil ELSE made[CHOOSE t \in NthTrack(set, i) : TRUE]]

LEMMA TracksHeard ==
    ASSUME NEW set, NEW made, MadeFor(set, made), NEW o, InOrder(o, set, made)
    PROVE  {e[1] : e \in Heard(o)} = set
<1>1. \A i \in Slots : o.audio[i] = IF NthTrack(set, i) = {} THEN Nil ELSE made[CHOOSE t \in NthTrack(set, i) : TRUE]
  BY DEF InOrder
<1>. USE DEF MadeFor
<1>2. \A i \in Slots : NthTrack(set, i) # {} => (CHOOSE t \in NthTrack(set, i) : TRUE) \in set
  BY DEF NthTrack
<1>3. ASSUME NEW e \in Heard(o) PROVE e[1] \in set
  <2>1. PICK i \in Slots : e = o.audio[i] /\ e # Nil
    BY <1>3 DEF Heard
  <2>2. PICK t \in set : e = made[t]
    BY <1>1, <1>2, <2>1
  <2>. QED
    BY <2>2
<1>4. ASSUME NEW t \in set PROVE \E e \in Heard(o) : t = e[1]
  <2>1. PICK i \in Slots : NthTrack(set, i) = {t}
    BY NthIsOne
  <2>2. (CHOOSE u \in NthTrack(set, i) : TRUE) = t
    BY <2>1
  <2>3. o.audio[i] = made[t]
    BY <1>1, <2>1, <2>2
  <2>4. made[t] # Nil
    BY StreamingOutputsAssumption
  <2>. QED
    BY <2>3, <2>4 DEF Heard
<1>. QED
  BY <1>3, <1>4

LEMMA AdvancedReplaySends ==
    ASSUME StreamsInv, NEW r \in Replays, AdvancedReplayStart(r), Begins(r)
    PROVE  ReplayKeeps(r)
<1>1. r \in AdvancedReplays /\ r \in Objects /\ r \notin SimpleReplays /\ replay[r] # Nil /\ StreamTypes /\ Spare
  BY StreamingOutputsAssumption DEF AdvancedReplayStart, CanStart, Objects, StreamsInv
<1> DEFINE video == BorrowedVideo(r)
           c == MixCleared(r)
           w == Wanted(r)
           mk == MixMade(r)
           set == SetTrackEncoders(c, w, mk)
<1>2. PICK o \in Attempts(set, video) : output' = [output EXCEPT ![r] = o]
  BY DEF AdvancedReplayStart, MixMade, MixOuts, MixCleared, MixMine
<1>3. output'[r] = o /\ Running(o)
  BY <1>1, <1>2 DEF Begins, StreamTypes
<1>4. Idle(r) \in ObsOutputs /\ ~Running(Idle(r))
  BY <1>1, IdleIs DEF Begins
<1>5. c \in ObsOutputs /\ ~Running(c) /\ c.audio = [i \in Slots |-> Nil]
  BY <1>4, ClearedIs DEF MixCleared
<1>6. w \in SUBSET Tracks /\ \A t \in w : mk[t] \in MadeEncoders /\ mk[t][1] = t
  BY <1>1, MixIs
<1>7. video \in VideoEncoders \cup {Recorder, Nil}
  BY <1>1, BorrowedIs
<1>8. set = SetTrackEncoders(c, w, mk)
  OBVIOUS
<1>. HIDE DEF video, c, w, mk, set
<1>9. TracksOK(set, c, w, mk)
  <2>1. \A t \in w : mk[t] \in MadeEncoders
    BY <1>6
  <2>. QED
    BY ONLY <1>5, <1>8, <2>1, TracksSet
<1>10. /\ set \in ObsOutputs /\ ~Running(set)
       /\ set.audio = [i \in Slots |-> IF NthTrack(w, i) = {} THEN c.audio[i] ELSE mk[CHOOSE t \in NthTrack(w, i) : TRUE]]
  BY <1>5, <1>9 DEF TracksOK
<1>11. set.audio = [i \in Slots |-> IF NthTrack(w, i) = {} THEN Nil ELSE mk[CHOOSE t \in NthTrack(w, i) : TRUE]]
  BY <1>5, <1>10
<1>12. o.video = video /\ o.audio = set.audio
  BY <1>2, <1>3, <1>7, <1>10, AttemptsAre
<1>13. {e[1] : e \in Heard(o)} = w
  <2>1. MadeFor(w, mk)
    BY <1>6 DEF MadeFor
  <2>2. InOrder(o, w, mk)
    BY <1>11, <1>12 DEF InOrder
  <2>. QED
    BY ONLY <2>1, <2>2, TracksHeard
<1>. QED
  BY <1>1, <1>3, <1>12, <1>13 DEF ReplayKeeps, video, w

\* Nothing else begins an output that is not a broadcast's.
LEMMA OthersBegin ==
    ASSUME StreamsInv, StreamsNext, NEW x \in PlainStreams \cup Replays, Begins(x)
    PROVE  \/ x \in PlainStreams /\ (SimpleStart(x) \/ AdvancedStart(x))
           \/ x \in Replays /\ (SimpleReplayStart(x) \/ AdvancedReplayStart(x))
<1>1. x \in Objects /\ x \notin Broadcasts /\ ~Running(output[x]) /\ Running(output'[x]) /\ StreamTypes
  BY StreamingOutputsAssumption DEF PlainStreams, Objects, Streams, Begins, StreamsInv
<1>2. output' # output
  BY <1>1
<1>3. ~Running(Nil)
  BY DEF Running
<1>4. ASSUME NEW s \in Streams, StreamCalls(s) \/ SimpleCalls(s) \/ AdvancedCalls(s)
      PROVE  x = s /\ (SimpleStart(x) \/ AdvancedStart(x))
  <2>1. s \in Objects
    BY DEF Objects
  <2>2. CASE DestroyStream(s)
    BY <1>1, <1>3, <2>1, <2>2 DEF DestroyStream, PutOutput, StreamTypes
  <2>3. CASE SimpleStartFails(s) \/ AdvancedStartFails(s)
    <3>1. output' = [output EXCEPT ![s] = checkOutput(s)]
      BY <2>3 DEF SimpleStartFails, AdvancedStartFails, PutOutput
    <3>2. checkOutput(s) = output[s] \/ ~Running(checkOutput(s))
      BY <1>1, CheckedIs
    <3>. QED
      BY <1>1, <2>1, <3>1, <3>2 DEF StreamTypes
  <2>4. CASE SimpleStart(s) \/ AdvancedStart(s)
    <3>1. PICK o : output' = [output EXCEPT ![s] = o]
      BY <2>4 DEF SimpleStart, AdvancedStart, PutOutput
    <3>. QED
      BY <1>1, <2>1, <2>4, <3>1 DEF StreamTypes
  <2>. QED
    BY <1>2, <1>4, <2>2, <2>3, <2>4
       DEF StreamCalls, SimpleCalls, AdvancedCalls, CreateStream, CreateLegacyStream, ChangeStream, SetService,
           SetVideoEncoder, SetAudioEncoder, SetEnforceServiceBirate, SetEnableTwitchVOD, SetUseAdvanced,
           SetAudioTrack, SetTwitchTrack, SetTuning, outputs
<1>5. ASSUME NEW b, BroadcastCalls(b) PROVE FALSE
  <2>1. CASE StartEnhancedBroadcastingStream(b)
    <3>1. b \in Broadcasts /\ \E o : output' = [output EXCEPT ![b] = o]
      BY <2>1 DEF StartEnhancedBroadcastingStream, PutOutput
    <3>. QED
      BY <1>1, <3>1 DEF StreamTypes
  <2>2. CASE StopEnhancedBroadcastingStream(b)
    <3>1. b \in Broadcasts /\ output' = [output EXCEPT ![b].stats = FALSE]
      BY <2>2 DEF StopEnhancedBroadcastingStream
    <3>. QED
      BY <1>1, <3>1 DEF StreamTypes
  <2>3. CASE DestroyContext(b)
    BY <1>2, <2>3 DEF DestroyContext
  <2>. QED
    BY <1>5, <2>1, <2>2, <2>3 DEF BroadcastCalls
<1>6. ASSUME NEW r \in Replays, ReplayCalls(r)
      PROVE  x = r /\ (SimpleReplayStart(x) \/ AdvancedReplayStart(x))
  <2>1. r \in Objects
    BY DEF Objects
  <2>2. CASE DestroyReplay(r)
    BY <1>1, <1>3, <2>1, <2>2 DEF DestroyReplay, PutOutput, StreamTypes
  <2>3. CASE SimpleReplayStart(r) \/ AdvancedReplayStart(r)
    <3>1. PICK o : output' = [output EXCEPT ![r] = o]
      BY <2>3 DEF SimpleReplayStart, AdvancedReplayStart
    <3>. QED
      BY <1>1, <2>1, <2>3, <3>1 DEF StreamTypes
  <2>. QED
    BY <1>2, <1>6, <2>2, <2>3
       DEF ReplayCalls, CreateReplay, CreateLegacyReplay, NewReplayBuffer, SetReplay, SetUsesStream, SetMixer,
           SetSimpleStreaming, SetAdvancedStreaming, SetNoRecording, LendStream, ForgetStream, outputs
<1>7. ASSUME NEW y \in Objects, OutputEnds(y) PROVE FALSE
  <2>1. output' = [output EXCEPT ![y].running = FALSE]
    BY <1>7 DEF OutputEnds
  <2>2. y # x
    BY <1>1, <1>7 DEF OutputEnds
  <2>. QED
    BY <1>1, <2>1, <2>2 DEF StreamTypes
<1>8. ASSUME NEW y \in Objects, LingeringEnds(y) PROVE FALSE
  BY <1>2, <1>8 DEF LingeringEnds
<1>9. ~(\E t \in Tracks : SetTrack(t)) /\ ~(\E v \in VideoEncoders : UpdateVideoEncoder(v))
  BY <1>2 DEF SetTrack, UpdateVideoEncoder, outputs
<1>10. x \in Streams => x \in PlainStreams
  BY <1>1 DEF PlainStreams
<1>. QED
  BY <1>4, <1>5, <1>6, <1>7, <1>8, <1>9, <1>10 DEF StreamsNext

\* An output that begins sends what its stream is set to, and a replay buffer that
\* begins keeps what it borrows and the tracks of its mixer, whatever they had
\* from the starts and stops before.
THEOREM SendsAsSet == StreamsSpec => SendsWhatIsSet
<1> DEFINE Sends == /\ \A s \in PlainStreams : Begins(s) => StreamSends(s)
                    /\ \A r \in Replays : Begins(r) => ReplayKeeps(r)
<1>1. StreamsInv /\ [StreamsNext]_streamVars => [Sends]_streamVars
  <2> SUFFICES ASSUME StreamsInv, StreamsNext PROVE Sends
    OBVIOUS
  <2>1. \A x : x \in PlainStreams => x \notin Replays
    BY StreamingOutputsAssumption DEF PlainStreams
  <2>2. ASSUME NEW s \in PlainStreams, Begins(s) PROVE StreamSends(s)
    BY <2>1, <2>2, OthersBegin, SimpleSends, AdvancedSends
  <2>3. ASSUME NEW r \in Replays, Begins(r) PROVE ReplayKeeps(r)
    BY <2>1, <2>3, OthersBegin, SimpleReplaySends, AdvancedReplaySends
  <2>. QED
    BY <2>2, <2>3
<1>2. SendsWhatIsSet <=> [][Sends]_streamVars
  BY DEF SendsWhatIsSet
<1>. HIDE DEF Sends
<1>. QED
  BY <1>1, <1>2, StreamsSafe, PTL DEF StreamsSpec

-----------------------------------------------------------------------------
(* The bandwidth test.                                                        *)

(* What a sample is estimated to send is a number of bytes.                  *)
LEMMA EstimateType ==
    ASSUME NEW target \in Int, NEW ms \in Int
    PROVE  estimatedYoutubeSampleBytes(target, ms) \in Int
BY DEF estimatedYoutubeSampleBytes, kYoutubeProbeAudioBitrateKbps

(* Adding a segment or a sample keeps a cost numeric.                        *)
LEMMA SegmentType ==
    ASSUME NEW cost, cost.durationMs \in Int, cost.bytes \in Int,
           NEW target \in Int, NEW ms \in Int
    PROVE  /\ addSegment(cost, target, ms).durationMs \in Int
           /\ addSegment(cost, target, ms).bytes \in Int
<1>1. estimatedYoutubeSampleBytes(target, ms) \in Int
  BY EstimateType
<1> QED
  BY <1>1 DEF addSegment

LEMMA SampleType ==
    ASSUME NEW cost, cost.durationMs \in Int, cost.bytes \in Int,
           NEW active, NEW target \in Int
    PROVE  /\ addSample(cost, active, target).durationMs \in Int
           /\ addSample(cost, active, target).bytes \in Int
<1> DEFINE ms == kYoutubeProbeSampleMs + IF target # active THEN kYoutubeProbeSettleMs ELSE 0
<1>1. ms \in Int
  BY DEF kYoutubeProbeSampleMs, kYoutubeProbeSettleMs
<1>2. addSample(cost, active, target) = addSegment(cost, target, ms)
  BY DEF addSample
<1> HIDE DEF ms
<1> QED
  BY <1>1, <1>2, SegmentType

LEMMA NoCostType == NoCost.durationMs \in Int /\ NoCost.bytes \in Int
BY DEF NoCost, SlackMs

LEMMA ConfirmationType ==
    ASSUME NEW settled \in Int, NEW last \in Int, NEW next \in Int
    PROVE  LET c == youtubeConfirmationCost(settled, last, next)
           IN  c.durationMs \in Int /\ c.bytes \in Int
<1> DEFINE drained == addSegment(NoCost, settled, kYoutubeProbeRecoveryMaximumMs)
           sustained == addSegment(drained, next, kYoutubeProbeSustainedSampleMs)
           control == addSample(sustained, next, last)
           retried == addSample(control, last, next)
<1>1. drained.durationMs \in Int /\ drained.bytes \in Int
  BY NoCostType, SegmentType DEF kYoutubeProbeRecoveryMaximumMs
<1>2. sustained.durationMs \in Int /\ sustained.bytes \in Int
  <2> HIDE DEF drained
  <2> QED BY <1>1, SegmentType DEF kYoutubeProbeSustainedSampleMs
<1>3. control.durationMs \in Int /\ control.bytes \in Int
  <2> HIDE DEF sustained
  <2> QED BY <1>2, SampleType
<1>4. retried.durationMs \in Int /\ retried.bytes \in Int
  <2> HIDE DEF control
  <2> QED BY <1>3, SampleType
<1> QED
  BY <1>4 DEF youtubeConfirmationCost

LEMMA RungType ==
    ASSUME NEW active \in Int, NEW next \in Int
    PROVE  LET c == rungCost(active, next)
           IN  c.durationMs \in Int /\ c.bytes \in Int
<1> DEFINE extraMs == youtubeProbeRampSampleMs(next) - kYoutubeProbeSampleMs
           base == IF extraMs > 0 THEN addSegment(NoCost, next, extraMs) ELSE NoCost
<1>1. extraMs \in Int
  BY DEF youtubeProbeRampSampleMs, kYoutubeProbeSampleMs
<1>2. base.durationMs \in Int /\ base.bytes \in Int
  <2> HIDE DEF extraMs
  <2> QED BY <1>1, NoCostType, SegmentType
<1>3. rungCost(active, next) = addSample(base, active, next)
  BY DEF rungCost
<1> HIDE DEF base
<1> QED
  BY <1>2, <1>3, SampleType

(* A rung measured under a reserve can be confirmed: if it took no more time *)
(* and bytes than its own cost, the confirmation still fits what is left     *)
(* (the reserve in decideYoutubeRampStep).                                   *)
THEOREM ReserveCovers ==
    ASSUME NEW budget, budget.reserveConfirmation, budget.maximumBytes \in Int,
           NEW leftMs \in Int, NEW bytesUsed \in Int,
           NEW active \in Int, NEW settled \in Int, NEW last \in Int, NEW next \in Int,
           NEW validated \in Int, NEW episodes \in Int,
           decideYoutubeRampStep(budget, leftMs, bytesUsed, active, settled, last, next,
                                 validated, episodes) = "Measure",
           NEW spentMs \in Int, spentMs <= rungCost(active, next).durationMs,
           NEW spentBytes \in Int, spentBytes <= rungCost(active, next).bytes,
           bytesUsed + spentBytes <= budget.maximumBytes
    PROVE  /\ youtubeBudgetFits(budget, leftMs - spentMs, bytesUsed + spentBytes,
                                youtubeConfirmationCost(settled, last, next))
           /\ episodes < kYoutubeProbeMaximumConfirmationEpisodes
<1> DEFINE rung == rungCost(active, next)
           confirmation == youtubeConfirmationCost(settled, last, next)
<1>1. rung.durationMs \in Int /\ rung.bytes \in Int
  BY RungType
<1>2. confirmation.durationMs \in Int /\ confirmation.bytes \in Int
  BY ConfirmationType
<1>3. youtubeBudgetFits(budget, leftMs, bytesUsed, withConfirmation(rung, confirmation, episodes))
  BY DEF decideYoutubeRampStep
<1>4. /\ confirmation.valid
      /\ episodes < kYoutubeProbeMaximumConfirmationEpisodes
      /\ leftMs > rung.durationMs + confirmation.durationMs
      /\ rung.bytes + confirmation.bytes <= budget.maximumBytes - bytesUsed
  <2> HIDE DEF rung, confirmation
  <2> QED BY <1>3 DEF youtubeBudgetFits, withConfirmation
<1> HIDE DEF confirmation
<1>5. youtubeBudgetFits(budget, leftMs - spentMs, bytesUsed + spentBytes, confirmation)
  BY <1>1, <1>2, <1>4 DEF youtubeBudgetFits
<1> QED
  BY <1>4, <1>5 DEF confirmation

-----------------------------------------------------------------------------
Metrics == [throughput : Int, drop : Int, high : Int, severe : Int]

(* One bad sample of three does not spoil a settled: with two clean ones it *)
(* is clean, whatever the third observed (resolveYoutubeBaseline).           *)
THEOREM TwoCleanSuffice ==
    ASSUME NEW taken \in [1..3 -> Metrics], NEW i \in 1..3, NEW j \in 1..3, i # j,
           classifyYoutubeProbeTransport(taken[i]) = "Clean",
           classifyYoutubeProbeTransport(taken[j]) = "Clean"
    PROVE  resolveYoutubeBaseline(taken).decision = "Clean"
<1> DEFINE m == medianReference(taken[1], taken[2], taken[3])
           hard == {n \in 1..3 : classifyYoutubeProbeTransport(taken[n]) = "Hard"}
<1>1. \A n \in 1..3 : taken[n] \in Metrics
  OBVIOUS
<1>2. \A n \in {i, j} : taken[n].drop <= 200 /\ taken[n].high <= 1000 /\ taken[n].severe <= 200
  BY DEF classifyYoutubeProbeTransport
<1>3. m.drop \in Int /\ m.drop <= 200
  <2>1. m.drop = medianOfThree(taken[1].drop, taken[2].drop, taken[3].drop)
    BY DEF medianReference
  <2>2. \A n \in 1..3 : taken[n].drop \in Int
    BY <1>1 DEF Metrics
  <2>3. taken[i].drop <= 200 /\ taken[j].drop <= 200
    BY <1>2
  <2>4. /\ taken[1].drop \in Int /\ taken[2].drop \in Int /\ taken[3].drop \in Int
        /\ \/ taken[1].drop <= 200 /\ taken[2].drop <= 200
           \/ taken[1].drop <= 200 /\ taken[3].drop <= 200
           \/ taken[2].drop <= 200 /\ taken[3].drop <= 200
    BY <2>2, <2>3
  <2> DEFINE median == medianOfThree(taken[1].drop, taken[2].drop, taken[3].drop)
  <2>5. median \in Int /\ median <= 200
    BY ONLY <2>4 DEF medianOfThree, min, max
  <2> HIDE DEF m
  <2> QED BY <2>1, <2>5
<1>4. m.high \in Int /\ m.high <= 1000
  <2>1. m.high = medianOfThree(taken[1].high, taken[2].high, taken[3].high)
    BY DEF medianReference
  <2>2. \A n \in 1..3 : taken[n].high \in Int
    BY <1>1 DEF Metrics
  <2>3. taken[i].high <= 1000 /\ taken[j].high <= 1000
    BY <1>2
  <2>4. /\ taken[1].high \in Int /\ taken[2].high \in Int /\ taken[3].high \in Int
        /\ \/ taken[1].high <= 1000 /\ taken[2].high <= 1000
           \/ taken[1].high <= 1000 /\ taken[3].high <= 1000
           \/ taken[2].high <= 1000 /\ taken[3].high <= 1000
    BY <2>2, <2>3
  <2> DEFINE median == medianOfThree(taken[1].high, taken[2].high, taken[3].high)
  <2>5. median \in Int /\ median <= 1000
    BY ONLY <2>4 DEF medianOfThree, min, max
  <2> HIDE DEF m
  <2> QED BY <2>1, <2>5
<1>5. m.severe \in Int /\ m.severe <= 200
  <2>1. m.severe = medianOfThree(taken[1].severe, taken[2].severe, taken[3].severe)
    BY DEF medianReference
  <2>2. \A n \in 1..3 : taken[n].severe \in Int
    BY <1>1 DEF Metrics
  <2>3. taken[i].severe <= 200 /\ taken[j].severe <= 200
    BY <1>2
  <2>4. /\ taken[1].severe \in Int /\ taken[2].severe \in Int /\ taken[3].severe \in Int
        /\ \/ taken[1].severe <= 200 /\ taken[2].severe <= 200
           \/ taken[1].severe <= 200 /\ taken[3].severe <= 200
           \/ taken[2].severe <= 200 /\ taken[3].severe <= 200
    BY <2>2, <2>3
  <2> DEFINE median == medianOfThree(taken[1].severe, taken[2].severe, taken[3].severe)
  <2>5. median \in Int /\ median <= 200
    BY ONLY <2>4 DEF medianOfThree, min, max
  <2> HIDE DEF m
  <2> QED BY <2>1, <2>5
<1>6. classifyYoutubeProbeTransport(m) = "Clean"
  <2> HIDE DEF m
  <2> QED BY <1>3, <1>4, <1>5 DEF classifyYoutubeProbeTransport
<1>7. ~(Cardinality(hard) >= 2)
  <2>1. PICK n \in 1..3 : hard \subseteq {n}
    <3>1. i \notin hard /\ j \notin hard
      OBVIOUS
    <3> QED BY <3>1
  <2>2. hard = {} \/ hard = {n}
    BY <2>1
  <2>3. Cardinality({}) = 0 /\ Cardinality({n}) = 1
    BY FS_EmptySet, FS_Singleton
  <2> QED BY <2>2, <2>3
<1> QED
  BY <1>6, <1>7 DEF resolveYoutubeBaseline

-----------------------------------------------------------------------------
(* The bandwidth test.                                                       *)

Phases == {"begin", "baseline", "assess", "step", "high", "drain", "low", "retry", "sustain", "summary", "done"}

ErrorCodes == {"none", "interrupted", "budget_exhausted", "baseline_budget_exhausted",
               "baseline_confirmation_budget_exhausted", "unstable_connection",
               "recovery_deadline_exhausted", "recovery_timeout", "inconclusive", "no_passing_step"}

Measurements == [measured : Int, metrics : Metrics]

RampTypes ==
    /\ workload \in Workloads
    /\ share \in Shares
    /\ phase \in Phases
    /\ index \in DOMAIN plannedTargets
    /\ lastAccepted.target \in Int
    /\ rampEvidence \in [passedStep : BOOLEAN, validated : Int]
    /\ recommendationEvidenceUsable \in BOOLEAN
    /\ first \in Int
    /\ result \in [success : BOOLEAN, safeKbps : Int, errorCode : ErrorCodes]
    /\ supported \in Nat
    /\ pressed \in Int

\* A sample has carried its target, or what it delivered of it.
CarriedBefore(s, target) ==
    /\ min(s.measured, target) <= supported
    /\ youtubeThroughputAtTarget(s.metrics) => target <= supported

\* The baseline is drawn from samples that were measured.
BaselineIsMeasured ==
    /\ phase = "begin" => samples = <<>>
    /\ phase \in {"baseline", "assess"} =>
         /\ samples \in Seq(Measurements)
         /\ \A i \in 1..Len(samples) : CarriedBefore(samples[i], baselineTarget)
    /\ phase = "baseline" => Len(samples) <= 2
    /\ phase = "assess" => Len(samples) \in {2, 3}

\* What is validated was carried by a sample.
ValidatedIsCarried == rampEvidence.validated <= supported

\* pressed is about the rung whose confirmation is under way.
PressedOfRung ==
    /\ phase \in {"begin", "baseline", "assess", "step", "high"} => pressed = NoPressure
    /\ phase \in {"drain", "low", "retry"} => pressed = min(first, plannedTarget)

\* Nothing is to be recommended while a rung is being decided.
DecidedLast ==
    phase \in {"begin", "baseline", "assess", "high", "drain", "low", "retry", "sustain"} =>
        ~recommendationEvidenceUsable

\* Evidence that may be used stays below what an unresolved rung delivered.
UsableIsHeld ==
    phase = "summary" /\ recommendationEvidenceUsable /\ pressed # NoPressure =>
        rampEvidence.validated <= pressed

NoResultYet == phase # "done" => ~result.success

RampInv ==
    /\ RampTypes
    /\ BaselineIsMeasured
    /\ ValidatedIsCarried
    /\ PressedOfRung
    /\ DecidedLast
    /\ UsableIsHeld
    /\ NoResultYet
    /\ RecommendsWhatHeld

\* The ladder has a first rung, and targets that are numbers.
LEMMA CeilingType ==
    ASSUME NEW w \in [shared : BOOLEAN, perOutput : Int, platformCap : Int]
    PROVE  ceiling(w) \in Int
<1>1. maximumBitrate(w) \in Int
  BY DEF maximumBitrate, youtubeProbeMaximumBitrateKbps, min, max
<1>. QED
  BY <1>1 DEF ceiling, effectiveProbeCeilingKbps, min

LEMMA TargetsType ==
    ASSUME NEW c \in Int
    PROVE  /\ 1 \in DOMAIN youtubeProbeTargets(c)
           /\ \A i \in DOMAIN youtubeProbeTargets(c) : youtubeProbeTargets(c)[i] \in Int
<1>1. \A i \in 1..8 : Rungs[i] \in Int
  BY DEF Rungs
<1>. QED
  BY <1>1 DEF youtubeProbeTargets, min

LEMMA PlannedType ==
    ASSUME RampAssumption, RampTypes
    PROVE  /\ baselineTarget \in Int
           /\ plannedTarget \in Int
           /\ 1 \in DOMAIN plannedTargets
<1>1. ceiling(workload) \in Int
  BY CeilingType DEF RampAssumption, RampTypes
<1>. QED
  BY <1>1, TargetsType DEF RampTypes, baselineTarget, plannedTarget, plannedTargets

\* The ladder is the same for the whole of a test.
LEMMA PlannedKept ==
    ASSUME UNCHANGED workload
    PROVE  /\ UNCHANGED <<plannedTargets, baselineTarget>>
           /\ UNCHANGED index => UNCHANGED plannedTarget
BY DEF plannedTargets, baselineTarget, plannedTarget

LEMMA ObservationType ==
    ASSUME RampAssumption, NEW target \in Int, NEW s \in Observations(target)
    PROVE  s \in Measurements
<1> DEFINE expected == target + kYoutubeProbeAudioBitrateKbps
<1>1. expected \in Int
  BY DEF kYoutubeProbeAudioBitrateKbps
<1>2. PICK t \in Transports, r \in Shares :
        s = [measured |-> (expected * r) \div 100,
             metrics |-> [throughput |-> r * 100, drop |-> t.drop,
                          high |-> t.congestion, severe |-> t.congestion]]
  BY DEF Observations
<1> HIDE DEF expected
<1>3. r \in Int /\ t.drop \in Int /\ t.congestion \in Int
  BY DEF RampAssumption
<1>4. (expected * r) \div 100 \in Int
  <2>1. expected * r \in Int
    BY <1>1, <1>3
  <2>. QED
    BY <2>1
<1>5. r * 100 \in Int
  BY <1>3
<1>. QED
  BY <1>2, <1>3, <1>4, <1>5 DEF Measurements, Metrics

\* A sample is carried once it has been observed, and what was carried stays so.
LEMMA ObservedCarries ==
    ASSUME supported \in Nat, NEW target \in Int, NEW s \in Measurements, observed(target, s)
    PROVE  /\ supported' \in Nat /\ supported <= supported'
           /\ min(s.measured, target) <= supported'
           /\ youtubeThroughputAtTarget(s.metrics) => target <= supported'
BY DEF observed, min, max, Measurements

LEMMA LoadIsThroughput ==
    ASSUME NEW s, ~Pressed(s)
    PROVE  Loads(s) # "SourceUnderfill" => youtubeThroughputAtTarget(s.metrics)
BY DEF Pressed, Loads, classifyYoutubeProbeLoad

\* What a lower bound, an accepted target and a confirmed capacity validate.
LEMMA EvidenceType ==
    ASSUME rampEvidence \in [passedStep : BOOLEAN, validated : Int],
           NEW m \in Int, NEW target \in Int
    PROVE  /\ observeTransportCleanLowerBound(rampEvidence, m, target)
                \in [passedStep : BOOLEAN, validated : Int]
           /\ observeAcceptedTarget(target) \in [passedStep : BOOLEAN, validated : Int]
           /\ observeConfirmedCapacity(m, target) \in [passedStep : BOOLEAN, validated : Int]
           /\ observeTransportCleanLowerBound(rampEvidence, m, target).validated
                = max(rampEvidence.validated, min(m, target))
           /\ observeAcceptedTarget(target).validated = target
           /\ observeConfirmedCapacity(m, target).validated = min(m, target)
BY DEF observeTransportCleanLowerBound, observeAcceptedTarget, observeConfirmedCapacity, min, max

\* Ends and failures leave a result without success.
LEMMA ResultType ==
    ASSUME result \in [success : BOOLEAN, safeKbps : Int, errorCode : ErrorCodes],
           NEW e \in ErrorCodes, result' = [result EXCEPT !.errorCode = e]
    PROVE  /\ result' \in [success : BOOLEAN, safeKbps : Int, errorCode : ErrorCodes]
           /\ result'.success = result.success /\ result'.safeKbps = result.safeKbps
OBVIOUS

LEMMA RampInit ==
    ASSUME RampAssumption, Init
    PROVE  RampInv
<1>1. 1 \in DOMAIN plannedTargets
  <2>1. ceiling(workload) \in Int
    BY CeilingType DEF RampAssumption, Init
  <2>. QED
    BY <2>1, TargetsType DEF plannedTargets
<1>2. RampTypes
  <2>1. /\ workload \in Workloads /\ share \in Shares /\ phase = "begin" /\ index = 1
        /\ rampEvidence = [passedStep |-> FALSE, validated |-> 0]
        /\ first = 0 /\ supported = 0 /\ pressed = -1
    BY DEF Init, NoEvidence, NoPressure
  <2>2. recommendationEvidenceUsable \in BOOLEAN
    <3>1. ~recommendationEvidenceUsable /\ recommendationEvidenceUsable = FALSE
      BY DEF Init
    <3>. QED
      BY <3>1, Zenon
  <2>3. result = [success |-> FALSE, safeKbps |-> 0, errorCode |-> "none"]
    BY DEF Init
  <2>4. lastAccepted.target \in Int
    BY DEF Init
  <2>. QED
    BY <1>1, <2>1, <2>2, <2>3, <2>4 DEF RampTypes, Phases, ErrorCodes
<1>3. /\ phase = "begin" /\ samples = <<>> /\ rampEvidence.validated = 0 /\ supported = 0
      /\ pressed = NoPressure /\ ~recommendationEvidenceUsable /\ ~result.success
  BY DEF Init, NoEvidence
<1>. QED
  BY <1>2, <1>3 DEF RampInv, BaselineIsMeasured, ValidatedIsCarried, PressedOfRung, DecidedLast,
     UsableIsHeld, NoResultYet, RecommendsWhatHeld

\* A test that ends without drawing a result recommends nothing.
LEMMA FailKeeps ==
    ASSUME RampInv, phase # "done", UNCHANGED <<fixed, index, verdictVars, first, history>>,
           NEW e \in ErrorCodes, fail(e)
    PROVE  RampInv'
<1>1. phase' = "done" /\ result' = [result EXCEPT !.errorCode = e]
  BY DEF fail
<1>2. /\ result' \in [success : BOOLEAN, safeKbps : Int, errorCode : ErrorCodes]
      /\ ~result'.success
  BY <1>1, ResultType DEF RampInv, RampTypes, NoResultYet
<1>3. RampTypes'
  BY <1>1, <1>2, PlannedKept DEF RampInv, RampTypes, Phases, fixed, verdictVars, history
<1>. QED
  BY <1>1, <1>2, <1>3 DEF RampInv, BaselineIsMeasured, ValidatedIsCarried, PressedOfRung,
     DecidedLast, UsableIsHeld, NoResultYet, RecommendsWhatHeld, verdictVars, history

LEMMA SampleFailsKeeps ==
    ASSUME RampInv, phase # "done", UNCHANGED fixed, NEW target, NEW ms, sampleFails(target, ms)
    PROVE  RampInv'
<1>1. \E e \in ErrorCodes : fail(e)
  BY DEF sampleFails, ErrorCodes
<1>2. UNCHANGED <<index, verdictVars, first, history>>
  BY DEF sampleFails, ladderVars, episodeVars
<1>. QED
  BY <1>1, <1>2, FailKeeps

\* Where a test stands once it moves on, or ends its ladder.
LEMMA GotoMoves ==
    ASSUME RampInv, phase # "done", NEW to \in Phases \ {"done"}, goto(to)
    PROVE  /\ phase' = to /\ phase' \in Phases /\ ~result'.success
           /\ result' \in [success : BOOLEAN, safeKbps : Int, errorCode : ErrorCodes]
BY DEF goto, RampInv, RampTypes, NoResultYet

LEMMA FinishMoves ==
    ASSUME RampInv, phase # "done", NEW e \in ErrorCodes, finish(e)
    PROVE  /\ phase' = "summary" /\ phase' \in Phases /\ ~result'.success
           /\ result' \in [success : BOOLEAN, safeKbps : Int, errorCode : ErrorCodes]
<1>1. result' = [result EXCEPT !.errorCode = e]
  BY DEF finish
<1>. QED
  BY <1>1, ResultType DEF finish, RampInv, RampTypes, NoResultYet, Phases

\* A step that neither measures nor ends anything.
LEMMA MovesKeep ==
    ASSUME RampInv, UNCHANGED <<fixed, index, samples, verdictVars, first, history>>,
           /\ phase' \in Phases /\ ~result'.success
           /\ result' \in [success : BOOLEAN, safeKbps : Int, errorCode : ErrorCodes],
           \/ phase = "begin" /\ phase' \in {"baseline", "summary"}
           \/ phase = "drain" /\ phase' \in {"low", "summary"}
    PROVE  RampInv'
<1>1. UNCHANGED <<plannedTarget, plannedTargets, baselineTarget>>
  BY PlannedKept DEF fixed
<1>2. RampTypes'
  BY <1>1 DEF RampInv, RampTypes, fixed, verdictVars, history
<1>3. BaselineIsMeasured'
  <2>1. CASE phase = "begin"
    <3>1. samples' = <<>> /\ Len(samples') = 0 /\ samples' \in Seq(Measurements)
      BY <2>1 DEF RampInv, BaselineIsMeasured
    <3>. QED
      BY <2>1, <3>1 DEF BaselineIsMeasured
  <2>2. CASE phase = "drain"
    BY <2>2 DEF BaselineIsMeasured
  <2>. QED
    BY <2>1, <2>2
<1>. QED
  BY <1>1, <1>2, <1>3 DEF RampInv, ValidatedIsCarried, PressedOfRung, DecidedLast,
     UsableIsHeld, NoResultYet, RecommendsWhatHeld, verdictVars, history

LEMMA BeginKeeps ==
    ASSUME RampInv, UNCHANGED fixed, Begin
    PROVE  RampInv'
<1>1. phase = "begin" /\ UNCHANGED <<index, samples, verdictVars, first, history>>
  BY DEF Begin, ladderVars, episodeVars
<1>2. /\ phase' \in {"baseline", "summary"} /\ phase' \in Phases /\ ~result'.success
      /\ result' \in [success : BOOLEAN, safeKbps : Int, errorCode : ErrorCodes]
  <2>1. CASE goto("baseline")
    BY <1>1, <2>1, GotoMoves DEF Phases
  <2>2. CASE finish("baseline_budget_exhausted")
    BY <1>1, <2>2, FinishMoves DEF ErrorCodes
  <2>. QED
    BY <2>1, <2>2 DEF Begin
<1>. QED
  BY <1>1, <1>2, MovesKeep

LEMMA RecoveryDrainKeeps ==
    ASSUME RampInv, UNCHANGED fixed, recoveryDrain
    PROVE  RampInv'
<1>1. phase = "drain" /\ UNCHANGED <<index, samples, verdictVars, first, history>>
  BY DEF recoveryDrain, ladderVars, episodeVars
<1>2. CASE \E e \in ErrorCodes : fail(e)
  BY <1>1, <1>2, FailKeeps
<1>3. CASE goto("low")
  BY <1>1, <1>3, GotoMoves, MovesKeep DEF Phases
<1>4. CASE finish("recovery_timeout")
  BY <1>1, <1>4, FinishMoves, MovesKeep DEF ErrorCodes
<1>. QED
  BY <1>2, <1>3, <1>4 DEF recoveryDrain, ErrorCodes

\* A sample of the baseline.
LEMMA MeasureBaselineKeeps ==
    ASSUME RampAssumption, RampInv, UNCHANGED fixed, measureBaseline
    PROVE  RampInv'
<1>1. phase = "baseline"
  BY DEF measureBaseline
<1>2. CASE sampleFails(baselineTarget, kYoutubeProbeSampleMs)
  BY <1>1, <1>2, SampleFailsKeeps
<1>3. CASE ~sampleFails(baselineTarget, kYoutubeProbeSampleMs)
  <2>1. /\ goto(IF samples = <<>> THEN "baseline" ELSE "assess")
        /\ UNCHANGED <<index, verdictVars, first, pressed>>
    BY <1>3 DEF measureBaseline, episodeVars
  <2>2. PICK s \in Observations(baselineTarget) :
            samples' = Append(samples, s) /\ observed(baselineTarget, s)
    BY <1>3 DEF measureBaseline
  <2>3. baselineTarget \in Int /\ UNCHANGED <<baselineTarget, plannedTargets, plannedTarget>>
    BY <2>1, PlannedType, PlannedKept DEF RampInv, fixed
  <2>4. s \in Measurements
    BY <2>2, <2>3, ObservationType
  <2>5. /\ supported' \in Nat /\ supported <= supported'
        /\ min(s.measured, baselineTarget) <= supported'
        /\ youtubeThroughputAtTarget(s.metrics) => baselineTarget <= supported'
    BY <2>2, <2>3, <2>4, ObservedCarries DEF RampInv, RampTypes
  <2>6. samples \in Seq(Measurements) /\ Len(samples) \in 0..2
    <3>1. samples \in Seq(Measurements) /\ Len(samples) <= 2
      BY <1>1 DEF RampInv, BaselineIsMeasured
    <3>2. Len(samples) \in Nat
      BY <3>1
    <3>3. \A n \in Nat : n <= 2 => n \in 0..2
      OBVIOUS
    <3>. QED
      BY <3>1, <3>2, <3>3
  <2>7. /\ samples' \in Seq(Measurements) /\ Len(samples') = Len(samples) + 1
        /\ \A i \in 1..Len(samples') : samples'[i] = IF i <= Len(samples) THEN samples[i] ELSE s
    BY <2>2, <2>4, <2>6
  <2>8. ASSUME NEW i \in 1..Len(samples')
        PROVE  CarriedBefore(samples[i], baselineTarget)'
    <3>1. CASE i <= Len(samples)
      <4>1. i \in 1..Len(samples)
        BY <2>6, <2>7, <3>1
      <4>2. samples[i] \in Measurements
        BY <2>6, <4>1
      <4>3. CarriedBefore(samples[i], baselineTarget) /\ samples[i].measured \in Int
        BY <1>1, <4>1, <4>2 DEF RampInv, BaselineIsMeasured, Measurements
      <4>. QED
        BY <2>3, <2>5, <2>7, <3>1, <4>3 DEF CarriedBefore, min, RampInv, RampTypes
    <3>2. CASE ~(i <= Len(samples))
      BY <2>3, <2>5, <2>7, <3>2 DEF CarriedBefore
    <3>. QED
      BY <3>1, <3>2
  <2>9. /\ phase' = IF samples = <<>> THEN "baseline" ELSE "assess"
        /\ phase' \in Phases /\ ~result'.success
        /\ result' \in [success : BOOLEAN, safeKbps : Int, errorCode : ErrorCodes]
    BY <1>1, <2>1, GotoMoves DEF Phases
  <2>10. RampTypes'
    BY <2>1, <2>3, <2>5, <2>9 DEF RampInv, RampTypes, fixed, verdictVars
  <2>11. BaselineIsMeasured'
    <3>1. phase' = "baseline" => Len(samples') <= 2
      BY <2>6, <2>7, <2>9
    <3>2. phase' = "assess" => Len(samples') \in {2, 3}
      BY <2>6, <2>7, <2>9
    <3>3. phase' # "begin"
      BY <2>9
    <3>. QED
      BY <2>7, <2>8, <3>1, <3>2, <3>3 DEF BaselineIsMeasured
  <2>12. ValidatedIsCarried'
    BY <2>1, <2>5 DEF RampInv, RampTypes, ValidatedIsCarried, verdictVars
  <2>13. phase' \in {"baseline", "assess"}
    BY <2>9
  <2>. QED
    BY <1>1, <2>1, <2>9, <2>10, <2>11, <2>12, <2>13 DEF RampInv, PressedOfRung, DecidedLast,
       UsableIsHeld, NoResultYet, RecommendsWhatHeld, verdictVars
<1>. QED
  BY <1>2, <1>3 DEF measureBaseline

\* A settled baseline validates what its samples have carried.
LEMMA SettleKeeps ==
    ASSUME RampAssumption, RampInv, phase = "assess",
           UNCHANGED <<fixed, index, first, history>>,
           NEW b, settleBaseline(b),
           NEW basis \in Int,
           basis = IF Len(samples) = 2 THEN min(samples[1].measured, samples[2].measured)
                   ELSE medianOfThree(samples[1].measured, samples[2].measured, samples[3].measured),
           min(basis, baselineTarget) <= supported,
           b.decision # "Unstable" /\ classifyYoutubeProbeLoad(b.reference, b) # "SourceUnderfill"
             => baselineTarget <= supported
    PROVE  RampInv'
<1> DEFINE load == classifyYoutubeProbeLoad(b.reference, b)
<1>1. baselineTarget \in Int /\ UNCHANGED <<baselineTarget, plannedTargets, plannedTarget>>
  BY PlannedType, PlannedKept DEF RampInv, fixed
<1>2. CASE b.decision = "Unstable"
  <2>1. finish("unstable_connection") /\ UNCHANGED verdictVars
    BY <1>2 DEF settleBaseline
  <2>2. /\ phase' = "summary" /\ phase' \in Phases /\ ~result'.success
        /\ result' \in [success : BOOLEAN, safeKbps : Int, errorCode : ErrorCodes]
    BY <2>1, FinishMoves DEF ErrorCodes
  <2>3. RampTypes'
    BY <1>1, <2>1, <2>2 DEF RampInv, RampTypes, fixed, verdictVars, history
  <2>. QED
    BY <2>1, <2>2, <2>3 DEF RampInv, BaselineIsMeasured, ValidatedIsCarried, PressedOfRung,
       DecidedLast, UsableIsHeld, NoResultYet, RecommendsWhatHeld, verdictVars, history
<1>3. CASE b.decision # "Unstable"
  <2>1. /\ rampEvidence' = IF load = "SourceUnderfill"
                           THEN observeTransportCleanLowerBound(rampEvidence, basis, baselineTarget)
                           ELSE observeAcceptedTarget(baselineTarget)
        /\ lastAccepted' = [target |-> baselineTarget, metrics |-> b.reference]
        /\ recommendationEvidenceUsable' = (baselineTarget >= ceiling(workload))
        /\ IF baselineTarget >= ceiling(workload) THEN finish("none") ELSE goto("step")
    <3> HIDE DEF baselineTarget, ceiling
    <3>. QED
      BY <1>3 DEF settleBaseline
  <2> HIDE DEF load
  <2>2. /\ rampEvidence' \in [passedStep : BOOLEAN, validated : Int]
        /\ rampEvidence'.validated <= supported
    <3>1. CASE load = "SourceUnderfill"
      <4>1. /\ rampEvidence' \in [passedStep : BOOLEAN, validated : Int]
            /\ rampEvidence'.validated = max(rampEvidence.validated, min(basis, baselineTarget))
        <5>1. rampEvidence' = observeTransportCleanLowerBound(rampEvidence, basis, baselineTarget)
          BY <2>1, <3>1
        <5>2. rampEvidence \in [passedStep : BOOLEAN, validated : Int]
          BY DEF RampInv, RampTypes
        <5> HIDE DEF baselineTarget
        <5>. QED
          BY <1>1, <5>1, <5>2, EvidenceType
      <4>. QED
        BY <4>1 DEF RampInv, RampTypes, ValidatedIsCarried, max
    <3>2. CASE load # "SourceUnderfill"
      BY <1>1, <1>3, <2>1, <3>2, EvidenceType DEF RampInv, RampTypes, load
    <3>. QED
      BY <3>1, <3>2
  <2>3. /\ phase' \in {"summary", "step"} /\ phase' \in Phases /\ ~result'.success
        /\ result' \in [success : BOOLEAN, safeKbps : Int, errorCode : ErrorCodes]
    BY <2>1, FinishMoves, GotoMoves DEF Phases, ErrorCodes
  <2>4. recommendationEvidenceUsable' \in BOOLEAN /\ lastAccepted'.target \in Int
    BY <1>1, <2>1
  <2>5. RampTypes'
    BY <1>1, <2>2, <2>3, <2>4 DEF RampInv, RampTypes, fixed, history
  <2>. QED
    BY <2>2, <2>3, <2>5 DEF RampInv, BaselineIsMeasured, ValidatedIsCarried, PressedOfRung,
       DecidedLast, UsableIsHeld, NoResultYet, RecommendsWhatHeld, history
<1>. QED
  BY <1>2, <1>3

\* The reference of two samples, when it needs no third, and of three.
LEMMA TwoSettle ==
    ASSUME NEW s \in Metrics, NEW t \in Metrics,
           NEW b, b = assessYoutubeBaseline(s, t), b.decision \notin {"NeedsThird", "Unstable"},
           classifyYoutubeProbeLoad(b.reference, b) # "SourceUnderfill"
    PROVE  youtubeThroughputAtTarget(s)
<1> DEFINE r == conservativeReference(s, t)
<1>1. b.reference = r
  BY DEF assessYoutubeBaseline
<1>2. /\ r.throughput \in Int /\ r.throughput <= s.throughput
      /\ r.drop \in Int /\ r.high \in Int /\ r.severe \in Int
      /\ r.drop \in {s.drop, t.drop} /\ r.high \in {s.high, t.high} /\ r.severe \in {s.severe, t.severe}
  BY DEF conservativeReference, min, max, Metrics
<1>3. classifyYoutubeProbeTransport(s) # "Hard" /\ classifyYoutubeProbeTransport(t) # "Hard"
      /\ (b.decision = "Clean" =>
            classifyYoutubeProbeTransport(s) = "Clean" /\ classifyYoutubeProbeTransport(t) = "Clean")
      /\ b.decision \in {"Clean", "Impaired"}
  <2> DEFINE cs == classifyYoutubeProbeTransport(s)
             ct == classifyYoutubeProbeTransport(t)
             similar == youtubeBaselineSamplesSimilar(s, t)
  <2>1. b.decision = CASE <<cs, ct>> = <<"Hard", "Hard">> -> "Unstable"
                        [] <<cs, ct>> = <<"Clean", "Clean">> /\ similar -> "Clean"
                        [] <<cs, ct>> = <<"Marginal", "Marginal">> /\ similar -> "Impaired"
                        [] OTHER -> "NeedsThird"
    BY DEF assessYoutubeBaseline
  <2> HIDE DEF cs, ct, similar
  <2>2. \/ cs = "Clean" /\ ct = "Clean" /\ b.decision = "Clean"
        \/ cs = "Marginal" /\ ct = "Marginal" /\ b.decision = "Impaired"
    BY <2>1
  <2>. QED
    BY <2>2 DEF cs, ct
<1>4. youtubeTransportAccepted(r, b)
  <2>1. CASE b.decision = "Clean"
    <3>1. classifyYoutubeProbeTransport(r) = "Clean"
      <4> HIDE DEF r
      <4>. QED
        BY <1>2, <1>3, <2>1 DEF classifyYoutubeProbeTransport, Metrics
    <3>. QED
      BY <3>1 DEF youtubeTransportAccepted
  <2>2. CASE b.decision = "Impaired"
    <3>1. classifyYoutubeProbeTransport(r) # "Hard"
      <4> HIDE DEF r
      <4>. QED
        BY <1>2, <1>3 DEF classifyYoutubeProbeTransport, Metrics
    <3>2. ~Worse(r, b.reference, 100, 1000, 500)
      <4> HIDE DEF r
      <4>. QED
        BY <1>1, <1>2 DEF Worse
    <3>. QED
      BY <2>2, <3>1, <3>2 DEF youtubeTransportAccepted
  <2>. QED
    BY <1>3, <2>1, <2>2
<1> HIDE DEF r
<1>5. youtubeThroughputAtTarget(r)
  BY <1>1, <1>4 DEF classifyYoutubeProbeLoad
<1>. QED
  BY <1>2, <1>5 DEF youtubeThroughputAtTarget, Metrics

LEMMA MedianIsBelow ==
    ASSUME NEW a \in Int, NEW b \in Int, NEW c \in Int
    PROVE  /\ medianOfThree(a, b, c) \in Int
           /\ medianOfThree(a, b, c) \in {a, b, c}
BY DEF medianOfThree, min, max

LEMMA ThreeSettle ==
    ASSUME NEW m \in [1..3 -> Metrics], NEW b, b = resolveYoutubeBaseline(m), b.decision # "Unstable",
           classifyYoutubeProbeLoad(b.reference, b) # "SourceUnderfill"
    PROVE  \E i \in 1..3 : youtubeThroughputAtTarget(m[i])
<1> DEFINE r == medianReference(m[1], m[2], m[3])
<1>1. b.reference = r
  BY DEF resolveYoutubeBaseline
<1>2. /\ r.drop \in Int /\ r.high \in Int /\ r.severe \in Int
      /\ r.throughput \in {m[1].throughput, m[2].throughput, m[3].throughput}
  <2>1. \A i \in 1..3 : m[i].drop \in Int /\ m[i].high \in Int /\ m[i].severe \in Int
                        /\ m[i].throughput \in Int
    BY DEF Metrics
  <2>2. /\ r.drop = medianOfThree(m[1].drop, m[2].drop, m[3].drop)
        /\ r.high = medianOfThree(m[1].high, m[2].high, m[3].high)
        /\ r.severe = medianOfThree(m[1].severe, m[2].severe, m[3].severe)
        /\ r.throughput = medianOfThree(m[1].throughput, m[2].throughput, m[3].throughput)
    BY DEF medianReference
  <2> HIDE DEF r
  <2>3. r.drop \in Int
    <3>1. m[1].drop \in Int /\ m[2].drop \in Int /\ m[3].drop \in Int
      BY <2>1
    <3>. QED
      BY <2>2, <3>1, MedianIsBelow
  <2>4. r.high \in Int
    <3>1. m[1].high \in Int /\ m[2].high \in Int /\ m[3].high \in Int
      BY <2>1
    <3>. QED
      BY <2>2, <3>1, MedianIsBelow
  <2>5. r.severe \in Int
    <3>1. m[1].severe \in Int /\ m[2].severe \in Int /\ m[3].severe \in Int
      BY <2>1
    <3>. QED
      BY <2>2, <3>1, MedianIsBelow
  <2>6. r.throughput \in {m[1].throughput, m[2].throughput, m[3].throughput}
    <3>1. m[1].throughput \in Int /\ m[2].throughput \in Int /\ m[3].throughput \in Int
      BY <2>1
    <3>. QED
      BY <2>2, <3>1, MedianIsBelow
  <2>. QED
    BY <2>3, <2>4, <2>5, <2>6
<1>3. /\ classifyYoutubeProbeTransport(r) # "Hard"
      /\ b.decision = IF classifyYoutubeProbeTransport(r) = "Clean" THEN "Clean" ELSE "Impaired"
  <2> HIDE DEF r
  <2>. QED
    BY DEF resolveYoutubeBaseline, r
<1> HIDE DEF r
<1>4. ~Worse(r, b.reference, 100, 1000, 500)
  BY <1>1, <1>2 DEF Worse
<1>5. youtubeTransportAccepted(r, b)
  BY <1>3, <1>4 DEF youtubeTransportAccepted
<1>6. youtubeThroughputAtTarget(r)
  BY <1>1, <1>5 DEF classifyYoutubeProbeLoad
<1>. QED
  BY <1>2, <1>6 DEF youtubeThroughputAtTarget

\* Two or three samples decide the baseline, or a third is measured.
LEMMA AssessBaselineKeeps ==
    ASSUME RampAssumption, RampInv, UNCHANGED fixed, assessBaseline
    PROVE  RampInv'
<1>1. phase = "assess" /\ UNCHANGED <<index, first, history>>
  BY DEF assessBaseline, episodeVars
<1>2. /\ samples \in Seq(Measurements) /\ Len(samples) \in {2, 3}
      /\ \A i \in 1..Len(samples) : CarriedBefore(samples[i], baselineTarget)
  BY <1>1 DEF RampInv, BaselineIsMeasured
<1>3. baselineTarget \in Int /\ UNCHANGED <<baselineTarget, plannedTargets, plannedTarget>>
  BY <1>1, PlannedType, PlannedKept DEF RampInv, fixed
<1>4. \A i \in 1..Len(samples) : samples[i] \in Measurements
  BY <1>2
<1> DEFINE two == assessYoutubeBaseline(samples[1].metrics, samples[2].metrics)
           all == [i \in 1..3 |-> samples[i].metrics]
           three == resolveYoutubeBaseline(all)
<1>5. CASE two.decision # "NeedsThird" /\ Len(samples) = 2 /\ settleBaseline(two)
  <2> DEFINE basis == min(samples[1].measured, samples[2].measured)
  <2>1. samples[1] \in Measurements /\ samples[2] \in Measurements
    BY <1>4, <1>5
  <2>2. basis \in Int /\ min(basis, baselineTarget) <= supported
    <3>1. samples[1].measured \in Int /\ samples[2].measured \in Int
          /\ min(samples[1].measured, baselineTarget) <= supported
      BY <1>2, <1>5, <2>1 DEF Measurements, CarriedBefore
    <3>. QED
      BY <1>3, <3>1 DEF min, RampInv, RampTypes
  <2>3. two.decision # "Unstable" /\ classifyYoutubeProbeLoad(two.reference, two) # "SourceUnderfill"
          => baselineTarget <= supported
    <3>1. samples[1].metrics \in Metrics /\ samples[2].metrics \in Metrics
      BY <2>1 DEF Measurements
    <3>2. CarriedBefore(samples[1], baselineTarget)
      BY <1>2, <1>5
    <3> HIDE DEF two
    <3>. QED
      BY <1>5, <3>1, <3>2, TwoSettle DEF CarriedBefore, two
  <2> HIDE DEF two
  <2>. QED
    BY <1>1, <1>5, <2>2, <2>3, SettleKeeps
<1>6. ASSUME Len(samples) = 3,
             \/ two.decision # "NeedsThird" /\ settleBaseline(two)
             \/ settleBaseline(three)
      PROVE  RampInv'
  <2>1. samples[1] \in Measurements /\ samples[2] \in Measurements /\ samples[3] \in Measurements
    BY <1>4, <1>6
  <2> DEFINE basis == medianOfThree(samples[1].measured, samples[2].measured, samples[3].measured)
  <2>2. basis \in Int /\ min(basis, baselineTarget) <= supported
    <3>1. \A i \in 1..3 : samples[i].measured \in Int /\ min(samples[i].measured, baselineTarget) <= supported
      BY <1>2, <1>6, <2>1 DEF Measurements, CarriedBefore
    <3>2. basis \in Int /\ \E i \in 1..3 : basis = samples[i].measured
      <4>1. samples[1].measured \in Int /\ samples[2].measured \in Int /\ samples[3].measured \in Int
        BY <3>1
      <4>2. basis \in Int /\ basis \in {samples[1].measured, samples[2].measured, samples[3].measured}
        BY <4>1, MedianIsBelow
      <4>. QED
        BY <4>2
    <3> HIDE DEF basis
    <3>. QED
      BY <3>1, <3>2
  <2>3. PICK b : settleBaseline(b) /\ (b = three \/ (b = two /\ two.decision # "NeedsThird"))
    BY <1>6
  <2>4. b.decision # "Unstable" /\ classifyYoutubeProbeLoad(b.reference, b) # "SourceUnderfill"
          => baselineTarget <= supported
    <3>1. all \in [1..3 -> Metrics] /\ samples[1].metrics \in Metrics /\ samples[2].metrics \in Metrics
      BY <2>1 DEF Measurements
    <3>2. \A i \in 1..3 : CarriedBefore(samples[i], baselineTarget) /\ all[i] = samples[i].metrics
      BY <1>2, <1>6
    <3>3. CASE b = two /\ two.decision # "NeedsThird"
      <4> HIDE DEF two
      <4>. QED
        BY <2>3, <3>1, <3>2, <3>3, TwoSettle DEF CarriedBefore, two
    <3>4. CASE b = three
      <4> HIDE DEF all, three
      <4>. QED
        BY <3>1, <3>2, <3>4, ThreeSettle DEF CarriedBefore, three
    <3>. QED
      BY <2>3, <3>3, <3>4
  <2> HIDE DEF two, three, basis
  <2>. QED
    BY <1>1, <1>6, <2>2, <2>3, <2>4, SettleKeeps DEF basis
<1>7. CASE Len(samples) = 2 /\ UNCHANGED verdictVars
           /\ \/ goto("baseline") /\ samples' = samples
              \/ finish("baseline_confirmation_budget_exhausted")
  <2>1. /\ phase' \in {"baseline", "summary"} /\ (phase' = "baseline" => samples' = samples)
        /\ phase' \in Phases /\ ~result'.success
        /\ result' \in [success : BOOLEAN, safeKbps : Int, errorCode : ErrorCodes]
    <3>1. CASE goto("baseline") /\ samples' = samples
      BY <1>1, <3>1, GotoMoves DEF Phases
    <3>2. CASE finish("baseline_confirmation_budget_exhausted")
      BY <1>1, <3>2, FinishMoves DEF ErrorCodes
    <3>. QED
      BY <1>7, <3>1, <3>2
  <2>2. RampTypes'
    BY <1>1, <1>3, <1>7, <2>1 DEF RampInv, RampTypes, fixed, verdictVars, history
  <2>3. BaselineIsMeasured'
    <3>1. CASE phase' = "baseline"
      <4>1. samples' = samples /\ supported' = supported /\ baselineTarget' = baselineTarget
        BY <1>1, <1>3, <2>1, <3>1 DEF history
      <4>2. \A i \in 1..Len(samples') : CarriedBefore(samples[i], baselineTarget)'
        BY <1>2, <4>1 DEF CarriedBefore
      <4>3. samples' \in Seq(Measurements) /\ Len(samples') <= 2
        <5>1. Len(samples) = 2
          BY <1>7
        <5>. QED
          BY <1>2, <4>1, <5>1
      <4>. QED
        BY <3>1, <4>2, <4>3 DEF BaselineIsMeasured
    <3>2. CASE phase' = "summary"
      BY <3>2 DEF BaselineIsMeasured
    <3>. QED
      BY <2>1, <3>1, <3>2
  <2>. QED
    BY <1>1, <1>7, <2>1, <2>2, <2>3 DEF RampInv, ValidatedIsCarried, PressedOfRung, DecidedLast,
       UsableIsHeld, NoResultYet, RecommendsWhatHeld, verdictVars, history
<1> HIDE DEF two, three
<1>8. \/ two.decision # "NeedsThird" /\ settleBaseline(two)
      \/ Len(samples) = 3 /\ settleBaseline(three)
      \/ /\ Len(samples) = 2 /\ UNCHANGED verdictVars
         /\ \/ goto("baseline") /\ samples' = samples
            \/ finish("baseline_confirmation_budget_exhausted")
  BY Zenon DEF assessBaseline, two, three, all, goto
<1>9. two.decision # "NeedsThird" /\ settleBaseline(two) => RampInv'
  BY <1>2, <1>5, <1>6
<1>. QED
  BY <1>6, <1>7, <1>8, <1>9

\* The next rung is chosen, or the ladder ends.
LEMMA NextStepKeeps ==
    ASSUME RampAssumption, RampInv, UNCHANGED fixed, nextStep
    PROVE  RampInv'
<1>1. /\ phase = "step" /\ first' = 0
      /\ UNCHANGED <<lastAccepted, rampEvidence, supported, pressed>>
  BY DEF nextStep, history
<1>2. /\ index' \in DOMAIN plannedTargets
      /\ recommendationEvidenceUsable' \in BOOLEAN
      /\ \/ goto("high") /\ ~recommendationEvidenceUsable'
         \/ finish("none")
  <2>1. CASE index + 1 \in DOMAIN plannedTargets
    <3>1. PICK step : /\ index' = IF step = "Measure" THEN index + 1 ELSE index
                      /\ IF step = "Measure" THEN goto("high") ELSE finish("none")
                      /\ recommendationEvidenceUsable' = (step = "FinishValidated")
      BY <2>1 DEF nextStep
    <3>2. index' \in DOMAIN plannedTargets
      BY <2>1, <3>1 DEF RampInv, RampTypes
    <3>3. \/ goto("high") /\ ~recommendationEvidenceUsable'
          \/ finish("none")
      BY <3>1
    <3>. QED
      BY <3>1, <3>2, <3>3
  <2>2. CASE index + 1 \notin DOMAIN plannedTargets
    <3>1. finish("none") /\ UNCHANGED <<index, recommendationEvidenceUsable>>
      BY <2>2 DEF nextStep
    <3>. QED
      BY <3>1 DEF RampInv, RampTypes
  <2>. QED
    BY <2>1, <2>2
<1>3. UNCHANGED <<plannedTargets, baselineTarget>>
  BY PlannedKept DEF fixed
<1>4. /\ phase' \in Phases /\ ~result'.success
      /\ result' \in [success : BOOLEAN, safeKbps : Int, errorCode : ErrorCodes]
      /\ \/ phase' = "high" /\ ~recommendationEvidenceUsable'
         \/ phase' = "summary"
  BY <1>1, <1>2, GotoMoves, FinishMoves DEF Phases, ErrorCodes
<1>5. RampTypes'
  BY <1>1, <1>2, <1>3, <1>4 DEF RampInv, RampTypes, fixed
<1>. QED
  BY <1>1, <1>4, <1>5 DEF RampInv, BaselineIsMeasured, ValidatedIsCarried, PressedOfRung,
     DecidedLast, UsableIsHeld, NoResultYet, RecommendsWhatHeld

\* A rung that is accepted validates what its sample carried.
LEMMA AcceptKeeps ==
    ASSUME RampAssumption, RampInv, UNCHANGED <<fixed, index, first>>,
           phase \in {"high", "sustain"}, NEW s \in Observations(plannedTarget),
           observed(plannedTarget, s), ~Pressed(s), accept(s), pressed' = NoPressure
    PROVE  RampInv'
<1>1. /\ plannedTarget \in Int /\ s \in Measurements
      /\ UNCHANGED <<plannedTargets, plannedTarget, baselineTarget>>
  BY PlannedType, PlannedKept, ObservationType DEF RampInv, fixed
<1>2. /\ supported' \in Nat /\ supported <= supported'
      /\ min(s.measured, plannedTarget) <= supported'
      /\ youtubeThroughputAtTarget(s.metrics) => plannedTarget <= supported'
  BY <1>1, ObservedCarries DEF RampInv, RampTypes
<1>3. /\ rampEvidence' = IF Loads(s) = "SourceUnderfill"
                         THEN observeTransportCleanLowerBound(rampEvidence, s.measured, plannedTarget)
                         ELSE observeAcceptedTarget(plannedTarget)
      /\ lastAccepted'.target = plannedTarget
      /\ recommendationEvidenceUsable' \in BOOLEAN
      /\ finish("none") \/ goto("step")
  BY DEF accept
<1>4. s.measured \in Int
  BY <1>1 DEF Measurements
<1>5. /\ rampEvidence' \in [passedStep : BOOLEAN, validated : Int]
      /\ rampEvidence'.validated <= supported'
  <2>1. CASE Loads(s) = "SourceUnderfill"
    <3>1. /\ rampEvidence' \in [passedStep : BOOLEAN, validated : Int]
          /\ rampEvidence'.validated = max(rampEvidence.validated, min(s.measured, plannedTarget))
      <4> DEFINE m == s.measured
      <4>1. rampEvidence' = observeTransportCleanLowerBound(rampEvidence, m, plannedTarget)
        BY <1>3, <2>1
      <4>2. m \in Int
        BY <1>4
      <4>3. rampEvidence \in [passedStep : BOOLEAN, validated : Int]
        BY DEF RampInv, RampTypes
      <4> HIDE DEF m
      <4>4. /\ rampEvidence' \in [passedStep : BOOLEAN, validated : Int]
            /\ rampEvidence'.validated = max(rampEvidence.validated, min(m, plannedTarget))
        BY <1>1, <4>1, <4>2, <4>3, EvidenceType
      <4>. QED
        BY <4>4 DEF m
    <3>2. rampEvidence.validated \in Int /\ rampEvidence.validated <= supported /\ supported \in Nat
      BY DEF RampInv, RampTypes, ValidatedIsCarried
    <3>. QED
      BY <1>2, <3>1, <3>2 DEF max
  <2>2. CASE Loads(s) # "SourceUnderfill"
    <3>1. /\ rampEvidence' \in [passedStep : BOOLEAN, validated : Int]
          /\ rampEvidence'.validated = plannedTarget
      BY <1>1, <1>3, <1>4, <2>2, EvidenceType DEF RampInv, RampTypes
    <3>2. youtubeThroughputAtTarget(s.metrics)
      BY <2>2, LoadIsThroughput
    <3>. QED
      BY <1>2, <3>1, <3>2
  <2>. QED
    BY <2>1, <2>2
<1>6. /\ phase' \in {"summary", "step"} /\ phase' \in Phases /\ ~result'.success
      /\ result' \in [success : BOOLEAN, safeKbps : Int, errorCode : ErrorCodes]
  BY <1>3, GotoMoves, FinishMoves DEF Phases, ErrorCodes
<1>7. RampTypes'
  BY <1>1, <1>2, <1>3, <1>5, <1>6 DEF RampInv, RampTypes, fixed, NoPressure
<1>. QED
  BY <1>5, <1>6, <1>7 DEF RampInv, BaselineIsMeasured, ValidatedIsCarried, PressedOfRung,
     DecidedLast, UsableIsHeld, NoResultYet, RecommendsWhatHeld

\* A confirmed capacity is what the rung delivered under pressure.
LEMMA CapacityKeeps ==
    ASSUME RampAssumption, RampInv, UNCHANGED <<fixed, index, first>>,
           phase \in {"retry", "sustain"}, NEW s \in Observations(plannedTarget),
           observed(plannedTarget, s), NEW measured \in Int, confirmCapacity(measured),
           measured <= s.measured, pressed' = min(measured, plannedTarget)
    PROVE  RampInv'
<1>1. /\ plannedTarget \in Int /\ s \in Measurements
      /\ UNCHANGED <<plannedTargets, plannedTarget, baselineTarget>>
  BY PlannedType, PlannedKept, ObservationType DEF RampInv, fixed
<1>2. /\ supported' \in Nat /\ min(s.measured, plannedTarget) <= supported' /\ s.measured \in Int
  BY <1>1, ObservedCarries DEF RampInv, RampTypes, Measurements
<1>3. /\ rampEvidence' = observeConfirmedCapacity(measured, plannedTarget)
      /\ recommendationEvidenceUsable' = TRUE /\ finish("none") /\ UNCHANGED lastAccepted
  BY DEF confirmCapacity
<1>4. /\ rampEvidence' \in [passedStep : BOOLEAN, validated : Int]
      /\ rampEvidence'.validated = min(measured, plannedTarget)
  BY <1>1, <1>3, EvidenceType DEF RampInv, RampTypes
<1>5. min(measured, plannedTarget) \in Int /\ min(measured, plannedTarget) <= supported'
  BY <1>1, <1>2 DEF min
<1>6. /\ phase' = "summary" /\ phase' \in Phases /\ ~result'.success
      /\ result' \in [success : BOOLEAN, safeKbps : Int, errorCode : ErrorCodes]
  BY <1>3, FinishMoves DEF Phases, ErrorCodes
<1>7. RampTypes'
  BY <1>1, <1>2, <1>3, <1>4, <1>5, <1>6 DEF RampInv, RampTypes, fixed
<1>. QED
  BY <1>4, <1>5, <1>6, <1>7 DEF RampInv, BaselineIsMeasured, ValidatedIsCarried, PressedOfRung,
     DecidedLast, UsableIsHeld, NoResultYet, RecommendsWhatHeld

\* A sample that decides nothing yet, or ends a test that recommends nothing.
LEMMA UndecidedKeeps ==
    ASSUME RampAssumption, RampInv, UNCHANGED <<fixed, index, verdictVars>>,
           phase \in {"high", "low", "retry"}, NEW target \in Int, NEW s \in Observations(target),
           observed(target, s), first' \in Int, pressed' \in Int,
           \/ \E to \in {"drain", "retry", "sustain"} : goto(to)
           \/ \E e \in ErrorCodes : finish(e),
           phase' \in {"drain", "low", "retry"} => pressed' = min(first', plannedTarget)
    PROVE  RampInv'
<1>1. /\ s \in Measurements
      /\ UNCHANGED <<plannedTargets, plannedTarget, baselineTarget>>
  BY PlannedKept, ObservationType DEF RampInv, fixed
<1>2. supported' \in Nat /\ supported <= supported'
  BY <1>1, ObservedCarries DEF RampInv, RampTypes
<1>3. /\ phase' \in {"drain", "retry", "sustain", "summary"} /\ phase' \in Phases /\ ~result'.success
      /\ result' \in [success : BOOLEAN, safeKbps : Int, errorCode : ErrorCodes]
  <2>1. CASE \E to \in {"drain", "retry", "sustain"} : goto(to)
    BY <2>1, GotoMoves DEF Phases
  <2>2. CASE \E e \in ErrorCodes : finish(e)
    BY <2>2, FinishMoves
  <2>. QED
    BY <2>1, <2>2
<1>4. RampTypes'
  BY <1>1, <1>2, <1>3 DEF RampInv, RampTypes, fixed, verdictVars
<1>5. ValidatedIsCarried'
  BY <1>2 DEF RampInv, RampTypes, ValidatedIsCarried, verdictVars
<1>6. ~recommendationEvidenceUsable'
  BY DEF RampInv, DecidedLast, verdictVars
<1>. QED
  BY <1>1, <1>3, <1>4, <1>5, <1>6 DEF RampInv, BaselineIsMeasured, PressedOfRung,
     DecidedLast, UsableIsHeld, NoResultYet, RecommendsWhatHeld

LEMMA MeasureHighKeeps ==
    ASSUME RampAssumption, RampInv, UNCHANGED fixed, measureHigh
    PROVE  RampInv'
<1>1. phase = "high" /\ plannedTarget \in Int /\ pressed = NoPressure
  BY PlannedType DEF measureHigh, RampInv, PressedOfRung
<1>2. CASE \E ms : sampleFails(plannedTarget, ms)
  BY <1>1, <1>2, SampleFailsKeeps
<1>3. ASSUME NEW s \in Observations(plannedTarget), observed(plannedTarget, s), UNCHANGED ladderVars,
             \/ ~Pressed(s) /\ accept(s) /\ UNCHANGED <<confirmationEpisodes, first, stability, pressed>>
             \/ /\ Pressed(s) /\ confirmLater
                /\ first' = s.measured
                /\ pressed' = min(s.measured, plannedTarget)
                /\ UNCHANGED verdictVars
      PROVE  RampInv'
  <2>1. CASE ~Pressed(s) /\ accept(s) /\ UNCHANGED <<first, pressed>>
    BY <1>1, <1>3, <2>1, AcceptKeeps DEF ladderVars
  <2>2. CASE /\ confirmLater /\ first' = s.measured
             /\ pressed' = min(s.measured, plannedTarget) /\ UNCHANGED verdictVars
    <3>1. s.measured \in Int /\ UNCHANGED <<index, plannedTarget>>
      BY <1>1, <1>3, ObservationType, PlannedKept DEF Measurements, ladderVars, fixed
    <3>2. goto("drain") \/ finish("unstable_connection") \/ finish("none")
      BY <2>2 DEF confirmLater
    <3>3. first' \in Int /\ pressed' \in Int /\ pressed' = min(first', plannedTarget)
      BY <1>1, <2>2, <3>1 DEF min
    <3>. QED
      BY <1>1, <1>3, <2>2, <3>1, <3>2, <3>3, UndecidedKeeps DEF ErrorCodes
  <2>. QED
    BY <1>3, <2>1, <2>2
<1>. QED
  BY <1>2, <1>3 DEF measureHigh

LEMMA MeasureLowKeeps ==
    ASSUME RampAssumption, RampInv, UNCHANGED fixed, measureLow
    PROVE  RampInv'
<1>1. phase = "low" /\ lastAccepted.target \in Int /\ pressed = min(first, plannedTarget)
      /\ first \in Int /\ pressed \in Int
  BY DEF measureLow, RampInv, RampTypes, PressedOfRung
<1>2. CASE sampleFails(lastAccepted.target, kYoutubeProbeSampleMs)
  BY <1>1, <1>2, SampleFailsKeeps
<1>3. ASSUME NEW s \in Observations(lastAccepted.target), observed(lastAccepted.target, s),
             goto("retry"), UNCHANGED <<ladderVars, verdictVars, first, pressed>>
      PROVE  RampInv'
  <2>1. UNCHANGED <<index, plannedTarget>>
    BY <1>3, PlannedKept DEF ladderVars, fixed
  <2>. QED
    BY <1>1, <1>3, <2>1, UndecidedKeeps
<1>. QED
  BY <1>2, <1>3 DEF measureLow

LEMMA RetryHighKeeps ==
    ASSUME RampAssumption, RampInv, UNCHANGED fixed, retryHigh
    PROVE  RampInv'
<1>1. phase = "retry" /\ plannedTarget \in Int /\ pressed = min(first, plannedTarget)
      /\ first \in Int /\ pressed \in Int
  BY PlannedType DEF retryHigh, RampInv, RampTypes, PressedOfRung
<1>2. CASE sampleFails(plannedTarget, kYoutubeProbeSampleMs)
  BY <1>1, <1>2, SampleFailsKeeps
<1>3. ASSUME NEW s \in Observations(plannedTarget), confirm(s), observed(plannedTarget, s),
             pressed' = IF Pressed(s) THEN min(pressed, s.measured) ELSE pressed,
             UNCHANGED <<ladderVars, episodeVars>>
      PROVE  RampInv'
  <2>1. s.measured \in Int /\ UNCHANGED <<index, first, plannedTarget>>
    BY <1>1, <1>3, ObservationType, PlannedKept DEF Measurements, ladderVars, episodeVars, fixed
  <2>2. CASE /\ Pressed(s)
             /\ confirmCapacity(youtubeConfirmedPressureCapacityKbps(first, s.measured, plannedTarget))
    <3> DEFINE measured == youtubeConfirmedPressureCapacityKbps(first, s.measured, plannedTarget)
    <3>1. /\ measured \in Int /\ measured <= s.measured
          /\ min(pressed, s.measured) = min(measured, plannedTarget)
      BY <1>1, <2>1 DEF youtubeConfirmedPressureCapacityKbps, min
    <3> HIDE DEF measured
    <3>. QED
      BY <1>1, <1>3, <2>1, <2>2, <3>1, CapacityKeeps DEF measured
  <2>3. CASE /\ goto("sustain") \/ finish("unstable_connection")
             /\ UNCHANGED verdictVars
    <3>1. pressed' \in Int
      BY <1>1, <1>3, <2>1 DEF min
    <3>2. phase' \in {"sustain", "summary"}
      BY <2>3 DEF goto, finish
    <3>. QED
      BY <1>1, <1>3, <2>1, <2>3, <3>1, <3>2, UndecidedKeeps DEF ErrorCodes
  <2>4. decideYoutubeConfirmation(lowRecovered, ~Pressed(s)) = "CapacityKnee" => Pressed(s)
    BY DEF decideYoutubeConfirmation
  <2>. QED
    BY <1>3, <2>2, <2>3, <2>4 DEF confirm
<1>. QED
  BY <1>2, <1>3 DEF retryHigh

LEMMA SustainHighKeeps ==
    ASSUME RampAssumption, RampInv, UNCHANGED fixed, sustainHigh
    PROVE  RampInv'
<1>1. phase = "sustain" /\ plannedTarget \in Int
  BY PlannedType DEF sustainHigh, RampInv
<1>2. CASE sampleFails(plannedTarget, kYoutubeProbeSustainedSampleMs)
  BY <1>1, <1>2, SampleFailsKeeps
<1>3. ASSUME NEW s \in Observations(plannedTarget), observed(plannedTarget, s),
             \/ Pressed(s) /\ confirmCapacity(s.measured)
             \/ ~Pressed(s) /\ accept(s),
             pressed' = IF Pressed(s) THEN min(s.measured, plannedTarget) ELSE NoPressure,
             UNCHANGED <<ladderVars, episodeVars>>
      PROVE  RampInv'
  <2>1. s.measured \in Int /\ UNCHANGED <<index, first>>
    BY <1>1, <1>3, ObservationType DEF Measurements, ladderVars, episodeVars
  <2>2. CASE Pressed(s) /\ confirmCapacity(s.measured)
    BY <1>1, <1>3, <2>1, <2>2, CapacityKeeps
  <2>3. CASE ~Pressed(s) /\ accept(s)
    BY <1>1, <1>3, <2>1, <2>3, AcceptKeeps
  <2>. QED
    BY <1>3, <2>2, <2>3
<1>. QED
  BY <1>2, <1>3 DEF sustainHigh

\* The result that is drawn.
LEMMA SummaryKeeps ==
    ASSUME RampAssumption, RampInv, UNCHANGED fixed, Summary
    PROVE  RampInv'
<1>1. /\ phase = "summary" /\ phase' = "done"
      /\ UNCHANGED <<index, verdictVars, first, history>>
  BY DEF Summary, ladderVars, episodeVars
<1>2. UNCHANGED <<plannedTargets, plannedTarget, baselineTarget>>
  BY <1>1, PlannedKept DEF fixed
<1> DEFINE safe == effectiveProbeCeilingKbps(rampEvidence.validated, workload.platformCap)
<1>3. safe \in Int /\ safe <= rampEvidence.validated
  BY DEF effectiveProbeCeilingKbps, min, RampAssumption, RampInv, RampTypes
<1> HIDE DEF safe
<1>4. CASE /\ recommendationEvidenceUsable
           /\ result' = [result EXCEPT !.success = (safe > 0), !.safeKbps = safe]
  <2>1. /\ result' \in [success : BOOLEAN, safeKbps : Int, errorCode : ErrorCodes]
        /\ result'.success => safe > 0
        /\ result'.safeKbps = safe
    <3> DEFINE ok == safe > 0
    <3>1. ok \in BOOLEAN
      OBVIOUS
    <3>2. result' = [result EXCEPT !.success = ok, !.safeKbps = safe]
      BY <1>4
    <3> HIDE DEF ok
    <3>3. result \in [success : BOOLEAN, safeKbps : Int, errorCode : ErrorCodes]
      BY DEF RampInv, RampTypes
    <3>4. /\ result' \in [success : BOOLEAN, safeKbps : Int, errorCode : ErrorCodes]
          /\ result'.success = ok /\ result'.safeKbps = safe
      BY <1>3, <3>1, <3>2, <3>3
    <3>. QED
      BY <3>4 DEF ok
  <2>2. RampTypes'
    BY <1>1, <1>2, <2>1 DEF RampInv, RampTypes, fixed, verdictVars, history, Phases
  <2>3. RecommendsWhatHeld'
    <3>1. /\ supported' = supported /\ pressed' = pressed /\ supported \in Nat
          /\ rampEvidence.validated \in Int /\ rampEvidence.validated <= supported
          /\ pressed \in Int
          /\ pressed # NoPressure => rampEvidence.validated <= pressed
      BY <1>1, <1>4 DEF RampInv, RampTypes, ValidatedIsCarried, UsableIsHeld, history
    <3>2. result'.success => result'.safeKbps \in 1..supported
      BY <1>3, <2>1, <3>1
    <3>3. pressed # NoPressure => result'.safeKbps <= pressed
      BY <1>3, <2>1, <3>1
    <3>. QED
      BY <3>1, <3>2, <3>3 DEF RecommendsWhatHeld
  <2>. QED
    BY <1>1, <2>2, <2>3 DEF RampInv, BaselineIsMeasured, ValidatedIsCarried, PressedOfRung,
       DecidedLast, UsableIsHeld, NoResultYet, verdictVars, history
<1>5. CASE \E e \in ErrorCodes : result' = [result EXCEPT !.errorCode = e]
  BY <1>1, <1>5, FailKeeps DEF fail
<1>. QED
  <2>1. result.errorCode \in ErrorCodes
    BY DEF RampInv, RampTypes
  <2>2. \/ /\ recommendationEvidenceUsable
           /\ result' = [result EXCEPT !.success = (safe > 0), !.safeKbps = safe]
        \/ \E e \in {result.errorCode, "inconclusive", "no_passing_step"} :
              result' = [result EXCEPT !.errorCode = e]
    BY DEF Summary, safe
  <2>. QED
    BY <1>4, <1>5, <2>1, <2>2 DEF ErrorCodes

LEMMA RampStep ==
    ASSUME RampAssumption, RampInv, [Next]_vars
    PROVE  RampInv'
<1>1. CASE Next
  BY <1>1, BeginKeeps, MeasureBaselineKeeps, AssessBaselineKeeps, NextStepKeeps, MeasureHighKeeps,
     RecoveryDrainKeeps, MeasureLowKeeps, RetryHighKeeps, SustainHighKeeps, SummaryKeeps DEF Next
<1>2. CASE UNCHANGED vars
  <2>1. /\ UNCHANGED <<workload, share, phase, index, samples, lastAccepted, rampEvidence>>
        /\ UNCHANGED <<recommendationEvidenceUsable, first, result, supported, pressed>>
    BY <1>2 DEF vars, fixed, ladderVars, verdictVars, episodeVars, history
  <2>2. UNCHANGED <<plannedTargets, plannedTarget, baselineTarget>>
    BY <2>1, PlannedKept
  <2>. QED
    BY <2>1, <2>2 DEF RampInv, RampTypes, BaselineIsMeasured, CarriedBefore, ValidatedIsCarried,
       PressedOfRung, DecidedLast, UsableIsHeld, NoResultYet, RecommendsWhatHeld
<1>. QED
  BY <1>1, <1>2

(* The bandwidth test recommends only what a sample carried, and no more     *)
(* than an unresolved rung delivered, for any workload, path and timing.     *)
THEOREM RecommendsHeld ==
    ASSUME RampAssumption
    PROVE  Spec => []RecommendsWhatHeld
<1>1. Init => RampInv
  BY RampInit
<1>2. RampInv /\ [Next]_vars => RampInv'
  BY RampStep
<1>3. RampInv => RecommendsWhatHeld
  BY DEF RampInv
<1>. QED
  BY <1>1, <1>2, <1>3, PTL DEF Spec
=============================================================================
