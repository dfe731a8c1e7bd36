---------------------------- MODULE OutputObjects ----------------------------
(***************************************************************************)
(* The JavaScript objects of outputs and of what outputs borrow            *)
(* (obs-studio-client: streaming.cpp, recording.cpp, replay-buffer.cpp,    *)
(* service.cpp, delay.cpp, reconnect.cpp, network.cpp and the encoders).   *)
(*                                                                         *)
(* A wrapper names an object of the server by its id.  A setter hands the  *)
(* server the id of another wrapper, the server keeps a plain pointer, and *)
(* the wrapper keeps a reference so that the garbage collector spares what *)
(* the server points at.  The collector tells the server to free the       *)
(* object of a wrapper that nothing refers to.  A server that is started   *)
(* again counts its ids from 0, while wrappers of the old one still wait   *)
(* for the collector.                                                      *)
(*                                                                         *)
(* Assumed of the frontend: it hands a setter an object of the class the   *)
(* setter is for, and calls methods only on wrappers of the present        *)
(* connection.                                                             *)
(***************************************************************************)
EXTENDS Integers

CONSTANTS
    Wrappers,   \* JavaScript objects; each is made once at most
    Casts,      \* the classes that the wrappers of a behaviour have
    Watched,    \* the fields whose values are followed
    FieldValues,
    MaxEpoch    \* bound: the connections and disconnections that are counted

VARIABLES
    cast,       \* the class of each wrapper
    linked,     \* there is a connection
    epoch,      \* Controller::m_connectionEpoch
    stage,      \* "none", "held" by a script, "dropped" by it, or "finalised"
    uid,        \* the id that a wrapper holds
    madeIn,     \* connectionEpoch: the connection it was made in
    shown,      \* references from wrapper to wrapper, what getters give
    nextUid,    \* of each manager of the server
    living,     \* the objects that the managers know
    pointers,   \* what an object of the server points at, and as what
    fields,     \* field values of the server's objects that were set
    ended,      \* history: objects that the frontend released or destroyed
    wrote       \* history: field values that were last set through a wrapper

onServer == <<nextUid, living, pointers, fields>>
onClient == <<stage, uid, madeIn, shown>>
objectVars == <<cast, linked, epoch, onClient, onServer, ended, wrote>>

NoUid == -1 \* UINT64_MAX

-----------------------------------------------------------------------------
(* The classes: the manager that knows their objects, the fields that a     *)
(* script sets, what a setter borrows and from which class, and how an      *)
(* object ends: with its wrapper, by release(), or by the class's destroy() *)

delaySettings == {"enabled", "delaySec", "preserveDelay"}
Delay == [manager |-> "delay", sets |-> delaySettings, borrows |-> {}, ends |-> {"collected"}]
reconnectSettings == {"enabled", "retryDelay", "maxRetries"}
Reconnect == [manager |-> "reconnect", sets |-> reconnectSettings, borrows |-> {}, ends |-> {"collected"}]
networkSettings == {"bindIP", "enableDynamicBitrate", "enableOptimizations", "enableLowLatency"}
Network == [manager |-> "network", sets |-> networkSettings, borrows |-> {}, ends |-> {"collected"}]
\* update() hands the server a whole set of settings.
videoEncoderSettings == {"name", "settings"}
VideoEncoder == [manager |-> "videoEncoder", sets |-> videoEncoderSettings,
                 borrows |-> {}, ends |-> {"collected", "released"}]
audioEncoderSettings == {"name", "bitrate"}
AudioEncoder == [manager |-> "audioEncoder", sets |-> audioEncoderSettings,
                 borrows |-> {}, ends |-> {"collected", "released"}]
serviceSettings == {"settings"}
Service == [manager |-> "service", sets |-> serviceSettings, borrows |-> {}, ends |-> {"destroyed"}]

streamSettings == {"enforceServiceBitrate", "enableTwitchVOD"}
streamBorrows == {<<"service", "Service">>, <<"videoEncoder", "VideoEncoder">>, <<"delay", "Delay">>,
                  <<"reconnect", "Reconnect">>, <<"network", "Network">>}
simpleStreamSettings == streamSettings \cup {"useAdvanced", "customEncSettings"}
simpleStreamBorrows == streamBorrows \cup {<<"audioEncoder", "AudioEncoder">>}
rescaleSettings == {"rescaling", "rescaleFilter", "outputWidth", "outputHeight"}
advancedStreamSettings == streamSettings \cup rescaleSettings \cup {"audioTrack", "twitchTrack"}

SimpleStreaming == [manager |-> "streaming", sets |-> simpleStreamSettings,
                    borrows |-> simpleStreamBorrows, ends |-> {"destroyed"}]
AdvancedStreaming == [manager |-> "streaming", sets |-> advancedStreamSettings,
                      borrows |-> streamBorrows, ends |-> {"destroyed"}]
\* destroy() of these keeps the references, until the wrapper is collected.
EnhancedBroadcastingSimpleStreaming == [SimpleStreaming EXCEPT !.ends = {"destroyed", "keepsReferences"}]
EnhancedBroadcastingAdvancedStreaming == [AdvancedStreaming EXCEPT !.ends = {"destroyed", "keepsReferences"}]

fileSettings == {"path", "format", "fileFormat", "overwrite", "noSpace", "muxerSettings"}
nameSettings == {"prefix", "suffix"}
splitSettings == {"enableFileSplit", "splitType", "splitTime", "splitSize", "fileResetTimestamps"}
recordingSettings == fileSettings \cup nameSettings \cup splitSettings
simpleRecordingSettings == recordingSettings \cup {"quality", "lowCPU"}
SimpleRecording == [manager |-> "fileOutput", sets |-> simpleRecordingSettings,
    borrows |-> {<<"videoEncoder", "VideoEncoder">>, <<"audioEncoder", "AudioEncoder">>, <<"streaming", "SimpleStreaming">>},
    ends |-> {"destroyed"}]
advancedRecordingSettings ==
    recordingSettings \cup {"mixer", "rescaling", "outputWidth", "outputHeight", "useStreamEncoders"}
AdvancedRecording == [manager |-> "fileOutput", sets |-> advancedRecordingSettings,
    borrows |-> {<<"videoEncoder", "VideoEncoder">>, <<"streaming", "AdvancedStreaming">>},
    ends |-> {"destroyed"}]

replaySettings == fileSettings \cup nameSettings \cup {"duration", "usesStream"}
SimpleReplayBuffer == [manager |-> "fileOutput", sets |-> replaySettings,
    borrows |-> {<<"streaming", "SimpleStreaming">>, <<"recording", "SimpleRecording">>}, ends |-> {"destroyed"}]
AdvancedReplayBuffer == [manager |-> "fileOutput", sets |-> replaySettings \cup {"mixer"},
    borrows |-> {<<"streaming", "AdvancedStreaming">>, <<"recording", "AdvancedRecording">>}, ends |-> {"destroyed"}]

Class == [
    Delay |-> Delay, Reconnect |-> Reconnect, Network |-> Network, Service |-> Service,
    VideoEncoder |-> VideoEncoder, AudioEncoder |-> AudioEncoder,
    SimpleStreaming |-> SimpleStreaming, AdvancedStreaming |-> AdvancedStreaming,
    EnhancedBroadcastingSimpleStreaming |-> EnhancedBroadcastingSimpleStreaming,
    EnhancedBroadcastingAdvancedStreaming |-> EnhancedBroadcastingAdvancedStreaming,
    SimpleRecording |-> SimpleRecording, AdvancedRecording |-> AdvancedRecording,
    SimpleReplayBuffer |-> SimpleReplayBuffer, AdvancedReplayBuffer |-> AdvancedReplayBuffer]

Classes == DOMAIN Class
Managers == {Class[c].manager : c \in Classes}
ReplayBuffers == {"SimpleReplayBuffer", "AdvancedReplayBuffer"}
Recordings == {"SimpleRecording", "AdvancedRecording"}

ASSUME CastsAssumption == Casts \subseteq [Wrappers -> Classes]

-----------------------------------------------------------------------------
ObjectOf(w) == <<Class[cast[w]].manager, uid[w]>>

\* A replay buffer keeps one reference for its stream or its recording.
reference(c, slot) == IF c \in ReplayBuffers THEN "parentOutput" ELSE slot

\* A wrapper that the collector has not taken, of the present connection.
Wraps(w) == stage[w] \in {"held", "dropped"} /\ madeIn[w] = epoch
Usable(w) == linked /\ stage[w] = "held" /\ madeIn[w] = epoch

ObjectsInit ==
    /\ cast \in Casts
    /\ linked = TRUE /\ epoch = 1
    /\ stage = [w \in Wrappers |-> "none"]
    /\ uid = [w \in Wrappers |-> NoUid]
    /\ madeIn = [w \in Wrappers |-> 0]
    /\ shown = {}
    /\ nextUid = [m \in Managers |-> 0]
    /\ living = {} /\ pointers = {} /\ fields = {}
    /\ ended = {} /\ wrote = {}

\* The managers never give an id twice: to free an object does not free its id.
allocate(m) == nextUid[m]

\* create(), or createPrivate() of a service.
Make(w) ==
    LET m == Class[cast[w]].manager IN
    /\ linked /\ stage[w] = "none"
    /\ stage' = [stage EXCEPT ![w] = "held"]
    /\ uid' = [uid EXCEPT ![w] = allocate(m)]
    /\ madeIn' = [madeIn EXCEPT ![w] = epoch]
    /\ nextUid' = [nextUid EXCEPT ![m] = @ + 1]
    /\ living' = living \cup {<<m, allocate(m)>>}
    /\ UNCHANGED <<cast, linked, epoch, shown, pointers, fields, ended, wrote>>

Put(values, x, f, v) == {e \in values : e[1] # x \/ e[2] # f} \cup {<<x, f, v>>}

\* The setter of a field; a call for an object the server does not know changes
\* nothing.
SetField(w, f, v) ==
    /\ Usable(w) /\ f \in Class[cast[w]].sets \cap Watched
    /\ ObjectOf(w) \in living
    /\ fields' = Put(fields, ObjectOf(w), f, v)
    /\ wrote' = Put(wrote, w, f, v)
    /\ UNCHANGED <<cast, linked, epoch, onClient, nextUid, living, pointers, ended>>

-----------------------------------------------------------------------------
(* What an output borrows *)

PointTo(h, slot, o) == {p \in pointers : p[1] # h \/ p[2] # slot} \cup {<<h, slot, o>>}
PointNowhere(h, slot) == {p \in pointers : p[1] # h \/ p[2] # slot}
Show(w, r, t) == {s \in shown : s[1] # w \/ s[2] # r} \cup {<<w, r, t>>}
ShowNothing(w, r) == {s \in shown : s[1] # w \/ s[2] # r}

\* The server looks both ids up; the id of a released encoder stands for
\* nothing.  A recording refuses an encoder that its format cannot take.
Found(w, t) == ObjectOf(w) \in living /\ (uid[t] # NoUid => ObjectOf(t) \in living)
Incompatible(w, slot) == cast[w] \in Recordings /\ slot = "videoEncoder"

Borrow(w, slot, t) ==
    /\ Usable(w) /\ Usable(t) /\ <<slot, cast[t]>> \in Class[cast[w]].borrows
    /\ Found(w, t)
    /\ pointers' = IF uid[t] # NoUid THEN PointTo(ObjectOf(w), slot, ObjectOf(t)) ELSE PointNowhere(ObjectOf(w), slot)
    /\ shown' = Show(w, reference(cast[w], slot), t)
    /\ UNCHANGED <<cast, linked, epoch, stage, uid, madeIn, nextUid, living, fields, ended, wrote>>

\* The reference that is there is kept.
takesNew(w, slot, t) == Show(w, reference(cast[w], slot), t)
afterRefusal(w, slot, t) == shown
BorrowRefused(w, slot, t) ==
    /\ Usable(w) /\ Usable(t) /\ <<slot, cast[t]>> \in Class[cast[w]].borrows
    /\ Found(w, t) => Incompatible(w, slot)
    /\ shown' = afterRefusal(w, slot, t)
    /\ UNCHANGED <<cast, linked, epoch, stage, uid, madeIn, onServer, ended, wrote>>

\* An advanced replay buffer that is given no recording forgets its stream.
cleared(c, slot) == IF c = "AdvancedReplayBuffer" THEN "streaming" ELSE slot

Return(w, slot) ==
    /\ Usable(w) /\ \E c \in Classes : <<slot, c>> \in Class[cast[w]].borrows
    /\ shown' = ShowNothing(w, reference(cast[w], slot))
    /\ pointers' = PointNowhere(ObjectOf(w), cleared(cast[w], slot))
    /\ UNCHANGED <<cast, linked, epoch, stage, uid, madeIn, nextUid, living, fields, ended, wrote>>

-----------------------------------------------------------------------------
(* How objects end *)

Unknown(o) ==
    /\ living' = living \ {o}
    /\ pointers' = {p \in pointers : p[1] # o}

\* release() of an encoder.
Release(w) ==
    /\ Usable(w) /\ "released" \in Class[cast[w]].ends /\ uid[w] # NoUid
    /\ Unknown(ObjectOf(w))
    /\ ended' = ended \cup {ObjectOf(w)}
    /\ uid' = [uid EXCEPT ![w] = NoUid]
    /\ UNCHANGED <<cast, linked, epoch, stage, madeIn, shown, nextUid, fields, wrote>>

ReleaseObjects(w) == {s \in shown : s[1] # w}

\* destroy() of the class.
Destroy(w) ==
    /\ Usable(w) /\ "destroyed" \in Class[cast[w]].ends
    /\ shown' = IF "keepsReferences" \in Class[cast[w]].ends THEN shown ELSE ReleaseObjects(w)
    /\ Unknown(ObjectOf(w))
    /\ ended' = ended \cup {ObjectOf(w)}
    /\ UNCHANGED <<cast, linked, epoch, stage, uid, madeIn, nextUid, fields, wrote>>

\* A script forgets a wrapper, or has it again from a getter.
Drop(w) ==
    /\ stage[w] = "held"
    /\ stage' = [stage EXCEPT ![w] = "dropped"]
    /\ UNCHANGED <<cast, linked, epoch, uid, madeIn, shown, onServer, ended, wrote>>

Get(w, t) ==
    /\ stage[w] = "held" /\ stage[t] = "dropped" /\ \E s \in shown : s[1] = w /\ s[3] = t
    /\ stage' = [stage EXCEPT ![t] = "held"]
    /\ UNCHANGED <<cast, linked, epoch, uid, madeIn, shown, onServer, ended, wrote>>

\* The collector takes what no script and no wrapper refers to.
anyDropped(w) == stage[w] = "dropped"
Collectable(w) == stage[w] = "dropped" /\ \A s \in shown : s[3] # w

\* What was made before the present connection is not the server's any more.
anyConnection(w) == linked
OfThisConnection(w) == linked /\ madeIn[w] = epoch

Finalize(w) ==
    /\ Collectable(w)
    /\ IF "collected" \in Class[cast[w]].ends /\ uid[w] # NoUid /\ OfThisConnection(w)
       THEN Unknown(ObjectOf(w))
       ELSE UNCHANGED <<living, pointers>>
    /\ stage' = [stage EXCEPT ![w] = "finalised"]
    /\ shown' = ReleaseObjects(w)
    /\ uid' = [uid EXCEPT ![w] = IF "collected" \in Class[cast[w]].ends THEN NoUid ELSE @]
    /\ UNCHANGED <<cast, linked, epoch, madeIn, nextUid, fields, ended, wrote>>

-----------------------------------------------------------------------------
(* The connection *)

\* A server that this process started ends with the connection.
disconnect(serverEnds) ==
    /\ linked /\ epoch < MaxEpoch
    /\ linked' = FALSE /\ epoch' = epoch + 1
    /\ IF serverEnds
       THEN /\ nextUid' = [m \in Managers |-> 0]
            /\ living' = {} /\ pointers' = {} /\ fields' = {} /\ ended' = {}
       ELSE UNCHANGED <<onServer, ended>>
    /\ UNCHANGED <<cast, onClient, wrote>>

connect ==
    /\ ~linked /\ epoch < MaxEpoch
    /\ linked' = TRUE /\ epoch' = epoch + 1
    /\ UNCHANGED <<cast, onClient, onServer, ended, wrote>>

Slots == {b[1] : b \in UNION {Class[c].borrows : c \in Classes}}

ObjectsNext ==
    \/ \E w \in Wrappers :
        \/ Make(w) \/ Release(w) \/ Destroy(w) \/ Drop(w) \/ Finalize(w)
        \/ \E f \in Watched, v \in FieldValues : SetField(w, f, v)
        \/ \E t \in Wrappers, slot \in Slots : Borrow(w, slot, t) \/ BorrowRefused(w, slot, t)
        \/ \E slot \in Slots : Return(w, slot)
        \/ \E t \in Wrappers : Get(w, t)
    \/ \E serverEnds \in BOOLEAN : disconnect(serverEnds)
    \/ connect

ObjectsSpec == ObjectsInit /\ [][ObjectsNext]_objectVars

-----------------------------------------------------------------------------
\* Of what a replay buffer points at, the reference keeps one.
Referred(w, slot) ==
    cast[w] \in ReplayBuffers =>
        \E s \in shown : s[1] = w /\ <<slot, cast[s[3]]>> \in Class[cast[w]].borrows

\* A wrapper's object is there until the frontend ends it, and no two wrappers
\* have the same one.
OwnObjectLives ==
    \A w \in Wrappers : Wraps(w) /\ uid[w] # NoUid =>
        /\ ObjectOf(w) \in living \cup ended
        /\ \A v \in Wrappers : Wraps(v) /\ ObjectOf(v) = ObjectOf(w) => v = w

\* As long as the wrapper of an output is there, what the output points at in
\* the server is there too, and has a wrapper of which the same is true, unless
\* the frontend ended it.
BorrowedLives ==
    \A w \in Wrappers : Wraps(w) /\ uid[w] # NoUid =>
        \A p \in pointers : p[1] = ObjectOf(w) /\ Referred(w, p[2]) /\ p[3] \notin ended =>
            /\ p[3] \in living
            /\ \E t \in Wrappers : Wraps(t) /\ ObjectOf(t) = p[3]

\* The collector of the JavaScript engine frees nothing in the server that a
\* wrapper, or an output with a wrapper, still uses (Finalize and the setters of
\* obs-studio-client; the managers of the server's utility.hpp).
CollectorIsSafe == OwnObjectLives /\ BorrowedLives

\* What a getter of an output gives is what the server uses for the output, and
\* its fields have the values that were last set through it (the setters of
\* obs-studio-client and of osn-*.cpp).
ShownIsUsed ==
    \A w \in Wrappers : Wraps(w) /\ ObjectOf(w) \in living =>
        /\ \A f \in Watched, v \in FieldValues : <<ObjectOf(w), f, v>> \in fields <=> <<w, f, v>> \in wrote
        /\ \A s \in shown : s[1] = w /\ ObjectOf(s[3]) \in living =>
            \E slot \in Slots :
                /\ reference(cast[w], slot) = s[2] /\ <<slot, cast[s[3]]>> \in Class[cast[w]].borrows
                /\ <<ObjectOf(w), slot, ObjectOf(s[3])>> \in pointers
=============================================================================
