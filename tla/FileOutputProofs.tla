-------------------------- MODULE FileOutputProofs --------------------------
(* Proofs about FileOutput, for any number of outputs, names and files:      *)
(* its type invariant, and, when outputs are not restarted while they end,   *)
(* not split and not shared, that no file has two writers and that the       *)
(* recordings implement FileLease.                                           *)
EXTENDS FileOutput, TLAPS

\* Every start makes a new libobs output, or finds that of a settled recording.
Exclusive ==
    /\ ~Shared
    /\ ~Splitting
    /\ Settled \/ (Simple = Outputs /\ Qualities \subseteq {"Encoded"})

-----------------------------------------------------------------------------
(* The inductive invariant. *)

\* obs_output_active() tells whether the muxer still runs.
ActiveWhileRunning == \A o \in Outputs : active[o] <=> run[o] # "idle"

\* "stop" is emitted after the muxer has drained.
StopAfterDrain == \A o \in Outputs : stopCall[o] # "none" => ~Writing(o)

\* What DeleteOutput() releases is quiet, so that Free and CreateOutput may go on.
ReleasedIsQuiet ==
    /\ \A o \in Outputs : output[o] = "none" => run[o] = "idle" /\ stopCall[o] = "none"
    /\ \A o \in Outputs : (At(o, "free") \/ At(o, "create")) => output[o] = "none"

\* A call is on an object of the manager, and its kind agrees with its position.
CallOnRegistered ==
    /\ api.pc # "idle" => api.o \in registered
    /\ api.pc \in DeletePositions => api.op \in {"start", "destroy"}
    /\ api.pc \in StartPositions => api.op = "start"
    /\ api.op = "start" => api.make # "none"

\* Without lossless recordings there is no "ffmpeg_output" to start again.
MuxersOnly ==
    ~Settled => /\ \A o \in Outputs : output[o] # "ffmpeg_output"
                /\ api.make # "ffmpeg_output"

\* A start that has its output finds it quiet, or recording and left alone.
StartsQuiet ==
    \A o \in Outputs : api.o = o /\ api.pc \in StartPositions \ {"create"} =>
        /\ output[o] # "none"
        /\ run[o] = "capturing" => Settled
        /\ run[o] # "capturing" => run[o] = "idle" /\ stopCall[o] = "none"

\* The name found is the one claimed, until the output is started.
ClaimFollowsCall ==
    \A o \in Outputs : api.o = o /\ api.pc \in {"update", "start"} /\ run[o] = "idle" =>
        claim[o] = api.path /\ claim[o] \in Paths

ClaimsDiffer ==
    \A o, p \in registered : o # p /\ claim[o] \in Paths => claim[o] # claim[p]

WriterClaims == WriterHoldsClaim /\ \A o \in Outputs : Writing(o) => claim[o] \in Paths

Safe ==
    /\ ActiveWhileRunning
    /\ StopAfterDrain
    /\ ReleasedIsQuiet
    /\ CallOnRegistered
    /\ MuxersOnly
    /\ StartsQuiet
    /\ ClaimFollowsCall
    /\ ClaimsDiffer
    /\ WriterClaims

-----------------------------------------------------------------------------
(* Types. *)

\* What a muxer is given to write, and the call is about to give it, is a path.
WritesPaths ==
    /\ \A o \in Outputs : Writing(o) => target[o] \in Paths
    /\ api.pc \in {"update", "start"} => api.path \in Paths

LEMMA NoPathIsNoPath == NoPath \notin Paths
BY DEF NoPath, Paths

LEMMA TypeInit ==
    ASSUME Init
    PROVE  TypeOK
<1>1. api \in Calls
  BY DEF Init, NoCall, Calls, PathOrNone
<1>2. /\ stopped \in [Outputs -> BOOLEAN]
      /\ counted \in [Outputs -> BOOLEAN]
      /\ active \in [Outputs -> BOOLEAN]
      /\ connected \in [Outputs -> BOOLEAN]
  BY Zenon DEF Init
<1>. QED
  BY <1>1, <1>2 DEF Init, TypeOK, PathOrNone

\* A step of a call that only moves on stays a call.
LEMMA GotoType ==
    ASSUME api \in Calls, NEW pc \in {"idle", "free"} \cup DeletePositions \cup StartPositions,
           Goto(pc)
    PROVE  api' \in Calls
BY DEF Goto, Calls

LEMMA ReturnType ==
    ASSUME Return
    PROVE  api' \in Calls
BY DEF Return, NoCall, Calls, PathOrNone

LEMMA StopType ==
    ASSUME TypeOK, NEW o \in Outputs, ObsOutputStop(o)
    PROVE  /\ run' \in [Outputs -> {"idle", "capturing", "stopping", "drained"}]
           /\ counted' \in [Outputs -> BOOLEAN]
BY DEF TypeOK, ObsOutputStop

LEMMA ObsStepType ==
    ASSUME TypeOK, WritesPaths, NEW o \in Outputs, ObsStep(o)
    PROVE  TypeOK'
<1>. USE DEF TypeOK, obsVars
<1>1. CASE MuxerDone(o)
  BY <1>1 DEF MuxerDone
<1>2. CASE EndDataCapture(o)
  BY <1>2 DEF EndDataCapture
<1>3. CASE SplitFile(o)
  BY <1>3 DEF SplitFile, Paths, PathOrNone
<1>4. CASE CreateFile(o)
  BY <1>4 DEF CreateFile, WritesPaths
<1>5. CASE OnStoppedEnd(o)
  BY <1>5 DEF OnStoppedEnd
<1>6. CASE OnOutputStopped(o)
  BY <1>6 DEF OnOutputStopped, PathOrNone
<1>7. CASE OnStoppedNotify(o)
  BY <1>7 DEF OnStoppedNotify
<1>. QED
  BY <1>1, <1>2, <1>3, <1>4, <1>5, <1>6, <1>7 DEF ObsStep

LEMMA DeleteStepType ==
    ASSUME TypeOK, NEW o \in Outputs, DeleteStep(o)
    PROVE  TypeOK'
<1>. USE GotoType, ReturnType, StopType DEF TypeOK, obsVars, DeletePositions, StartPositions
<1>1. CASE DeleteCheck(o)
  BY <1>1 DEF DeleteCheck, AfterDelete
<1>2. CASE DeleteStop(o)
  BY <1>2 DEF DeleteStop
<1>3. CASE DeleteWait(o)
  BY <1>3 DEF DeleteWait
<1>4. CASE DeleteTimeout(o)
  BY <1>4 DEF DeleteTimeout
<1>5. CASE DisconnectSignals(o)
  BY <1>5 DEF DisconnectSignals
<1>6. CASE ReleaseStop(o)
  BY <1>6 DEF ReleaseStop
<1>7. CASE ReleaseShared(o)
  BY <1>7 DEF ReleaseShared, AfterDelete
<1>8. CASE ReleaseDone(o)
  BY <1>8 DEF ReleaseDone, AfterDelete
<1>9. CASE Free(o)
  BY <1>9 DEF Free
<1>. QED
  BY <1>1, <1>2, <1>3, <1>4, <1>5, <1>6, <1>7, <1>8, <1>9 DEF DeleteStep

LEMMA StartStepType ==
    ASSUME TypeOK, NEW o \in Outputs, StartStep(o)
    PROVE  TypeOK'
<1>. USE GotoType, ReturnType DEF TypeOK, obsVars, DeletePositions, StartPositions
<1>1. CASE CreateOutput(o)
  BY <1>1 DEF CreateOutput, FreshObsOutput, Calls, PathOrNone
<1>2. CASE CreateOutputFails(o)
  BY <1>2 DEF CreateOutputFails
<1>3. CASE Prepare(o)
  <2>1. api' \in Calls
    <3>1. CASE api' = [api EXCEPT !.make = "ffmpeg_output", !.pc = "delete"]
      BY <3>1 DEF Calls
    <3>2. CASE Goto("find")
      BY <3>2, GotoType
    <3>. QED
      BY <1>3, <3>1, <3>2 DEF Prepare
  <2>. QED
    BY <1>3, <2>1 DEF Prepare
<1>4. CASE StartRefused(o)
  BY <1>4 DEF StartRefused
<1>5. CASE FindBestFilename(o)
  <2>1. PICK p \in Paths :
            /\ claim' = IF MayClaim(o) THEN [claim EXCEPT ![o] = p] ELSE claim
            /\ api' = [api EXCEPT !.path = p, !.pc = "update"]
    BY <1>5 DEF FindBestFilename, Candidate, Paths
  <2>2. api' \in Calls
    BY <2>1 DEF Calls, PathOrNone
  <2>3. claim' \in [Outputs -> PathOrNone]
    BY <2>1 DEF PathOrNone
  <2>. QED
    BY <1>5, <2>2, <2>3 DEF FindBestFilename
<1>6. CASE UpdateSettings(o)
  BY <1>6 DEF UpdateSettings
<1>7. CASE ObsOutputStart(o)
  BY <1>7 DEF ObsOutputStart, Calls
<1>8. CASE ObsOutputStartFails(o)
  BY <1>8 DEF ObsOutputStartFails
<1>9. CASE StartFailed(o)
  BY <1>9 DEF StartFailed, PathOrNone
<1>. QED
  BY <1>1, <1>2, <1>3, <1>4, <1>5, <1>6, <1>7, <1>8, <1>9 DEF StartStep

LEMMA CallStepType ==
    ASSUME TypeOK, NEW o \in Outputs, CallStep(o)
    PROVE  TypeOK'
<1>. USE DEF TypeOK, obsVars
<1>1. CASE Create(o)
  BY <1>1 DEF Create, PathOrNone
<1>2. CASE StopRecording(o)
  BY <1>2, StopType DEF StopRecording
<1>3. CASE Destroy(o)
  BY <1>3 DEF Destroy, NoCall, Calls, PathOrNone, DeletePositions
<1>4. ASSUME NEW q \in Qualities, NEW ow \in BOOLEAN, StartRecording(o, q, ow)
      PROVE  TypeOK'
  <2>1. PICK pc \in {"delete", "prepare"} :
          api' = [NoCall EXCEPT !.op = "start", !.o = o, !.quality = q,
                    !.overwrite = ow, !.make = "ffmpeg_muxer", !.pc = pc]
    BY <1>4 DEF StartRecording
  <2>2. api' = [op |-> "start", o |-> o, pc |-> pc, quality |-> q,
                make |-> "ffmpeg_muxer", path |-> NoPath, overwrite |-> ow]
    BY <2>1 DEF NoCall
  <2>3. api' \in Calls
    BY <2>2 DEF Calls, PathOrNone, DeletePositions, StartPositions
  <2>. QED
    BY <1>4, <2>3 DEF StartRecording
<1>. QED
  BY <1>1, <1>2, <1>3, <1>4 DEF CallStep

\* What moving on and returning leave of the call.
LEMMA GotoFields ==
    ASSUME api \in Calls, NEW pc, Goto(pc)
    PROVE  /\ api'.pc = pc /\ api'.o = api.o /\ api'.op = api.op
           /\ api'.path = api.path /\ api'.make = api.make /\ api'.quality = api.quality
BY DEF Goto, Calls

LEMMA ReturnFields ==
    ASSUME Return
    PROVE  api'.pc = "idle" /\ api'.op = "none" /\ api'.make = "none"
BY DEF Return, NoCall

\* The muxer is asked to stop, or nothing happens.
LEMMA StopFields ==
    ASSUME TypeOK, NEW o \in Outputs, ObsOutputStop(o)
    PROVE  \A p \in Outputs : \/ run'[p] = run[p]
                              \/ run[p] = "capturing" /\ run'[p] = "stopping"
BY DEF TypeOK, ObsOutputStop

\* The steps of libobs and of DeleteOutput() give no muxer a file and find none.
LEMMA ObsStepPaths ==
    ASSUME TypeOK, WritesPaths, NEW o \in Outputs, ObsStep(o)
    PROVE  WritesPaths'
<1>. USE DEF TypeOK, WritesPaths, Writing, obsVars
<1>1. CASE MuxerDone(o)
  BY <1>1 DEF MuxerDone
<1>2. CASE EndDataCapture(o)
  BY <1>2 DEF EndDataCapture
<1>3. CASE SplitFile(o)
  BY <1>3 DEF SplitFile, Paths
<1>4. CASE UNCHANGED <<run, target, api>>
  BY <1>4
<1>. QED
  BY <1>1, <1>2, <1>3, <1>4
     DEF ObsStep, CreateFile, OnStoppedEnd, OnOutputStopped, OnStoppedNotify

LEMMA DeleteStepPaths ==
    ASSUME TypeOK, WritesPaths, NEW o \in Outputs, DeleteStep(o)
    PROVE  WritesPaths'
<1>1. UNCHANGED target /\ \A p \in Outputs : Writing(p)' => Writing(p)
  BY StopFields DEF DeleteStep, DeleteCheck, DeleteStop, DeleteWait, DeleteTimeout,
     DisconnectSignals, ReleaseStop, ReleaseShared, ReleaseDone, Free, Writing, obsVars
<1>2. api'.pc \notin {"update", "start"}
  BY GotoFields, ReturnFields DEF TypeOK, DeleteStep, DeleteCheck, DeleteStop, DeleteWait,
     DeleteTimeout, DisconnectSignals, ReleaseStop, ReleaseShared, ReleaseDone, Free, AfterDelete
<1>. QED
  BY <1>1, <1>2 DEF WritesPaths

LEMMA StartStepPaths ==
    ASSUME TypeOK, WritesPaths, NEW o \in Outputs, StartStep(o)
    PROVE  WritesPaths'
<1>. USE GotoFields, ReturnFields DEF TypeOK, WritesPaths, Writing, obsVars
<1>1. CASE CreateOutput(o)
  BY <1>1 DEF CreateOutput, FreshObsOutput
<1>2. CASE Prepare(o)
  <2>1. CASE api' = [api EXCEPT !.make = "ffmpeg_output", !.pc = "delete"]
    BY <1>2, <2>1 DEF Prepare, Calls
  <2>2. CASE Goto("find")
    BY <1>2, <2>2 DEF Prepare
  <2>. QED
    BY <1>2, <2>1, <2>2 DEF Prepare
<1>3. CASE FindBestFilename(o)
  BY <1>3 DEF FindBestFilename, Candidate, Paths, Calls
<1>4. CASE UpdateSettings(o)
  BY <1>4 DEF UpdateSettings, At
<1>5. CASE ObsOutputStart(o)
  BY <1>5 DEF ObsOutputStart, At
<1>6. CASE CreateOutputFails(o) \/ StartRefused(o) \/ ObsOutputStartFails(o) \/ StartFailed(o)
  BY <1>6 DEF CreateOutputFails, StartRefused, ObsOutputStartFails, StartFailed
<1>. QED
  BY <1>1, <1>2, <1>3, <1>4, <1>5, <1>6 DEF StartStep

LEMMA CallStepPaths ==
    ASSUME TypeOK, WritesPaths, NEW o \in Outputs, CallStep(o)
    PROVE  WritesPaths'
<1>. USE DEF TypeOK, WritesPaths, Writing, obsVars
<1>1. CASE Create(o)
  BY <1>1 DEF Create
<1>2. CASE StopRecording(o)
  BY <1>2, StopFields DEF StopRecording
<1>3. CASE Destroy(o)
  BY <1>3 DEF Destroy, NoCall
<1>4. ASSUME NEW q \in Qualities, NEW ow \in BOOLEAN, StartRecording(o, q, ow)
      PROVE  WritesPaths'
  BY <1>4 DEF StartRecording, NoCall
<1>. QED
  BY <1>1, <1>2, <1>3, <1>4 DEF CallStep

LEMMA TypeStep ==
    ASSUME TypeOK, WritesPaths, [Next]_vars
    PROVE  TypeOK' /\ WritesPaths'
<1>1. CASE UNCHANGED vars
  BY <1>1 DEF TypeOK, WritesPaths, Writing, vars, obsVars
<1>2. ASSUME NEW o \in Outputs, ObsStep(o) \/ DeleteStep(o) \/ StartStep(o) \/ CallStep(o)
      PROVE  TypeOK' /\ WritesPaths'
  BY <1>2, ObsStepType, DeleteStepType, StartStepType, CallStepType,
     ObsStepPaths, DeleteStepPaths, StartStepPaths, CallStepPaths
<1>. QED
  BY <1>1, <1>2 DEF Next

(* Every state of the recordings has the declared types: in particular, only *)
(* files that FindBestFilename() or a split named are ever on disk.          *)
THEOREM TypeCorrect == Spec => []TypeOK
<1>1. Init => TypeOK /\ WritesPaths
  BY TypeInit DEF Init, WritesPaths, Writing, NoCall
<1>. QED
  BY <1>1, TypeStep, PTL DEF Spec
-----------------------------------------------------------------------------
(* The libobs output of a recording, in every configuration: who owns it,    *)
(* who is connected to it and who counts it.                                 *)

ConnectedIsOwned == \A o \in Outputs : connected[o] => o \in registered /\ output[o] # "none"

\* Between the disconnection and the end of the release nobody is connected.
Releasing(o) == At(o, "release") \/ At(o, "released")

OwnedIsConnected == \A o \in Outputs : output[o] # "none" <=> connected[o] \/ Releasing(o)

\* How far DeleteOutput() has come tells what is left of the libobs output.
DeletedIsCut ==
    \A o \in Outputs :
        /\ Releasing(o) => ~connected[o]
        /\ At(o, "free") \/ At(o, "create") => output[o] = "none"
        /\ At(o, "stop") \/ At(o, "wait") \/ At(o, "disconnect") => connected[o]

\* libobs waits for a handler before it disconnects it.
CallbackIsConnected == \A o \in Outputs : InCallback(o) => connected[o]

CountedIsOwned == \A o \in Outputs : counted[o] => output[o] # "none"

Owned ==
    /\ CallOnRegistered
    /\ ActiveWhileRunning
    /\ ConnectedIsOwned
    /\ OwnedIsConnected
    /\ DeletedIsCut
    /\ CallbackIsConnected
    /\ CountedIsOwned

LEMMA OwnedInit ==
    ASSUME Init
    PROVE  Owned
<1>1. \A o \in Outputs : ~connected[o] /\ ~counted[o] /\ ~active[o]
  BY Zenon DEF Init
<1>2. /\ api.pc = "idle" /\ api.op = "none"
      /\ \A o \in Outputs : output[o] = "none" /\ stopCall[o] = "none" /\ run[o] = "idle"
  BY DEF Init, NoCall
<1>. QED
  BY <1>1, <1>2 DEF Owned, CallOnRegistered, ActiveWhileRunning, ConnectedIsOwned,
     OwnedIsConnected, DeletedIsCut, CallbackIsConnected, CountedIsOwned, Releasing, At,
     InCallback, DeletePositions, StartPositions

LEMMA ObsStepOwned ==
    ASSUME TypeOK, Owned, NEW o \in Outputs, ObsStep(o)
    PROVE  Owned'
<1>. USE DEF TypeOK, Owned, CallOnRegistered, ActiveWhileRunning, ConnectedIsOwned,
     OwnedIsConnected, DeletedIsCut, CallbackIsConnected, CountedIsOwned, Releasing, At,
     InCallback, DeletePositions, StartPositions, obsVars
<1>1. CASE MuxerDone(o)
  BY <1>1 DEF MuxerDone, Writing
<1>2. CASE EndDataCapture(o)
  BY <1>2 DEF EndDataCapture
<1>3. CASE SplitFile(o)
  BY <1>3 DEF SplitFile
<1>4. CASE CreateFile(o)
  BY <1>4 DEF CreateFile
<1>5. CASE OnStoppedEnd(o)
  BY <1>5 DEF OnStoppedEnd
<1>6. CASE OnOutputStopped(o)
  BY <1>6 DEF OnOutputStopped
<1>7. CASE OnStoppedNotify(o)
  BY <1>7 DEF OnStoppedNotify
<1>. QED
  BY <1>1, <1>2, <1>3, <1>4, <1>5, <1>6, <1>7 DEF ObsStep

LEMMA DeleteStepOwned ==
    ASSUME TypeOK, Owned, NEW o \in Outputs, DeleteStep(o)
    PROVE  Owned'
<1>. USE GotoFields, ReturnFields DEF TypeOK, Owned, CallOnRegistered, ActiveWhileRunning,
      ConnectedIsOwned,
     OwnedIsConnected, DeletedIsCut, CallbackIsConnected, CountedIsOwned, Releasing, At,
     InCallback, DeletePositions, StartPositions, obsVars
<1>1. CASE DeleteCheck(o)
  BY <1>1 DEF DeleteCheck, AfterDelete
<1>2. CASE DeleteStop(o)
  BY <1>2 DEF DeleteStop, ObsOutputStop
<1>3. CASE DeleteWait(o) \/ DeleteTimeout(o)
  BY <1>3 DEF DeleteWait, DeleteTimeout
<1>4. CASE DisconnectSignals(o)
  BY <1>4 DEF DisconnectSignals
<1>5. CASE ReleaseStop(o)
  BY <1>5 DEF ReleaseStop, ObsOutputStop
<1>6. CASE ReleaseShared(o)
  BY <1>6 DEF ReleaseShared, AfterDelete
<1>7. CASE ReleaseDone(o)
  BY <1>7 DEF ReleaseDone, AfterDelete
<1>8. CASE Free(o)
  BY <1>8 DEF Free
<1>. QED
  BY <1>1, <1>2, <1>3, <1>4, <1>5, <1>6, <1>7, <1>8 DEF DeleteStep

LEMMA StartStepOwned ==
    ASSUME TypeOK, Owned, NEW o \in Outputs, StartStep(o)
    PROVE  Owned'
<1>. USE GotoFields, ReturnFields DEF TypeOK, Owned, CallOnRegistered, ActiveWhileRunning,
      ConnectedIsOwned,
     OwnedIsConnected, DeletedIsCut, CallbackIsConnected, CountedIsOwned, Releasing, At,
     InCallback, DeletePositions, StartPositions, obsVars
<1>1. CASE CreateOutput(o)
  BY <1>1 DEF CreateOutput, FreshObsOutput, Calls
<1>2. CASE Prepare(o)
  <2>1. CASE api' = [api EXCEPT !.make = "ffmpeg_output", !.pc = "delete"]
    <3>1. api'.pc = "delete" /\ api'.o = api.o /\ api'.op = api.op /\ api'.make = "ffmpeg_output"
      BY <2>1 DEF Calls
    <3>. QED
      BY <1>2, <3>1 DEF Prepare
  <2>2. CASE Goto("find")
    BY <1>2, <2>2 DEF Prepare
  <2>. QED
    BY <1>2, <2>1, <2>2 DEF Prepare
<1>3. CASE FindBestFilename(o)
  <2>1. PICK p : api' = [api EXCEPT !.path = p, !.pc = "update"]
    BY <1>3 DEF FindBestFilename
  <2>2. api'.pc = "update" /\ api'.o = api.o /\ api'.op = api.op /\ api'.make = api.make
    BY <2>1 DEF Calls
  <2>. QED
    BY <1>3, <2>2 DEF FindBestFilename
<1>4. CASE ObsOutputStart(o)
  BY <1>4 DEF ObsOutputStart
<1>5. CASE UpdateSettings(o) \/ ObsOutputStartFails(o)
  BY <1>5 DEF UpdateSettings, ObsOutputStartFails
<1>6. CASE CreateOutputFails(o) \/ StartRefused(o) \/ StartFailed(o)
  BY <1>6 DEF CreateOutputFails, StartRefused, StartFailed
<1>. QED
  BY <1>1, <1>2, <1>3, <1>4, <1>5, <1>6 DEF StartStep

LEMMA CallStepOwned ==
    ASSUME TypeOK, Owned, NEW o \in Outputs, CallStep(o)
    PROVE  Owned'
<1>. USE DEF TypeOK, Owned, CallOnRegistered, ActiveWhileRunning, ConnectedIsOwned,
     OwnedIsConnected, DeletedIsCut, CallbackIsConnected, CountedIsOwned, Releasing, At,
     InCallback, DeletePositions, StartPositions, obsVars
<1>1. CASE Create(o)
  BY <1>1 DEF Create, Idle
<1>2. CASE StopRecording(o)
  BY <1>2 DEF StopRecording, ObsOutputStop, Idle
<1>3. CASE Destroy(o)
  BY <1>3 DEF Destroy, NoCall, Idle
<1>4. ASSUME NEW q \in Qualities, NEW ow \in BOOLEAN, StartRecording(o, q, ow)
      PROVE  Owned'
  BY <1>4 DEF StartRecording, NoCall, Idle
<1>. QED
  BY <1>1, <1>2, <1>3, <1>4 DEF CallStep

LEMMA OwnedStep ==
    ASSUME TypeOK, Owned, [Next]_vars
    PROVE  Owned'
<1>1. CASE UNCHANGED vars
  BY <1>1 DEF vars, obsVars, Owned, CallOnRegistered, ActiveWhileRunning, ConnectedIsOwned,
     OwnedIsConnected, DeletedIsCut, CallbackIsConnected, CountedIsOwned, Releasing, At, InCallback
<1>2. ASSUME NEW o \in Outputs, ObsStep(o) \/ DeleteStep(o) \/ StartStep(o) \/ CallStep(o)
      PROVE  Owned'
  BY <1>2, ObsStepOwned, DeleteStepOwned, StartStepOwned, CallStepOwned
<1>. QED
  BY <1>1, <1>2 DEF Next

LEMMA OwnedAlways == Spec => []Owned
<1>1. Init => Owned
  BY OwnedInit
<1>2. TypeOK /\ Owned /\ [Next]_vars => Owned'
  BY OwnedStep
<1>. QED
  BY <1>1, <1>2, TypeCorrect, PTL DEF Spec

(* What is counted as finalizing still has its libobs output, in every       *)
(* configuration: nothing is left for the watchdog to wait for.              *)
THEOREM FinalizeNotLeaked == Spec => []NoLeakedFinalize
<1>1. Owned => NoLeakedFinalize
  BY DEF Owned, OwnedIsConnected, CountedIsOwned, NoLeakedFinalize, Releasing, At
<1>. QED
  BY <1>1, OwnedAlways, PTL

(* OnStopped() runs only on a registered recording that has a libobs output, *)
(* in every configuration.                                                   *)
THEOREM CallbacksAreLive == Spec => []CallbackOnLiveOutput
<1>1. Owned => CallbackOnLiveOutput
  BY DEF Owned, CallbackIsConnected, ConnectedIsOwned, CallbackOnLiveOutput
<1>. QED
  BY <1>1, OwnedAlways, PTL

-----------------------------------------------------------------------------
(* When starts do not race the end of a recording, or each makes a new       *)
(* output, the stop a deletion waits for is still to come.                   *)

\* A start that has its output finds it recording, or at rest.
StartsSettled ==
    \A o \in Outputs : api.o = o /\ api.pc \in StartPositions \ {"create"} =>
        run[o] = "capturing" \/ (run[o] = "idle" /\ stopCall[o] = "none")

Due(o) == Writing(o) \/ stopCall[o] # "none"

\* An active output that was not told of its stop has it before it.
StopIsDue == \A o \in Outputs : connected[o] /\ active[o] /\ ~stopped[o] => Due(o)

StopIsAwaited ==
    \A o \in Outputs : (At(o, "stop") \/ At(o, "wait")) /\ ~stopped[o] => Due(o)

Awaited == StartsSettled /\ StopIsDue /\ StopIsAwaited

\* What a step keeps of it when nothing else settles the starts.
AwaitedNext == (Settled => StartsSettled') /\ StopIsDue' /\ StopIsAwaited'

LEMMA ObsStepAwaited ==
    ASSUME TypeOK, Owned, Awaited, NEW o \in Outputs, ObsStep(o)
    PROVE  AwaitedNext
<1>. USE DEF TypeOK, AwaitedNext, Awaited, StartsSettled, StopIsDue, StopIsAwaited, Due, Writing, At,
     Owned, CallOnRegistered, DeletedIsCut, ConnectedIsOwned, DeletePositions, StartPositions, obsVars
<1>1. CASE MuxerDone(o)
  BY <1>1 DEF MuxerDone
<1>2. CASE EndDataCapture(o)
  BY <1>2 DEF EndDataCapture
<1>3. CASE SplitFile(o) \/ CreateFile(o)
  BY <1>3 DEF SplitFile, CreateFile
<1>4. CASE OnStoppedEnd(o)
  BY <1>4 DEF OnStoppedEnd
<1>5. CASE OnOutputStopped(o)
  BY <1>5 DEF OnOutputStopped
<1>6. CASE OnStoppedNotify(o)
  BY <1>6 DEF OnStoppedNotify
<1>. QED
  BY <1>1, <1>2, <1>3, <1>4, <1>5, <1>6 DEF ObsStep

LEMMA DeleteStepAwaited ==
    ASSUME TypeOK, Owned, Awaited, NEW o \in Outputs, DeleteStep(o)
    PROVE  AwaitedNext
<1>. USE GotoFields, ReturnFields DEF TypeOK, AwaitedNext, Awaited, StartsSettled, StopIsDue, StopIsAwaited, Due,
      Writing, At,
     Owned, CallOnRegistered, DeletedIsCut, ConnectedIsOwned, DeletePositions, StartPositions, obsVars
<1>1. CASE DeleteCheck(o)
  BY <1>1 DEF DeleteCheck, AfterDelete, OwnedIsConnected, Releasing
<1>2. CASE DeleteStop(o)
  BY <1>2 DEF DeleteStop, ObsOutputStop
<1>3. CASE DeleteWait(o) \/ DeleteTimeout(o)
  BY <1>3 DEF DeleteWait, DeleteTimeout
<1>4. CASE DisconnectSignals(o)
  BY <1>4 DEF DisconnectSignals
<1>5. CASE ReleaseStop(o)
  BY <1>5 DEF ReleaseStop, ObsOutputStop
<1>6. CASE ReleaseShared(o)
  BY <1>6 DEF ReleaseShared, AfterDelete
<1>7. CASE ReleaseDone(o)
  BY <1>7 DEF ReleaseDone, AfterDelete
<1>8. CASE Free(o)
  BY <1>8 DEF Free
<1>. QED
  BY <1>1, <1>2, <1>3, <1>4, <1>5, <1>6, <1>7, <1>8 DEF DeleteStep

LEMMA StartStepAwaited ==
    ASSUME TypeOK, Owned, Awaited, NEW o \in Outputs, StartStep(o)
    PROVE  AwaitedNext
<1>. USE GotoFields, ReturnFields DEF TypeOK, AwaitedNext, Awaited, StartsSettled, StopIsDue, StopIsAwaited, Due,
      Writing, At,
     Owned, CallOnRegistered, DeletedIsCut, ConnectedIsOwned, DeletePositions, StartPositions, obsVars
<1>1. CASE CreateOutput(o)
  BY <1>1 DEF CreateOutput, FreshObsOutput
<1>2. CASE Prepare(o)
  <2>1. CASE api' = [api EXCEPT !.make = "ffmpeg_output", !.pc = "delete"]
    <3>1. api'.pc = "delete" /\ api'.o = api.o
      BY <2>1 DEF Calls
    <3>. QED
      BY <1>2, <3>1 DEF Prepare
  <2>2. CASE Goto("find")
    BY <1>2, <2>2 DEF Prepare
  <2>. QED
    BY <1>2, <2>1, <2>2 DEF Prepare
<1>3. CASE FindBestFilename(o)
  <2>1. PICK p : api' = [api EXCEPT !.path = p, !.pc = "update"]
    BY <1>3 DEF FindBestFilename
  <2>2. api'.pc = "update" /\ api'.o = api.o
    BY <2>1 DEF Calls
  <2>. QED
    BY <1>3, <2>2 DEF FindBestFilename
<1>4. CASE UpdateSettings(o)
  BY <1>4 DEF UpdateSettings, Owned, ActiveWhileRunning
<1>5. CASE ObsOutputStart(o)
  BY <1>5 DEF ObsOutputStart
<1>6. CASE CreateOutputFails(o)
  BY <1>6 DEF CreateOutputFails, Owned, ConnectedIsOwned, DeletedIsCut
<1>7. CASE ObsOutputStartFails(o)
  BY <1>7 DEF ObsOutputStartFails
<1>8. CASE StartRefused(o) \/ StartFailed(o)
  BY <1>8 DEF StartRefused, StartFailed
<1>. QED
  BY <1>1, <1>2, <1>3, <1>4, <1>5, <1>6, <1>7, <1>8 DEF StartStep

LEMMA CallStepAwaited ==
    ASSUME TypeOK, Owned, Awaited, NEW o \in Outputs, CallStep(o)
    PROVE  AwaitedNext
<1>. USE DEF TypeOK, AwaitedNext, Awaited, StartsSettled, StopIsDue, StopIsAwaited, Due, Writing, At,
     Owned, CallOnRegistered, DeletedIsCut, ConnectedIsOwned, DeletePositions, StartPositions, obsVars
<1>1. CASE Create(o)
  BY <1>1 DEF Create, Idle, Owned, ConnectedIsOwned
<1>2. CASE StopRecording(o)
  BY <1>2 DEF StopRecording, ObsOutputStop, Idle
<1>3. CASE Destroy(o)
  BY <1>3 DEF Destroy, NoCall, Idle
<1>4. ASSUME NEW q \in Qualities, NEW ow \in BOOLEAN, StartRecording(o, q, ow)
      PROVE  AwaitedNext
  BY <1>4 DEF StartRecording, NoCall, Idle
<1>. QED
  BY <1>1, <1>2, <1>3, <1>4 DEF CallStep

LEMMA AwaitedStep ==
    ASSUME TypeOK, Owned, Awaited, [Next]_vars
    PROVE  AwaitedNext
<1>1. CASE UNCHANGED vars
  BY <1>1 DEF vars, obsVars, AwaitedNext, Awaited, StartsSettled, StopIsDue, StopIsAwaited, Due, Writing, At
<1>2. ASSUME NEW o \in Outputs, ObsStep(o) \/ DeleteStep(o) \/ StartStep(o) \/ CallStep(o)
      PROVE  AwaitedNext
  BY <1>2, ObsStepAwaited, DeleteStepAwaited, StartStepAwaited, CallStepAwaited
<1>. QED
  BY <1>1, <1>2 DEF Next

LEMMA AwaitedInit ==
    ASSUME Init
    PROVE  Awaited
<1>1. \A o \in Outputs : ~active[o]
  BY Zenon DEF Init
<1>2. api.pc = "idle"
  BY DEF Init, NoCall
<1>. QED
  BY <1>1, <1>2 DEF Awaited, StartsSettled, StopIsDue, StopIsAwaited, At, StartPositions

-----------------------------------------------------------------------------
(* Files.  Each lemma takes the steps of one actor. *)

Inv == TypeOK /\ WritesPaths /\ Safe

LEMMA ObsStepSafe ==
    ASSUME Exclusive, Inv, NEW o \in Outputs, ObsStep(o)
    PROVE  Safe'
<1>. USE DEF Inv, Safe, TypeOK, obsVars, ActiveWhileRunning, StopAfterDrain, ReleasedIsQuiet,
     CallOnRegistered, MuxersOnly, StartsQuiet, ClaimFollowsCall, ClaimsDiffer, WriterClaims,
     WriterHoldsClaim, Writing, At
<1>1. CASE MuxerDone(o)
  BY <1>1 DEF MuxerDone, Exclusive
<1>2. CASE EndDataCapture(o)
  <2>1. ActiveWhileRunning'
    BY <1>2 DEF EndDataCapture
  <2>2. StopAfterDrain' /\ ReleasedIsQuiet'
    BY <1>2 DEF EndDataCapture
  <2>3. StartsQuiet' /\ ClaimFollowsCall'
    BY <1>2 DEF EndDataCapture, StartPositions
  <2>4. CallOnRegistered' /\ MuxersOnly' /\ ClaimsDiffer' /\ WriterClaims'
    BY <1>2 DEF EndDataCapture
  <2>. QED
    BY <2>1, <2>2, <2>3, <2>4
<1>3. CASE SplitFile(o)
  BY <1>3 DEF SplitFile, Exclusive
<1>4. CASE CreateFile(o)
  BY <1>4 DEF CreateFile
<1>5. CASE OnStoppedEnd(o)
  BY <1>5 DEF OnStoppedEnd
<1>6. CASE OnOutputStopped(o)
  <2>1. ~Writing(o)
    BY <1>6 DEF OnOutputStopped
  <2>2. ClaimFollowsCall'
    BY <1>6 DEF OnOutputStopped, StartPositions
  <2>3. ClaimsDiffer'
    BY <1>6, NoPathIsNoPath DEF OnOutputStopped
  <2>4. WriterClaims'
    BY <1>6, <2>1 DEF OnOutputStopped
  <2>5. ActiveWhileRunning' /\ StopAfterDrain' /\ ReleasedIsQuiet' /\ CallOnRegistered'
        /\ MuxersOnly' /\ StartsQuiet'
    BY <1>6 DEF OnOutputStopped
  <2>. QED
    BY <2>2, <2>3, <2>4, <2>5
<1>7. CASE OnStoppedNotify(o)
  BY <1>7 DEF OnStoppedNotify
<1>. QED
  BY <1>1, <1>2, <1>3, <1>4, <1>5, <1>6, <1>7 DEF ObsStep

LEMMA DeleteStepSafe ==
    ASSUME Exclusive, Inv, NEW o \in Outputs, DeleteStep(o)
    PROVE  Safe'
<1>. USE GotoFields, ReturnFields DEF Inv, Safe, TypeOK, obsVars, ActiveWhileRunning,
     StopAfterDrain, ReleasedIsQuiet, CallOnRegistered, MuxersOnly, StartsQuiet,
     ClaimFollowsCall, ClaimsDiffer, WriterClaims, WriterHoldsClaim, Writing, At,
     DeletePositions, StartPositions
<1>1. CASE DeleteCheck(o)
  BY <1>1 DEF DeleteCheck, AfterDelete
<1>2. CASE DeleteStop(o)
  BY <1>2 DEF DeleteStop, ObsOutputStop
<1>3. CASE DeleteWait(o) \/ DeleteTimeout(o)
  BY <1>3 DEF DeleteWait, DeleteTimeout
<1>4. CASE DisconnectSignals(o)
  BY <1>4 DEF DisconnectSignals
<1>5. CASE ReleaseStop(o)
  BY <1>5 DEF ReleaseStop, ObsOutputStop
<1>6. CASE ReleaseShared(o)
  BY <1>6 DEF ReleaseShared, Exclusive
<1>7. CASE ReleaseDone(o)
  BY <1>7 DEF ReleaseDone, AfterDelete
<1>8. CASE Free(o)
  BY <1>8 DEF Free
<1>. QED
  BY <1>1, <1>2, <1>3, <1>4, <1>5, <1>6, <1>7, <1>8 DEF DeleteStep

LEMMA StartStepSafe ==
    ASSUME Exclusive, Inv, NEW o \in Outputs, StartStep(o)
    PROVE  Safe'
<1>. USE GotoFields, ReturnFields DEF Inv, Safe, TypeOK, obsVars, ActiveWhileRunning,
     StopAfterDrain, ReleasedIsQuiet, CallOnRegistered, MuxersOnly, StartsQuiet,
     ClaimFollowsCall, ClaimsDiffer, WriterClaims, WriterHoldsClaim, Writing, At,
     DeletePositions, StartPositions
<1>1. CASE CreateOutput(o)
  BY <1>1 DEF CreateOutput, FreshObsOutput
<1>2. CASE CreateOutputFails(o) \/ StartRefused(o)
  BY <1>2 DEF CreateOutputFails, StartRefused
<1>3. CASE Prepare(o)
  <2>1. CASE api.quality = "Lossless" /\ o \in Simple
    <3>1. Settled
      <4>1. api.quality \in Qualities
        BY <2>1 DEF Calls
      <4>. QED
        BY <4>1, <2>1 DEF Exclusive
    <3>2. /\ api'.pc = "delete" /\ api'.o = api.o /\ api'.op = api.op
          /\ api'.make = "ffmpeg_output"
      <4>1. api' = [api EXCEPT !.make = "ffmpeg_output", !.pc = "delete"]
        BY <1>3, <2>1 DEF Prepare
      <4>. QED
        BY <4>1 DEF Calls
    <3>. QED
      BY <1>3, <3>1, <3>2 DEF Prepare
  <2>2. CASE Goto("find")
    BY <1>3, <2>2 DEF Prepare
  <2>. QED
    BY <1>3, <2>1, <2>2 DEF Prepare
<1>4. CASE FindBestFilename(o)
  BY <1>4 DEF FindBestFilename, Candidate, Paths, MayClaim, Usable, HeldByPeer, Calls
<1>5. CASE UpdateSettings(o)
  BY <1>5 DEF UpdateSettings
<1>6. CASE ObsOutputStart(o)
  BY <1>6 DEF ObsOutputStart
<1>7. CASE ObsOutputStartFails(o)
  BY <1>7 DEF ObsOutputStartFails
<1>8. CASE StartFailed(o)
  BY <1>8, NoPathIsNoPath DEF StartFailed
<1>. QED
  BY <1>1, <1>2, <1>3, <1>4, <1>5, <1>6, <1>7, <1>8 DEF StartStep

LEMMA CallStepSafe ==
    ASSUME Exclusive, Inv, NEW o \in Outputs, CallStep(o)
    PROVE  Safe'
<1>. USE DEF Inv, Safe, TypeOK, obsVars, ActiveWhileRunning,
     StopAfterDrain, ReleasedIsQuiet, CallOnRegistered, MuxersOnly, StartsQuiet,
     ClaimFollowsCall, ClaimsDiffer, WriterClaims, WriterHoldsClaim, Writing, At,
     DeletePositions, StartPositions
<1>1. CASE Create(o)
  BY <1>1, NoPathIsNoPath DEF Create, Idle
<1>2. CASE StopRecording(o)
  BY <1>2 DEF StopRecording, ObsOutputStop, Idle
<1>3. CASE Destroy(o)
  BY <1>3 DEF Destroy, NoCall, Idle
<1>4. ASSUME NEW q \in Qualities, NEW ow \in BOOLEAN, StartRecording(o, q, ow)
      PROVE  Safe'
  BY <1>4 DEF StartRecording, NoCall, Idle, Exclusive
<1>. QED
  BY <1>1, <1>2, <1>3, <1>4 DEF CallStep

LEMMA InvInit ==
    ASSUME Init
    PROVE  Inv
<1>1. WritesPaths /\ StopAfterDrain /\ ReleasedIsQuiet /\ StartsQuiet /\ ClaimFollowsCall
  BY DEF Init, NoCall, WritesPaths, Writing, StopAfterDrain, ReleasedIsQuiet, StartsQuiet,
     ClaimFollowsCall, At, StartPositions
<1>2. ActiveWhileRunning
  BY DEF Init, ActiveWhileRunning
<1>3. CallOnRegistered /\ MuxersOnly /\ ClaimsDiffer /\ WriterClaims
  BY DEF Init, NoCall, CallOnRegistered, MuxersOnly, ClaimsDiffer, WriterClaims,
     WriterHoldsClaim, Writing, StartPositions, DeletePositions
<1>. QED
  BY <1>1, <1>2, <1>3, TypeInit DEF Inv, Safe

LEMMA InvStep ==
    ASSUME Exclusive, Inv, [Next]_vars
    PROVE  Inv'
<1>1. TypeOK' /\ WritesPaths'
  BY TypeStep DEF Inv
<1>2. Safe'
  <2>1. CASE UNCHANGED vars
    BY <2>1 DEF vars, obsVars, Inv, Safe, ActiveWhileRunning, StopAfterDrain, ReleasedIsQuiet,
       CallOnRegistered, MuxersOnly, StartsQuiet, ClaimFollowsCall, ClaimsDiffer, WriterClaims,
       WriterHoldsClaim, Writing, At
  <2>2. ASSUME NEW o \in Outputs, ObsStep(o) \/ DeleteStep(o) \/ StartStep(o) \/ CallStep(o)
        PROVE  Safe'
    BY <2>2, ObsStepSafe, DeleteStepSafe, StartStepSafe, CallStepSafe
  <2>. QED
    BY <2>1, <2>2 DEF Next
<1>. QED
  BY <1>1, <1>2 DEF Inv

(* Every state of recordings that are not restarted while they end, split or *)
(* shared satisfies the invariant.                                           *)
THEOREM InvAlways ==
    ASSUME Exclusive
    PROVE  Spec => []Inv
<1>1. Init => Inv
  BY InvInit
<1>2. Inv /\ [Next]_vars => Inv'
  BY InvStep
<1>. QED
  BY <1>1, <1>2, PTL DEF Spec

(* The file a muxer writes stays claimed by an output of the manager until   *)
(* the muxer is done, whatever calls and signals interleave.                 *)
THEOREM WritersHoldClaims ==
    ASSUME Exclusive
    PROVE  Spec => []WriterHoldsClaim
<1>1. Inv => WriterHoldsClaim
  BY DEF Inv, Safe, WriterClaims
<1>. QED
  BY <1>1, InvAlways, PTL

(* No signal handler runs on a recording that was deleted or let go of its   *)
(* output, and DeleteOutput() waits only for a stop that is still to come:   *)
(* for recordings that are not started again while they end, split or shared *)
(* by libobs or not, and for simple ones that are.                           *)
THEOREM DeletionsClean ==
    ASSUME Settled \/ Exclusive
    PROVE  Spec => []DeletionsAreClean
<1>1. Owned /\ Awaited => DeletionsAreClean
  BY DEF Owned, CallbackIsConnected, ConnectedIsOwned, CallbackOnLiveOutput,
         Awaited, StopIsAwaited, WaitsForPendingStop, Due, DeletionsAreClean
<1>2. CASE Settled
  <2>1. TypeOK /\ Owned /\ Awaited /\ [Next]_vars => Awaited'
    BY <1>2, AwaitedStep DEF AwaitedNext, Awaited
  <2>. QED
    BY <1>1, <2>1, AwaitedInit, TypeCorrect, OwnedAlways, PTL DEF Spec
<1>3. CASE Exclusive /\ ~Settled
  <2>1. Inv' => StartsSettled'
    BY <1>3 DEF Inv, Safe, StartsQuiet, StartsSettled
  <2>2. TypeOK /\ Owned /\ Awaited /\ Inv' /\ [Next]_vars => Awaited'
    BY <2>1, AwaitedStep DEF AwaitedNext, Awaited
  <2>3. Spec => []Inv
    BY <1>3, InvAlways
  <2>. QED
    BY <1>1, <2>2, <2>3, AwaitedInit, TypeCorrect, OwnedAlways, PTL DEF Spec
<1>. QED
  BY <1>2, <1>3

(* No two muxers write one file, for any number of recordings and names.     *)
THEOREM FilesNotShared ==
    ASSUME Exclusive
    PROVE  Spec => []NoSharedFile
<1>1. Inv => NoSharedFile
  BY DEF Inv, Safe, WriterClaims, WriterHoldsClaim, ClaimsDiffer, NoSharedFile
<1>. QED
  BY <1>1, InvAlways, PTL

-----------------------------------------------------------------------------
(* Refinement: what each step does to the leases. *)

LeaseOf(o) == IF o \in registered THEN claim[o] ELSE NoPath
FileOf(o) == IF Writing(o) THEN target[o] ELSE NoPath

\* The abstract variables, seen one output at a time.
LEMMA LeaseVars ==
    /\ Lease!vars = <<[o \in Outputs |-> LeaseOf(o)], [o \in Outputs |-> FileOf(o)]>>
    /\ Lease!vars' = <<[o \in Outputs |-> LeaseOf(o)'], [o \in Outputs |-> FileOf(o)']>>
BY DEF Lease!vars, LeaseOf, FileOf

LEMMA Stutters ==
    ASSUME \A p \in Outputs : LeaseOf(p)' = LeaseOf(p) /\ FileOf(p)' = FileOf(p)
    PROVE  UNCHANGED Lease!vars
BY LeaseVars

\* What changes one output's lease and nothing else drops or takes a lease.
LEMMA Drops ==
    ASSUME NEW o \in Outputs, FileOf(o) = NoPath, LeaseOf(o)' = NoPath,
           \A p \in Outputs \ {o} : LeaseOf(p)' = LeaseOf(p),
           \A p \in Outputs : FileOf(p)' = FileOf(p)
    PROVE  Lease!Next
<1>1. Lease!Drop(o)
  BY DEF Lease!Drop, LeaseOf, FileOf
<1>. QED
  BY <1>1 DEF Lease!Next

LEMMA Takes ==
    ASSUME NEW o \in Outputs, NEW q \in Paths, FileOf(o) = NoPath, LeaseOf(o)' = q,
           \A p \in Outputs \ {o} : LeaseOf(p)' = LeaseOf(p) /\ LeaseOf(p) # q,
           \A p \in Outputs : FileOf(p)' = FileOf(p)
    PROVE  Lease!Next
<1>1. Lease!Take(o, q)
  BY DEF Lease!Take, LeaseOf, FileOf
<1>. QED
  BY <1>1 DEF Lease!Next

LEMMA Begins ==
    ASSUME NEW o \in Outputs, FileOf(o) = NoPath, LeaseOf(o) # NoPath, FileOf(o)' = LeaseOf(o),
           \A p \in Outputs \ {o} : FileOf(p)' = FileOf(p),
           \A p \in Outputs : LeaseOf(p)' = LeaseOf(p)
    PROVE  Lease!Next
<1>1. Lease!BeginWriting(o)
  BY DEF Lease!BeginWriting, LeaseOf, FileOf
<1>. QED
  BY <1>1 DEF Lease!Next

LEMMA Ends ==
    ASSUME NEW o \in Outputs, FileOf(o) # NoPath, FileOf(o)' = NoPath,
           \A p \in Outputs \ {o} : FileOf(p)' = FileOf(p),
           \A p \in Outputs : LeaseOf(p)' = LeaseOf(p)
    PROVE  Lease!Next
<1>1. Lease!EndWriting(o)
  BY DEF Lease!EndWriting, LeaseOf, FileOf
<1>. QED
  BY <1>1 DEF Lease!Next

LEMMA LeaseStep ==
    ASSUME Exclusive, Inv, [Next]_vars
    PROVE  [Lease!Next]_(Lease!vars)
<1>. USE DEF LeaseOf, FileOf, Writing, TypeOK, obsVars
<1>1. ASSUME NEW o \in Outputs, ObsStep(o)
      PROVE  Lease!Next \/ UNCHANGED Lease!vars
  <2>1. CASE MuxerDone(o)
    BY <1>1, <2>1, Ends, NoPathIsNoPath DEF MuxerDone, Inv, WritesPaths
  <2>2. CASE OnOutputStopped(o)
    BY <1>1, <2>2, Drops DEF OnOutputStopped, Inv, Safe, StopAfterDrain
  <2>3. CASE EndDataCapture(o) \/ CreateFile(o) \/ OnStoppedEnd(o) \/ OnStoppedNotify(o)
    BY <1>1, <2>3, Stutters
       DEF EndDataCapture, CreateFile, OnStoppedEnd, OnStoppedNotify, Inv
  <2>. QED
    BY <1>1, <2>1, <2>2, <2>3 DEF ObsStep, SplitFile, Exclusive
<1>2. ASSUME NEW o \in Outputs, DeleteStep(o)
      PROVE  Lease!Next \/ UNCHANGED Lease!vars
  <2>1. CASE Free(o)
    BY <1>2, <2>1, Drops DEF Free, Inv, Safe, ReleasedIsQuiet
  <2>2. CASE DeleteStop(o) \/ ReleaseStop(o)
    BY <1>2, <2>2, Stutters DEF DeleteStop, ReleaseStop, ObsOutputStop, Inv
  <2>3. CASE DeleteCheck(o) \/ DeleteWait(o) \/ DeleteTimeout(o) \/ DisconnectSignals(o)
             \/ ReleaseDone(o)
    BY <1>2, <2>3, Stutters
       DEF DeleteCheck, DeleteWait, DeleteTimeout, DisconnectSignals, ReleaseDone
  <2>. QED
    BY <1>2, <2>1, <2>2, <2>3 DEF DeleteStep, ReleaseShared, Exclusive
<1>3. ASSUME NEW o \in Outputs, StartStep(o)
      PROVE  Lease!Next \/ UNCHANGED Lease!vars
  <2>1. CASE FindBestFilename(o)
    <3>1. CASE MayClaim(o)
      <4>1. PICK q \in Paths : ~HeldByPeer(q, o) /\ claim' = [claim EXCEPT ![o] = q]
        BY <2>1, <3>1 DEF FindBestFilename, Candidate, Paths, Usable
      <4>2. o \in registered /\ FileOf(o) = NoPath
        BY <2>1, <3>1 DEF FindBestFilename, At, MayClaim, Inv, Safe, CallOnRegistered,
           ActiveWhileRunning
      <4>. QED
        BY <2>1, <4>1, <4>2, Takes, NoPathIsNoPath
           DEF FindBestFilename, HeldByPeer, Inv
    <3>2. CASE ~MayClaim(o)
      BY <2>1, <3>2, Stutters DEF FindBestFilename
    <3>. QED
      BY <3>1, <3>2
  <2>2. CASE ObsOutputStart(o)
    <3>1. o \in registered /\ FileOf(o) = NoPath /\ claim[o] = api.path /\ claim[o] \in Paths
      BY <2>2 DEF ObsOutputStart, At, Inv, Safe, CallOnRegistered, ActiveWhileRunning,
         ClaimFollowsCall
    <3>. QED
      BY <2>2, <3>1, Begins, NoPathIsNoPath DEF ObsOutputStart, Inv
  <2>3. CASE StartFailed(o)
    BY <1>3, <2>3, Drops, Stutters DEF StartFailed, Inv, Safe, ActiveWhileRunning
  <2>4. CASE CreateOutput(o)
    BY <1>3, <2>4, Stutters
       DEF CreateOutput, FreshObsOutput, Inv, Safe, ReleasedIsQuiet, At
  <2>5. CASE CreateOutputFails(o) \/ Prepare(o) \/ StartRefused(o) \/ UpdateSettings(o)
             \/ ObsOutputStartFails(o)
    BY <1>3, <2>5, Stutters
       DEF CreateOutputFails, Prepare, StartRefused, UpdateSettings, ObsOutputStartFails
  <2>. QED
    BY <1>3, <2>1, <2>2, <2>3, <2>4, <2>5 DEF StartStep
<1>4. ASSUME NEW o \in Outputs, CallStep(o)
      PROVE  Lease!Next \/ UNCHANGED Lease!vars
  <2>1. CASE Create(o)
    BY <1>4, <2>1, Stutters DEF Create, Inv
  <2>2. CASE StopRecording(o)
    BY <1>4, <2>2, Stutters DEF StopRecording, ObsOutputStop, Inv
  <2>3. CASE Destroy(o)
    BY <1>4, <2>3, Stutters DEF Destroy
  <2>4. ASSUME NEW q \in Qualities, NEW ow \in BOOLEAN, StartRecording(o, q, ow)
        PROVE  UNCHANGED Lease!vars
    BY <2>4, Stutters DEF StartRecording
  <2>. QED
    BY <1>4, <2>1, <2>2, <2>3, <2>4 DEF CallStep
<1>5. CASE UNCHANGED vars
  BY <1>5, Stutters DEF vars
<1>. QED
  BY <1>1, <1>2, <1>3, <1>4, <1>5 DEF Next

(* Recordings that are not restarted while they end, split or shared         *)
(* implement the leases, for any number of recordings and names.             *)
THEOREM RecordingsLease ==
    ASSUME Exclusive
    PROVE  Spec => ImplementsLease
<1>1. Init => Lease!Init
  BY DEF Init, Lease!Init, Writing
<1>2. Inv /\ [Next]_vars => [Lease!Next]_(Lease!vars)
  BY LeaseStep
<1>. QED
  BY <1>1, <1>2, InvAlways, PTL DEF Spec, ImplementsLease, Lease!Spec
=============================================================================
