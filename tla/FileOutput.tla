----------------------------- MODULE FileOutput -----------------------------
(* Recording outputs: osn::Output (osn-output.cpp), its subclass             *)
(* osn::FileOutput (osn-file-output.cpp) and the Start, Stop and Destroy     *)
(* handlers of simple and advanced recordings.  Three actors share the state *)
(* of an output: the IPC worker thread that runs the client's calls one at a *)
(* time, the libobs thread that emits "stop" and runs OnStopped(), and the   *)
(* libobs thread that ends the data capture.  A path is a base name and the  *)
(* counter FindBestFilename() inserts into it; counter 1 is the plain name.  *)
EXTENDS Naturals, FiniteSets

CONSTANTS Outputs,      \* osn::FileOutput objects
          Simple,       \* those of them that are simple recordings
          Qualities,    \* recording qualities a client sets: "Lossless", "Encoded"
          Bases,        \* names GenerateSpecifiedFilename() gives
          MaxCounter,   \* bound: the highest counter FindBestFilename() reaches
          Settled,      \* starts never race the end of a recording of the same output
          Shared,       \* libobs may keep a reference to an output that is released
          Splitting     \* recordings are split into files (enableFileSplit)

ASSUME FileOutputAssumption ==
    /\ IsFiniteSet(Outputs)
    /\ Simple \subseteq Outputs
    /\ Qualities \subseteq {"Lossless", "Encoded"}
    /\ MaxCounter \in Nat
    /\ Settled \in BOOLEAN
    /\ Shared \in BOOLEAN
    /\ Splitting \in BOOLEAN

Paths == Bases \X (1..MaxCounter)
NoPath == <<>>

VARIABLES
    registered,  \* outputs in IFileOutput::Manager
    output,      \* m_output: the id of its libobs output, or "none"
    stopped,     \* m_outputStopped
    counted,     \* m_finalizeTracker.m_active
    claim,       \* claimedFilePath
    target,      \* the file of the muxer's last run
    run,         \* libobs: what the muxer is doing
    active,      \* libobs: obs_output_active()
    stopCall,    \* libobs: where the thread that emits "stop" stands
    connected,   \* the output's handlers are connected to the libobs signals
    disk,        \* files that exist
    api          \* the IPC call in progress

obsVars == <<run, active, stopCall>>
vars == <<registered, output, stopped, counted, claim, target, obsVars,
          connected, disk, api>>

NoCall == [op |-> "none", o |-> "none", pc |-> "idle", quality |-> "none",
           make |-> "none", path |-> NoPath, overwrite |-> FALSE]

Init ==
    /\ registered = {}
    /\ output = [o \in Outputs |-> "none"]
    /\ stopped = [o \in Outputs |-> FALSE]
    /\ counted = [o \in Outputs |-> FALSE]
    /\ claim = [o \in Outputs |-> NoPath]
    /\ target = [o \in Outputs |-> NoPath]
    /\ run = [o \in Outputs |-> "idle"]
    /\ active = [o \in Outputs |-> FALSE]
    /\ stopCall = [o \in Outputs |-> "none"]
    /\ connected = [o \in Outputs |-> FALSE]
    /\ disk = {}
    /\ api = NoCall

Writing(o) == run[o] \in {"capturing", "stopping"}
InCallback(o) == stopCall[o] \in {"ended", "released"}
Idle == api.pc = "idle"
At(o, pc) == api.o = o /\ api.pc = pc
Goto(pc) == api' = [api EXCEPT !.pc = pc]
Return == api' = NoCall

\* A libobs output as obs_output_create() returns it.
FreshObsOutput(o) ==
    /\ run' = [run EXCEPT ![o] = "idle"]
    /\ active' = [active EXCEPT ![o] = FALSE]
    /\ stopCall' = [stopCall EXCEPT ![o] = "none"]

-----------------------------------------------------------------------------
(* libobs.  obs_output_stop() emits "stopping" on the calling thread; once   *)
(* the muxer has drained, "stop" and the end of the capture come from two    *)
(* threads in either order.                                                  *)

ObsOutputStop(o) ==
    IF run[o] = "capturing"
    THEN /\ run' = [run EXCEPT ![o] = "stopping"]
         /\ counted' = IF connected[o] THEN [counted EXCEPT ![o] = TRUE] ELSE counted
    ELSE UNCHANGED <<run, counted>>

\* The muxer has written the last of the file: on request, or because the
\* capture failed, when no "stopping" was emitted.
MuxerDone(o) ==
    /\ Writing(o)
    /\ stopCall[o] = "none"
    /\ Settled => ~(api.op = "start" /\ api.o = o /\ run[o] = "capturing")
    /\ run' = [run EXCEPT ![o] = "drained"]
    /\ stopCall' = [stopCall EXCEPT ![o] = "due"]
    /\ UNCHANGED <<registered, output, stopped, counted, claim, target, active,
                   connected, disk, api>>

EndDataCapture(o) ==
    /\ run[o] = "drained"
    /\ run' = [run EXCEPT ![o] = "idle"]
    /\ active' = [active EXCEPT ![o] = FALSE]
    /\ UNCHANGED <<registered, output, stopped, counted, claim, target, stopCall,
                   connected, disk, api>>

\* The muxer goes on in another file, by time, by size or by the client's
\* SplitFile().  libobs makes the name from the settings of
\* ConfigureRecFileSplitting(), without prefix, suffix or claims.
SplitFile(o) ==
    /\ Splitting
    /\ run[o] = "capturing"
    /\ \E b \in Bases \ {target[o][1]}, n \in 1..MaxCounter, ow \in BOOLEAN :
        /\ ow \/ <<b, n>> \notin disk
        /\ \A m \in 1..(n - 1) : ~ow /\ <<b, m>> \in disk
        /\ target' = [target EXCEPT ![o] = <<b, n>>]
    /\ UNCHANGED <<registered, output, stopped, counted, claim, obsVars, connected,
                   disk, api>>

\* The muxer's file appears some time after the start.
CreateFile(o) ==
    /\ Writing(o)
    /\ target[o] \notin disk
    /\ disk' = disk \cup {target[o]}
    /\ UNCHANGED <<registered, output, stopped, counted, claim, target, obsVars,
                   connected, api>>

-----------------------------------------------------------------------------
(* Output::OnStopped(), on the thread that emits "stop". *)

\* m_finalizeTracker.End(); nobody is called when nobody is connected.
OnStoppedEnd(o) ==
    /\ stopCall[o] = "due"
    /\ IF connected[o]
       THEN /\ stopCall' = [stopCall EXCEPT ![o] = "ended"]
            /\ counted' = [counted EXCEPT ![o] = FALSE]
       ELSE /\ stopCall' = [stopCall EXCEPT ![o] = "none"]
            /\ UNCHANGED counted
    /\ UNCHANGED <<registered, output, stopped, claim, target, run, active,
                   connected, disk, api>>

OnOutputStopped(o) ==
    /\ stopCall[o] = "ended"
    /\ stopCall' = [stopCall EXCEPT ![o] = "released"]
    /\ claim' = [claim EXCEPT ![o] = NoPath]
    /\ UNCHANGED <<registered, output, stopped, counted, target, run, active,
                   connected, disk, api>>

\* Mutants: the flag is not set; DeleteOutput() disconnects under m_mtxOutputStop.
OnStoppedForgets(o) ==
    /\ stopCall[o] = "released"
    /\ stopCall' = [stopCall EXCEPT ![o] = "none"]
    /\ UNCHANGED <<registered, output, stopped, counted, claim, target, run, active,
                   connected, disk, api>>

OnStoppedLockedOut(o) ==
    /\ stopCall[o] = "released"
    /\ ~At(o, "disconnect")
    /\ stopCall' = [stopCall EXCEPT ![o] = "none"]
    /\ stopped' = [stopped EXCEPT ![o] = TRUE]
    /\ UNCHANGED <<registered, output, counted, claim, target, run, active,
                   connected, disk, api>>

OnStoppedNotify(o) ==
    /\ stopCall[o] = "released"
    /\ stopCall' = [stopCall EXCEPT ![o] = "none"]
    /\ stopped' = [stopped EXCEPT ![o] = TRUE]
    /\ UNCHANGED <<registered, output, counted, claim, target, run, active,
                   connected, disk, api>>

-----------------------------------------------------------------------------
(* The client's calls. *)

Create(o) ==
    /\ Idle
    /\ o \notin registered
    /\ registered' = registered \cup {o}
    /\ claim' = [claim EXCEPT ![o] = NoPath]
    /\ stopped' = [stopped EXCEPT ![o] = FALSE]
    /\ UNCHANGED <<output, counted, target, obsVars, connected, disk, api>>

\* A simple recording makes a new libobs output unless it has an "ffmpeg_output".
StartRecording(o, q, ow) ==
    /\ Idle
    /\ o \in registered
    /\ Settled => (run[o] = "capturing" \/ (run[o] = "idle" /\ stopCall[o] = "none"))
    /\ api' = [NoCall EXCEPT !.op = "start", !.o = o, !.quality = q, !.overwrite = ow,
                 !.make = "ffmpeg_muxer",
                 !.pc = IF output[o] = "none" \/ (o \in Simple /\ output[o] = "ffmpeg_muxer")
                        THEN "delete" ELSE "prepare"]
    /\ UNCHANGED <<registered, output, stopped, counted, claim, target, obsVars,
                   connected, disk>>

StopRecording(o) ==
    /\ Idle
    /\ o \in registered
    /\ output[o] # "none"
    /\ ObsOutputStop(o)
    /\ UNCHANGED <<registered, output, stopped, claim, target, active, stopCall,
                   connected, disk, api>>

\* Mutant: deregister first and leave the stop to the destructor.
DestroyDeregistersFirst(o) ==
    /\ Idle
    /\ o \in registered
    /\ registered' = registered \ {o}
    /\ api' = [NoCall EXCEPT !.op = "destroy", !.o = o, !.pc = "delete"]
    /\ UNCHANGED <<output, stopped, counted, claim, target, obsVars, connected, disk>>

Destroy(o) ==
    /\ Idle
    /\ o \in registered
    /\ api' = [NoCall EXCEPT !.op = "destroy", !.o = o, !.pc = "delete"]
    /\ UNCHANGED <<registered, output, stopped, counted, claim, target, obsVars,
                   connected, disk>>

-----------------------------------------------------------------------------
(* Output::DeleteOutput(), then what its caller does next. *)

AfterDelete == IF api.op = "destroy" THEN "free" ELSE "create"

DeleteCheck(o) ==
    /\ At(o, "delete")
    /\ Goto(CASE output[o] = "none" -> AfterDelete
              [] output[o] # "none" /\ active[o] /\ ~stopped[o] -> "stop"
              [] OTHER -> "disconnect")
    /\ UNCHANGED <<registered, output, stopped, counted, claim, target, obsVars,
                   connected, disk>>

DeleteStop(o) ==
    /\ At(o, "stop")
    /\ ObsOutputStop(o)
    /\ Goto("wait")
    /\ UNCHANGED <<registered, output, stopped, claim, target, active, stopCall,
                   connected, disk>>

\* m_cvStop.wait_for(20 s): notified, or the muxer outlasts the wait.
DeleteWait(o) ==
    /\ At(o, "wait")
    /\ stopped[o]
    /\ Goto("disconnect")
    /\ UNCHANGED <<registered, output, stopped, counted, claim, target, obsVars,
                   connected, disk>>

DeleteTimeout(o) ==
    /\ At(o, "wait")
    /\ ~stopped[o]
    /\ Goto("disconnect")
    /\ UNCHANGED <<registered, output, stopped, counted, claim, target, obsVars,
                   connected, disk>>

\* Mutant: the handlers stay connected.
StaysConnected(o) ==
    /\ At(o, "disconnect")
    /\ ~InCallback(o)
    /\ Goto("release")
    /\ UNCHANGED <<registered, output, stopped, counted, claim, target, obsVars,
                   connected, disk>>

\* DisconnectSignals(): libobs waits for a handler that is running.
DisconnectSignals(o) ==
    /\ At(o, "disconnect")
    /\ ~InCallback(o)
    /\ connected' = [connected EXCEPT ![o] = FALSE]
    /\ Goto("release")
    /\ UNCHANGED <<registered, output, stopped, counted, claim, target, obsVars, disk>>

\* obs_output_release() of the last reference stops the output and blocks
\* until its muxer has drained and its threads are gone; while another reference
\* exists the release returns at once and the libobs output lives on.
ReleaseStop(o) ==
    /\ At(o, "release")
    /\ ObsOutputStop(o)
    /\ Goto("released")
    /\ UNCHANGED <<registered, output, stopped, claim, target, active, stopCall,
                   connected, disk>>

ReleaseShared(o) ==
    /\ Shared
    /\ At(o, "release")
    /\ output' = [output EXCEPT ![o] = "none"]
    /\ counted' = [counted EXCEPT ![o] = FALSE]
    /\ Goto(AfterDelete)
    /\ UNCHANGED <<registered, stopped, claim, target, obsVars, connected, disk>>

\* Mutant: no End() after the release.
ReleaseWithoutEnd(o) ==
    /\ At(o, "released")
    /\ run[o] = "idle"
    /\ stopCall[o] = "none"
    /\ output' = [output EXCEPT ![o] = "none"]
    /\ Goto(AfterDelete)
    /\ UNCHANGED <<registered, stopped, counted, claim, target, obsVars, connected,
                   disk>>

ReleaseDone(o) ==
    /\ At(o, "released")
    /\ run[o] = "idle"
    /\ stopCall[o] = "none"
    /\ output' = [output EXCEPT ![o] = "none"]
    /\ counted' = [counted EXCEPT ![o] = FALSE]
    /\ Goto(AfterDelete)
    /\ UNCHANGED <<registered, stopped, claim, target, obsVars, connected, disk>>

\* Destroy: deregister, then delete the object, whose tracker ends with it.
Free(o) ==
    /\ At(o, "free")
    /\ registered' = registered \ {o}
    /\ counted' = [counted EXCEPT ![o] = FALSE]
    /\ Return
    /\ UNCHANGED <<output, stopped, claim, target, obsVars, connected, disk>>

-----------------------------------------------------------------------------
(* The rest of Start. *)

\* CreateOutput() after its DeleteOutput(): obs_output_create() and InitOutput().
CreateOutput(o) ==
    /\ At(o, "create")
    /\ output' = [output EXCEPT ![o] = api.make]
    /\ stopped' = [stopped EXCEPT ![o] = FALSE]
    /\ connected' = [connected EXCEPT ![o] = TRUE]
    /\ FreshObsOutput(o)
    /\ target' = [target EXCEPT ![o] = NoPath]
    /\ Goto(IF api.make = "ffmpeg_output" THEN "find" ELSE "prepare")
    /\ UNCHANGED <<registered, counted, claim, disk>>

CreateOutputFails(o) ==
    /\ At(o, "create")
    /\ stopped' = [stopped EXCEPT ![o] = FALSE]
    /\ Return
    /\ UNCHANGED <<registered, output, counted, claim, target, obsVars, connected, disk>>

\* A lossless simple recording replaces its output by an "ffmpeg_output".
Prepare(o) ==
    /\ At(o, "prepare")
    /\ IF o \in Simple /\ api.quality = "Lossless"
       THEN api' = [api EXCEPT !.make = "ffmpeg_output", !.pc = "delete"]
       ELSE Goto("find")
    /\ UNCHANGED <<registered, output, stopped, counted, claim, target, obsVars,
                   connected, disk>>

\* No encoder, an incompatible one, no path or a path that is refused.
StartRefused(o) ==
    /\ At(o, "find")
    /\ Return
    /\ UNCHANGED <<registered, output, stopped, counted, claim, target, obsVars,
                   connected, disk>>

\* Mutant: overwrite suppresses the check of the claims as well.
HeldUnlessOverwrite(p, o) == ~api.overwrite /\ \E q \in registered \ {o} : claim[q] = p

Candidate(b, n) == <<b, n>>
MayClaim(o) == ~active[o]
HeldByPeer(p, o) == \E q \in registered \ {o} : claim[q] = p
OnDisk(p) == ~api.overwrite /\ p \in disk
Usable(p, o) == ~OnDisk(p) /\ ~HeldByPeer(p, o)

FindBestFilename(o) ==
    /\ At(o, "find")
    /\ \E b \in Bases, n \in 1..MaxCounter :
        /\ Usable(Candidate(b, n), o)
        /\ \A m \in 1..(n - 1) : ~Usable(Candidate(b, m), o)
        /\ claim' = IF MayClaim(o) THEN [claim EXCEPT ![o] = Candidate(b, n)] ELSE claim
        /\ api' = [api EXCEPT !.path = Candidate(b, n), !.pc = "update"]
    /\ UNCHANGED <<registered, output, stopped, counted, target, obsVars, connected,
                   disk>>

\* obs_output_update() puts the path in the settings, which the muxer reads when
\* it starts; StartOutput() resets m_outputStopped.
UpdateSettings(o) ==
    /\ At(o, "update")
    /\ stopped' = [stopped EXCEPT ![o] = FALSE]
    /\ Goto("start")
    /\ UNCHANGED <<registered, output, counted, claim, target, obsVars, connected,
                   disk>>

ObsOutputStart(o) ==
    /\ At(o, "start")
    /\ ~active[o]
    /\ active' = [active EXCEPT ![o] = TRUE]
    /\ run' = [run EXCEPT ![o] = "capturing"]
    /\ target' = [target EXCEPT ![o] = api.path]
    /\ Return
    /\ UNCHANGED <<registered, output, stopped, counted, claim, stopCall,
                   connected, disk>>

\* Refused by an active output, or failed for a reason of its own.
ObsOutputStartFails(o) ==
    /\ At(o, "start")
    /\ Goto("failed")
    /\ UNCHANGED <<registered, output, stopped, counted, claim, target, obsVars,
                   connected, disk>>

StartFailed(o) ==
    /\ At(o, "failed")
    /\ claim' = IF active[o] THEN claim ELSE [claim EXCEPT ![o] = NoPath]
    /\ Return
    /\ UNCHANGED <<registered, output, stopped, counted, target, obsVars, connected,
                   disk>>

-----------------------------------------------------------------------------
ObsStep(o) ==
    \/ MuxerDone(o) \/ EndDataCapture(o) \/ SplitFile(o) \/ CreateFile(o)
    \/ OnStoppedEnd(o) \/ OnOutputStopped(o) \/ OnStoppedNotify(o)

DeleteStep(o) ==
    \/ DeleteCheck(o) \/ DeleteStop(o) \/ DeleteWait(o) \/ DeleteTimeout(o)
    \/ DisconnectSignals(o) \/ ReleaseStop(o) \/ ReleaseShared(o) \/ ReleaseDone(o) \/ Free(o)

StartStep(o) ==
    \/ CreateOutput(o) \/ CreateOutputFails(o) \/ Prepare(o) \/ StartRefused(o)
    \/ FindBestFilename(o) \/ UpdateSettings(o)
    \/ ObsOutputStart(o) \/ ObsOutputStartFails(o) \/ StartFailed(o)

CallStep(o) ==
    \/ Create(o) \/ StopRecording(o) \/ Destroy(o)
    \/ \E q \in Qualities, ow \in BOOLEAN : StartRecording(o, q, ow)

Next == \E o \in Outputs : ObsStep(o) \/ DeleteStep(o) \/ StartStep(o) \/ CallStep(o)

Spec == Init /\ [][Next]_vars

\* libobs' threads and the IPC worker run, and a muxer that is asked to stop
\* drains; the client calls when it likes and a capture may go on for ever.
Fairness == \A o \in Outputs :
    /\ WF_vars(run[o] = "stopping" /\ MuxerDone(o)) /\ WF_vars(EndDataCapture(o))
    /\ WF_vars(OnStoppedEnd(o)) /\ WF_vars(OnOutputStopped(o))
    /\ WF_vars(OnStoppedNotify(o))
    /\ WF_vars(DeleteStep(o)) /\ WF_vars(StartStep(o))

FairSpec == Spec /\ Fairness

-----------------------------------------------------------------------------
PathOrNone == Paths \cup {NoPath}

StartPositions == {"create", "prepare", "find", "update", "start", "failed"}
DeletePositions == {"delete", "stop", "wait", "disconnect", "release", "released"}

Calls == [op : {"none", "start", "destroy"},
          o : Outputs \cup {"none"},
          pc : {"idle", "free"} \cup DeletePositions \cup StartPositions,
          quality : Qualities \cup {"none"},
          make : {"none", "ffmpeg_muxer", "ffmpeg_output"},
          path : PathOrNone,
          overwrite : BOOLEAN]

TypeOK ==
    /\ registered \subseteq Outputs
    /\ output \in [Outputs -> {"none", "ffmpeg_muxer", "ffmpeg_output"}]
    /\ stopped \in [Outputs -> BOOLEAN]
    /\ counted \in [Outputs -> BOOLEAN]
    /\ claim \in [Outputs -> PathOrNone]
    /\ target \in [Outputs -> PathOrNone]
    /\ run \in [Outputs -> {"idle", "capturing", "stopping", "drained"}]
    /\ active \in [Outputs -> BOOLEAN]
    /\ stopCall \in [Outputs -> {"none", "due", "ended", "released"}]
    /\ connected \in [Outputs -> BOOLEAN]
    /\ disk \subseteq Paths
    /\ api \in Calls

(* Two muxers never write the same file (osn-file-output.hpp: "two muxers on *)
(* one file corrupt it"), whatever overwrite says and however the start of   *)
(* one output interleaves with the stop of another.                          *)
NoSharedFile ==
    \A o, p \in Outputs : o # p /\ Writing(o) /\ Writing(p) => target[o] # target[p]

(* The file a muxer writes is claimed by its output, and the output is where *)
(* FindBestFilename() looks for claims, until the muxer is done with it.     *)
WriterHoldsClaim ==
    \A o \in Outputs : Writing(o) => o \in registered /\ claim[o] = target[o]

(* OnStopped() runs only on an output that still exists and still owns the   *)
(* libobs output that called it.                                             *)
CallbackOnLiveOutput ==
    \A o \in Outputs : InCallback(o) => o \in registered /\ output[o] # "none"

(* An output with no libobs output is not counted as finalizing: a leaked    *)
(* count would let a hung shutdown run to the watchdog's cap.                *)
NoLeakedFinalize ==
    \A o \in Outputs : counted[o] => output[o] # "none" /\ (connected[o] \/ api.o = o)

(* When DeleteOutput() waits for the stop, the stop is still to come: it is  *)
(* not one that was delivered and then forgotten by a reset of the flag.     *)
WaitsForPendingStop ==
    \A o \in Outputs : At(o, "wait") /\ ~stopped[o] => Writing(o) \/ stopCall[o] # "none"

(* An output that was deleted, or let go of its libobs output, is left alone: *)
(* no signal handler runs on it, and no deletion waits for a stop that was   *)
(* forgotten.                                                                *)
DeletionsAreClean == CallbackOnLiveOutput /\ WaitsForPendingStop

(* Every call returns, even when the muxer outlasts the wait of              *)
(* DeleteOutput(): libobs ends every muxer it was asked to stop.             *)
CallReturns == \A o \in Outputs : (api.o = o) ~> (api.o # o)

(* The claims and muxers of the recordings implement FileLease: a claim is a *)
(* lease while its output is in the manager.                                 *)
Lease == INSTANCE FileLease WITH
    lease  <- [o \in Outputs |-> IF o \in registered THEN claim[o] ELSE NoPath],
    writes <- [o \in Outputs |-> IF Writing(o) THEN target[o] ELSE NoPath]

ImplementsLease == Lease!Spec

=============================================================================
