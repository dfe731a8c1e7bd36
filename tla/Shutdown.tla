------------------------------ MODULE Shutdown ------------------------------
(* The shutdown of the server on Windows: main() once its last client has    *)
(* gone, or a client's call of OBS_API_destroyOBS_API(), then                *)
(* OBS_API::destroyOBS_API() with the calls it makes on the watchdog.  Any   *)
(* step may take any time or never end; what bounds it is the watchdog.      *)
(* The trackers are those of the osn::Output objects.  The managers' loops    *)
(* delete the outputs they hold and leave the entries where they are.        *)
EXTENDS ShutdownWatchdog

CONSTANTS PrepareBudget, OutputStep, OutputCap, TeardownBudget

ASSUME ShutdownAssumption ==
    /\ {"main", "signal"} = Threads
    /\ {"Prepare", "Outputs", "Teardown"} = Stages
    /\ {PrepareBudget, OutputStep, TeardownBudget} = Budgets
    /\ Caps = {OutputCap}
    /\ OutputStep <= OutputCap

VARIABLES pc,       \* where the thread that shuts down stands
          managed,  \* outputs the managers hold
          freed,    \* outputs that have been deleted
          left,     \* outputs destroyOBS_API() has yet to delete
          current,  \* the output it is deleting
          byClient, \* this shutdown is the client's call
          start,    \* history: when this shutdown armed the watchdog
          lastStep, \* history: the last Arm() or Kick()
          lastBusy  \* history: the last time an output counted as finalizing

objects  == <<managed, freed>>
mainVars == <<pc, objects, left, current, byClient>>
history  == <<start, lastStep, lastBusy>>
allVars  == <<vars, mainVars, history>>

NoOutput == "none"

ShutdownInit ==
    /\ Init
    /\ pc = "serving"
    /\ managed \in SUBSET Trackers
    /\ freed = {}
    /\ left = {}
    /\ current = NoOutput
    /\ byClient = FALSE
    /\ start = 0
    /\ lastStep = 0
    /\ lastBusy = 0

MainAt(p) == pc = p /\ pending["main"] = Idle
Stepped == lastStep' = now

-----------------------------------------------------------------------------
\* A client stops an output while the server serves; libobs emits "stopping".
ClientStops(t) ==
    /\ MainAt("serving")
    /\ t \in managed \ freed
    /\ Begin("main", t)
    /\ UNCHANGED <<mainVars, history>>

\* libobs emits "stop" for an output that was finalizing: OnStopped().
StopSignal(t) ==
    /\ pc # "exited"
    /\ End("signal", t)
    /\ UNCHANGED <<mainVars, history>>

TrackerAdds(th) ==
    /\ pc # "exited"
    /\ AddFinalizing(th)
    /\ UNCHANGED <<mainVars, history>>

-----------------------------------------------------------------------------
\* What a second destroyOBS_API() does to the outputs the first deleted is undefined.
\* Bound: a shutdown begins while the clock has room for all its budgets.
MayShutDown ==
    /\ freed = {}
    /\ now + PrepareBudget + OutputCap + TeardownBudget < MaxNow

\* main(): no client for five seconds.
ArmPrepare ==
    /\ MainAt("serving")
    /\ MayShutDown
    /\ Arm("Prepare", PrepareBudget)
    /\ pc' = "prepare"
    /\ byClient' = FALSE
    /\ start' = now
    /\ Stepped
    /\ UNCHANGED <<objects, left, current, lastBusy>>

ClientDestroys ==
    /\ MainAt("serving")
    /\ MayShutDown
    /\ Arm("Outputs", OutputStep)
    /\ pc' = "cap"
    /\ byClient' = TRUE
    /\ start' = now
    /\ Stepped
    /\ UNCHANGED <<objects, left, current, lastBusy>>

\* finalize_global_signals() and server.finalize() are done: destroyOBS_API().
ArmOutputs ==
    /\ MainAt("prepare")
    /\ Arm("Outputs", OutputStep)
    /\ pc' = "cap"
    /\ Stepped
    /\ UNCHANGED <<objects, left, current, byClient, start, lastBusy>>

\* Mutant: the stage of the outputs has no cap.
NoOutputsCap ==
    /\ MainAt("cap")
    /\ pc' = "stop"
    /\ UNCHANGED <<vars, objects, left, current, byClient, history>>

SetOutputsCap ==
    /\ MainAt("cap")
    /\ SetCap(OutputCap)
    /\ pc' = "stop"
    /\ UNCHANGED <<objects, left, current, byClient, history>>

\* Displays, screenshots, the auto-optimizer, the legacy outputs and everything
\* else before the managers' outputs share the first step.
StopDone ==
    /\ MainAt("stop")
    /\ Running
    /\ pc' = "next"
    /\ left' = managed
    /\ UNCHANGED <<vars, objects, current, byClient, history>>

DeleteNext(t) ==
    /\ MainAt("next")
    /\ t \in left
    /\ Kick(OutputStep)
    /\ pc' = "delete"
    /\ current' = t
    /\ left' = left \ {t}
    /\ freed' = freed \cup {t}
    /\ Stepped
    /\ UNCHANGED <<managed, byClient, start, lastBusy>>

\* DeleteOutput() asks an active output to stop; libobs emits "stopping".
DeleteStops ==
    /\ MainAt("delete")
    /\ Begin("main", current)
    /\ pc' = "release"
    /\ UNCHANGED <<objects, left, current, byClient, history>>

DeleteIdle ==
    /\ MainAt("delete")
    /\ Running
    /\ pc' = "release"
    /\ UNCHANGED <<vars, objects, left, current, byClient, history>>

\* Mutant: DeleteOutput() leaves the tracker to the stop signal it disconnects.
ReleaseWithoutEnd ==
    /\ MainAt("release")
    /\ Running
    /\ pc' = "next"
    /\ UNCHANGED <<vars, objects, left, current, byClient, history>>

\* The release returned: m_finalizeTracker.End(), unless the signal ended it.
ReleaseEnds ==
    /\ MainAt("release")
    /\ \/ End("main", current)
       \/ Running /\ ~active[current] /\ UNCHANGED vars
    /\ pc' = "next"
    /\ UNCHANGED <<objects, left, current, byClient, history>>

ArmTeardown ==
    /\ MainAt("next")
    /\ left = {}
    /\ Arm("Teardown", TeardownBudget)
    /\ pc' = "teardown"
    /\ Stepped
    /\ UNCHANGED <<objects, left, current, byClient, start, lastBusy>>

\* main() ends the process; after a client's call it keeps running, disarmed.
Exit ==
    /\ MainAt("teardown")
    /\ Running
    /\ ~byClient
    /\ pc' = "exited"
    /\ UNCHANGED <<vars, objects, left, current, byClient, history>>

DisarmAfterClient ==
    /\ MainAt("teardown")
    /\ byClient
    /\ Disarm
    /\ pc' = "serving"
    /\ UNCHANGED <<objects, left, current, byClient, history>>

-----------------------------------------------------------------------------
WatchdogExpires ==
    /\ pc # "exited"
    /\ Expire
    /\ UNCHANGED <<mainVars, history>>

WatchdogTerminates ==
    /\ pc # "exited"
    /\ Terminate
    /\ UNCHANGED <<mainVars, history>>

\* The runner polls ten times a second and an expiry ends the process within a
\* second, so no unit of time passes over either; Arm() and SetCap() of the
\* outputs' stage are consecutive statements.  Only an armed watchdog needs time.
TimePasses ==
    /\ armed
    /\ pc \notin {"cap", "exited"}
    /\ runner # "expiring"
    /\ ~(runner = "waiting" /\ IsExpired)
    /\ Tick
    /\ lastBusy' = IF finalizing > 0 THEN now' ELSE lastBusy
    /\ UNCHANGED <<mainVars, start, lastStep>>

MainStep ==
    \/ ArmPrepare \/ ClientDestroys \/ ArmOutputs \/ SetOutputsCap \/ StopDone
    \/ \E t \in Trackers : ClientStops(t) \/ DeleteNext(t)
    \/ DeleteStops \/ DeleteIdle \/ ReleaseEnds \/ ArmTeardown \/ Exit
    \/ DisarmAfterClient

ShutdownNext ==
    \/ MainStep
    \/ \E t \in Trackers : StopSignal(t)
    \/ \E th \in Threads : TrackerAdds(th)
    \/ WatchdogExpires \/ WatchdogTerminates \/ TimePasses

ShutdownSpec == ShutdownInit /\ [][ShutdownNext]_allVars

\* The watchdog's thread, the clock and a thread inside AddFinalizing() run on;
\* a step of the shutdown may hang.  SetCap() follows Arm() without a call between.
ShutdownFairness ==
    /\ WF_allVars(WatchdogExpires) /\ WF_allVars(WatchdogTerminates)
    /\ WF_allVars(TimePasses)
    /\ WF_allVars(SetOutputsCap)
    /\ \A th \in Threads : WF_allVars(TrackerAdds(th))

-----------------------------------------------------------------------------
ShuttingDown == pc \notin {"serving", "exited"} /\ runner # "terminated"

(* However long its steps take and however many outputs are finalizing, a    *)
(* shutdown is over, or the process ended, within the sum of the budgets.    *)
BoundedShutdown ==
    ShuttingDown => now <= start + PrepareBudget + OutputCap + TeardownBudget

(* The watchdog decides to end the process only while it is shutting down,   *)
(* not after a client's OBS_API_destroyOBS_API(), and before the cap it ends *)
(* the outputs' stage only when for a whole step no output was deleted next  *)
(* and none counted as finalizing.                                           *)
KilledOnlyWhenStuck ==
    [][WatchdogExpires =>
         /\ ShuttingDown
         /\ stage = "Outputs" /\ ~CapReached
              => now - lastStep >= OutputStep /\ now - lastBusy >= OutputStep]_allVars

(* Every output's tracker has ended when the teardown begins, whichever of   *)
(* DeleteOutput() and OnStopped() ended it: none is left in the count.       *)
NoneFinalizingAtTeardown ==
    pc = "teardown" /\ pending["signal"] = Idle => finalizing = 0

(* A shutdown that main() has begun ends, though any of its steps may hang.  *)
ShutdownEnds == (pc = "prepare") ~> (pc = "exited" \/ runner = "terminated")

=============================================================================
