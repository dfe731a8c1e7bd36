-------------------------- MODULE OptimizerSession --------------------------
(* An auto-optimizer session on the server: the calls that create, start,    *)
(* cancel and close it, on IPC threads and on the thread that shuts the      *)
(* server down; the worker that runs it; the threads of a concurrent         *)
(* hardware test behind their start gate; and the libobs outputs the worker  *)
(* owns and a cancelling call borrows.  A wait with a deadline may end by    *)
(* its deadline whenever it has not ended otherwise.                         *)
EXTENDS Naturals, Sequences

CONSTANTS Sessions, NoSession,
          Callers, Nobody,
          Hardware,     \* the attempts of the concurrent hardware test
          Probes,       \* one probe per connection
          Duplicates,   \* probes that share the connection of one in Probes
          Youtube,      \* the probes whose ingest a client confirms
          MaxCalls      \* bound: calls that are made

ASSUME OptimizerAssumption ==
    /\ NoSession \notin Sessions
    /\ Nobody \notin Callers
    /\ Youtube \subseteq Probes
    /\ Hardware \cap (Probes \cup Duplicates) = {}
    /\ Probes \cap Duplicates = {}
    /\ MaxCalls \in Nat

VARIABLES activeSession, shuttingDown,
          state, cancelRequested,
          lifecycleMutex,        \* who holds it
          probeMutex,            \* who holds it; a worker's hold is one step
          activeProbeOutputs,    \* the published outputs
          confirmations,         \* of the probes that wait for one
          activeConfirmation,    \* the probe that asks now
          secrets,               \* probes whose key and server are still held
          resultJson,
          events, delivered,     \* queued for and taken by the client
          worker,                \* where runSession() stands
          outcome, todo,         \* how it ends; the probes it has yet to run
          arrived, aborted,      \* HardwareStartGate
          task,                  \* where each attempt or probe stands
          output,                \* its libobs output
          call,                  \* where each caller stands,
          op, target,            \* in which call on which session,
          sawRunning, borrowed,  \* what it saw and the outputs it borrowed
          callsLeft,
          ended,                 \* history: sessions a call said have ended
          tornDown               \* history: Shutdown() has returned

sessionVars == <<state, cancelRequested, secrets, resultJson>>
eventVars   == <<events, delivered>>
confirmVars == <<confirmations, activeConfirmation>>
workerVars  == <<worker, outcome, todo>>
gateVars    == <<arrived, aborted>>
taskVars    == <<task, output, gateVars, activeProbeOutputs>>
callerVars  == <<call, op, target, sawRunning, borrowed>>
callVars    == <<callerVars, callsLeft, lifecycleMutex, probeMutex, ended, tornDown>>
serverVars  == <<activeSession, shuttingDown>>
vars == <<sessionVars, eventVars, confirmVars, taskVars, callVars, serverVars, workerVars>>

Tasks    == Hardware \cup Probes
Outcomes == {"complete", "cancelled", "failed"}
Live     == {"preflight", "hardware", "bandwidth", "settle", "store", "announce"}
NoTask   == "none"

Idle(c) == call[c] = "idle"
Active(s, t)  == output[s][t] \in {"active", "stopping"}
Joinable(s)   == worker[s] \in {"none", "returned"}

Init ==
    /\ activeSession = NoSession
    /\ shuttingDown = FALSE
    /\ state = [s \in Sessions |-> "none"]
    /\ cancelRequested = [s \in Sessions |-> FALSE]
    /\ lifecycleMutex = [s \in Sessions |-> Nobody]
    /\ probeMutex = [s \in Sessions |-> Nobody]
    /\ activeProbeOutputs = [s \in Sessions |-> {}]
    /\ confirmations = [s \in Sessions |-> [p \in Youtube |-> "pending"]]
    /\ activeConfirmation = [s \in Sessions |-> NoTask]
    /\ secrets = [s \in Sessions |-> {}]
    /\ resultJson = [s \in Sessions |-> "none"]
    /\ events = [s \in Sessions |-> <<>>]
    /\ delivered = [s \in Sessions |-> <<>>]
    /\ worker = [s \in Sessions |-> "none"]
    /\ outcome = [s \in Sessions |-> "none"]
    /\ todo = [s \in Sessions |-> {}]
    /\ arrived = [s \in Sessions |-> {}]
    /\ aborted = [s \in Sessions |-> FALSE]
    /\ task = [s \in Sessions |-> [t \in Tasks |-> "off"]]
    /\ output = [s \in Sessions |-> [t \in Tasks |-> "none"]]
    /\ call = [c \in Callers |-> "idle"]
    /\ op = [c \in Callers |-> "none"]
    /\ target = [c \in Callers |-> NoSession]
    /\ sawRunning = [c \in Callers |-> FALSE]
    /\ borrowed = [c \in Callers |-> {}]
    /\ callsLeft = MaxCalls
    /\ ended = {}
    /\ tornDown = FALSE

pushEvents(s, codes) ==
    /\ events' = [events EXCEPT ![s] = @ \o codes]
    /\ UNCHANGED delivered

-----------------------------------------------------------------------------
(* The worker: runSession().                                                 *)

WorkerAt(s, from, to) ==
    /\ worker[s] = from
    /\ worker' = [worker EXCEPT ![s] = to]
    /\ UNCHANGED <<outcome, todo>>

EndWith(s, from, end) ==
    /\ worker[s] = from
    /\ worker' = [worker EXCEPT ![s] = "settle"]
    /\ outcome' = [outcome EXCEPT ![s] = end]
    /\ todo' = [todo EXCEPT ![s] = {}]

\* runEncoderWorkloadsConcurrently(): a failed launch aborts the gate.
runConcurrently(s, launched) ==
    /\ task' = [task EXCEPT ![s] =
                  [t \in Tasks |-> IF t \in launched THEN "begin" ELSE @[t]]]
    /\ aborted' = [aborted EXCEPT ![s] = launched \notin {{}, Hardware}]
    /\ UNCHANGED <<output, activeProbeOutputs, arrived>>

\* Ends the preflight, with a hardware test or, when the providers own every
\* encoding, without one.
Preflight(s) ==
    /\ worker[s] = "preflight"
    /\ IF cancelRequested[s]
       THEN EndWith(s, "preflight", "cancelled") /\ UNCHANGED taskVars
       ELSE /\ WorkerAt(s, "preflight", "hardware")
            /\ \E launched \in SUBSET Hardware : runConcurrently(s, launched)
    /\ UNCHANGED <<sessionVars, eventVars, confirmVars, callVars, serverVars>>

\* All futures of the hardware test have been taken: its assessment.  Exact
\* duplicates of a connection give up their credentials before any probe runs.
hardwareAssessed(s) ==
    /\ worker[s] = "hardware"
    /\ \A t \in Hardware : task[s][t] \in {"off", "done"}
    /\ IF cancelRequested[s]
       THEN EndWith(s, "hardware", "cancelled") /\ UNCHANGED secrets
       ELSE \/ EndWith(s, "hardware", "failed") /\ UNCHANGED secrets
            \/ /\ worker' = [worker EXCEPT ![s] = "bandwidth"]
               /\ todo' = [todo EXCEPT ![s] = Probes]
               /\ UNCHANGED outcome
               /\ secrets' = [secrets EXCEPT ![s] = @ \ Duplicates]
    /\ UNCHANGED <<state, cancelRequested, resultJson, eventVars, confirmVars, taskVars, callVars, serverVars>>

\* Providers are probed one after the other, YouTube's last.  The first thing
\* a probe does is to give its credentials to libobs and clear its own copy.
startProbe(s, p) ==
    /\ worker[s] = "bandwidth"
    /\ p \in todo[s]
    /\ p \in Youtube => todo[s] \subseteq Youtube
    /\ \A q \in Probes : task[s][q] = "off"
    /\ todo' = [todo EXCEPT ![s] = @ \ {p}]
    /\ task' = [task EXCEPT ![s][p] = "begin"]
    /\ secrets' = [secrets EXCEPT ![s] = @ \ {p}]
    /\ UNCHANGED <<state, cancelRequested, resultJson, eventVars, confirmVars, worker, outcome,
                   output, gateVars, activeProbeOutputs, callVars, serverVars>>

\* After a probe its confirmation is forgotten, and the run may end here.
endProbe(s, p) ==
    /\ worker[s] = "bandwidth"
    /\ task[s][p] = "done"
    /\ IF p \in Youtube
       THEN /\ confirmations' = [confirmations EXCEPT ![s][p] = "erased"]
            /\ activeConfirmation' = [activeConfirmation EXCEPT ![s] = NoTask]
       ELSE UNCHANGED confirmVars
    /\ IF cancelRequested[s]
       THEN EndWith(s, "bandwidth", "cancelled")
       ELSE UNCHANGED workerVars
    /\ task' = [task EXCEPT ![s][p] = "off"]
    /\ UNCHANGED <<sessionVars, eventVars, output, gateVars, activeProbeOutputs, callVars, serverVars>>

\* runSession() after the last probe, and completeFailed() when it has thrown.
leaveBandwidth(s) ==
    /\ worker[s] = "bandwidth"
    /\ \A p \in Probes : task[s][p] = "off"
    /\ \/ EndWith(s, "bandwidth", "failed") /\ UNCHANGED secrets
       \/ /\ todo[s] = {}
          /\ EndWith(s, "bandwidth", IF cancelRequested[s] THEN "cancelled" ELSE "complete")
          /\ secrets' = [secrets EXCEPT ![s] = {}]
    /\ UNCHANGED <<state, cancelRequested, resultJson, eventVars, confirmVars, taskVars, callVars, serverVars>>

\* The end of runSession(), completeCancelled() and completeFailed(): the
\* result is stored before the state and the state before the last event.
storeResult(s) ==
    /\ WorkerAt(s, "settle", "store")
    /\ secrets' = [secrets EXCEPT ![s] = {}]
    /\ resultJson' = [resultJson EXCEPT ![s] = outcome[s]]
    /\ UNCHANGED <<state, cancelRequested, eventVars, confirmVars, taskVars, callVars, serverVars>>

\* Mutant: the state is stored with the outcome that is known first.
storeStateAtOnce(s) ==
    /\ WorkerAt(s, "settle", "announce")
    /\ state' = [state EXCEPT ![s] = outcome[s]]
    /\ UNCHANGED <<cancelRequested, secrets, resultJson, eventVars, confirmVars, taskVars, callVars, serverVars>>

storeState(s) ==
    /\ WorkerAt(s, "store", "announce")
    /\ state' = [state EXCEPT ![s] = outcome[s]]
    /\ UNCHANGED <<cancelRequested, secrets, resultJson, eventVars, confirmVars, taskVars, callVars, serverVars>>

LastEvents(end) ==
    CASE end = "complete"  -> <<"result", "complete">>
      [] end = "cancelled" -> <<"cancelled">>
      [] end = "failed"    -> <<"error", "complete">>

announce(s) ==
    /\ WorkerAt(s, "announce", "returned")
    /\ pushEvents(s, LastEvents(outcome[s]))
    /\ UNCHANGED <<sessionVars, confirmVars, taskVars, callVars, serverVars>>

-----------------------------------------------------------------------------
(* The attempts and probes: runEncoderWorkload() and runRtmpProbe(), and     *)
(* what libobs does with their outputs.                                      *)

TaskAt(s, t, from, to) ==
    /\ task[s][t] = from
    /\ task' = [task EXCEPT ![s][t] = to]

onlyTask   == <<sessionVars, eventVars, confirmVars, callVars, serverVars, workerVars>>
stayPut(s) == UNCHANGED <<gateVars, activeProbeOutputs>>

\* Encoders, video and feeder; the output is created and published.
createOutput(s, t) ==
    \/ /\ TaskAt(s, t, "begin", "cleanup")
       /\ UNCHANGED <<output, gateVars, activeProbeOutputs, onlyTask>>
    \/ /\ t \in Probes \/ ~cancelRequested[s]
       /\ probeMutex[s] = Nobody
       /\ TaskAt(s, t, "begin", "published")
       /\ output' = [output EXCEPT ![s][t] = "idle"]
       /\ activeProbeOutputs' = [activeProbeOutputs EXCEPT ![s] = @ \cup {t}]
       /\ UNCHANGED <<gateVars, onlyTask>>

\* The look at cancelRequested before the start, which hardware attempts
\* follow with their arrival at the gate.
beforeStart(s, t) ==
    /\ task[s][t] = "published"
    /\ IF cancelRequested[s]
       THEN TaskAt(s, t, "published", "cleanup") /\ UNCHANGED gateVars
       ELSE IF t \in Hardware
            THEN /\ TaskAt(s, t, "published", "gate")
                 /\ arrived' = [arrived EXCEPT ![s] = @ \cup {t}]
                 /\ UNCHANGED aborted
            ELSE TaskAt(s, t, "published", "start") /\ UNCHANGED gateVars
    /\ UNCHANGED <<output, activeProbeOutputs, onlyTask>>

GateOpen(s) == aborted[s] \/ arrived[s] = Hardware \/ cancelRequested[s]

leaveGate(s, t) ==
    LET timedOut == ~GateOpen(s) IN
    /\ task[s][t] = "gate"
    /\ aborted' = [aborted EXCEPT ![s] = @ \/ timedOut]
    /\ UNCHANGED arrived
    /\ TaskAt(s, t, "gate", IF aborted'[s] \/ cancelRequested[s] THEN "cleanup" ELSE "start")
    /\ UNCHANGED <<output, activeProbeOutputs, onlyTask>>

\* obs_output_start(): a probe has yet to connect.
startOutput(s, t) ==
    /\ \/ TaskAt(s, t, "start", "cleanup") /\ UNCHANGED output
       \/ /\ TaskAt(s, t, "start", IF t \in Probes THEN "connect" ELSE "measure")
          /\ output' = [output EXCEPT ![s][t] = IF t \in Probes THEN "starting" ELSE "active"]
    /\ stayPut(s) /\ UNCHANGED onlyTask

ForcedStop(out) == CASE out = "starting" -> "idle"
                     [] out = "active"   -> "stopping"
                     [] OTHER            -> out

\* Wait for the connection: it is there, a cancellation ends the wait, or the
\* deadline does.  A YouTube probe then asks for its ingest to be confirmed.
connected(s, t) ==
    /\ task[s][t] = "connect"
    /\ Active(s, t)
    /\ IF t \in Youtube
       THEN /\ TaskAt(s, t, "connect", "confirm")
            /\ activeConfirmation' = [activeConfirmation EXCEPT ![s] = t]
            /\ pushEvents(s, <<"ingest">>)
            /\ UNCHANGED confirmations
       ELSE TaskAt(s, t, "connect", "measure") /\ UNCHANGED <<confirmVars, eventVars>>
    /\ stayPut(s) /\ UNCHANGED <<output, sessionVars, callVars, serverVars, workerVars>>

notConnected(s, t) ==
    /\ ~Active(s, t)
    /\ TaskAt(s, t, "connect", "cleanup")
    /\ output' = IF cancelRequested[s] THEN [output EXCEPT ![s][t] = ForcedStop(@)] ELSE output
    /\ stayPut(s) /\ UNCHANGED onlyTask

\* The wait for the confirmation.  A cancellation notifies without the lock
\* its waiter evaluates under, so only the deadline is certain to end it.
Confirmable(s, t) == cancelRequested[s] \/ confirmations[s][t] # "pending"

Confirmed(s, t) ==
    IF cancelRequested[s]
    THEN /\ TaskAt(s, t, "confirm", "cleanup")
         /\ output' = [output EXCEPT ![s][t] = ForcedStop(@)]
    ELSE /\ TaskAt(s, t, "confirm", IF confirmations[s][t] = "accepted" THEN "measure" ELSE "cleanup")
         /\ UNCHANGED output

wokenForConfirmation(s, t) ==
    /\ task[s][t] = "confirm"
    /\ Confirmable(s, t)
    /\ Confirmed(s, t)
    /\ stayPut(s) /\ UNCHANGED onlyTask

\* Mutant: the wait has no deadline and relies on being notified.
confirmationForever(s, t) ==
    /\ task[s][t] = "confirm"
    /\ confirmations[s][t] # "pending"
    /\ Confirmed(s, t)
    /\ stayPut(s) /\ UNCHANGED onlyTask

confirmationDeadline(s, t) ==
    /\ task[s][t] = "confirm"
    /\ Confirmed(s, t)
    /\ stayPut(s) /\ UNCHANGED onlyTask

\* waitForProbeInterval() and waitForScratchInterval(), over all samples: a
\* cancellation, an output that has stopped, or the end of the measurement.
measure(s, t) ==
    /\ \/ /\ cancelRequested[s]
          /\ TaskAt(s, t, "measure", "cleanup")
          /\ output' = [output EXCEPT ![s][t] = ForcedStop(@)]
       \/ /\ ~Active(s, t)
          /\ TaskAt(s, t, "measure", "cleanup")
          /\ UNCHANGED output
       \/ /\ TaskAt(s, t, "measure", "drain")
          /\ output' = [output EXCEPT ![s][t] = ForcedStop(@)]
    /\ stayPut(s) /\ UNCHANGED onlyTask

\* waitForOutputInactive() after the stop and after the force-stop.
drained(s, t) ==
    /\ TaskAt(s, t, "drain", "cleanup")
    /\ stayPut(s) /\ UNCHANGED <<output, onlyTask>>

\* ScratchResources::cleanup(): an active output is forced until it stops.  An
\* output that was not active may still connect before it is released.
forceInCleanup(s, t) ==
    /\ task[s][t] = "cleanup"
    /\ output[s][t] = "active"
    /\ output' = [output EXCEPT ![s][t] = ForcedStop(@)]
    /\ stayPut(s) /\ UNCHANGED <<task, onlyTask>>

foundInactive(s, t) ==
    /\ ~Active(s, t)
    /\ TaskAt(s, t, "cleanup", "release")
    /\ stayPut(s) /\ UNCHANGED <<output, onlyTask>>

\* Withdrawn and released under the lock; the gate's participant, which
\* outlives the resources, aborts a gate it never reached.
NeverArrived(s, t) == t \in Hardware \ arrived[s]

\* Mutant: the lock is not taken.
releaseUnlocked(s, t) ==
    /\ TaskAt(s, t, "release", "done")
    /\ activeProbeOutputs' = [activeProbeOutputs EXCEPT ![s] = @ \ {t}]
    /\ output' = [output EXCEPT ![s][t] = "none"]
    /\ aborted' = [aborted EXCEPT ![s] = @ \/ NeverArrived(s, t)]
    /\ UNCHANGED <<arrived, onlyTask>>

release(s, t) ==
    /\ probeMutex[s] = Nobody
    /\ TaskAt(s, t, "release", "done")
    /\ activeProbeOutputs' = [activeProbeOutputs EXCEPT ![s] = @ \ {t}]
    /\ output' = [output EXCEPT ![s][t] = "none"]
    /\ aborted' = [aborted EXCEPT ![s] = @ \/ NeverArrived(s, t)]
    /\ UNCHANGED <<arrived, onlyTask>>

\* libobs: a connection is made, fails or is lost; a stop takes its time.
Libobs(s, t, from, to) ==
    /\ output[s][t] = from
    /\ output' = [output EXCEPT ![s][t] = to]
    /\ stayPut(s) /\ UNCHANGED <<task, onlyTask>>

outputConnects(s, t) == Libobs(s, t, "starting", "active")
outputDrops(s, t)    == Libobs(s, t, "starting", "idle") \/ Libobs(s, t, "active", "idle")
outputStops(s, t)    == Libobs(s, t, "stopping", "idle")

-----------------------------------------------------------------------------
(* The calls.  A caller that has found a session keeps its pointer, closed   *)
(* or not, until the call returns.                                           *)

MakesCall(c) ==
    /\ Idle(c)
    /\ callsLeft > 0
    /\ callsLeft' = callsLeft - 1

Begin(c, o, s, at) ==
    /\ MakesCall(c)
    /\ call' = [call EXCEPT ![c] = at]
    /\ op' = [op EXCEPT ![c] = o]
    /\ target' = [target EXCEPT ![c] = s]
    /\ UNCHANGED <<sawRunning, borrowed>>

CallAt(c, ops, from, to) ==
    /\ op[c] \in ops
    /\ call[c] = from
    /\ call' = [call EXCEPT ![c] = to]
    /\ UNCHANGED <<op, target, sawRunning, borrowed>>

Returns(c, ops, from) ==
    /\ op[c] \in ops
    /\ call[c] = from
    /\ call' = [call EXCEPT ![c] = "idle"]
    /\ op' = [op EXCEPT ![c] = "none"]
    /\ target' = [target EXCEPT ![c] = NoSession]
    /\ sawRunning' = [sawRunning EXCEPT ![c] = FALSE]
    /\ UNCHANGED borrowed

onlyCall == <<taskVars, workerVars, confirmVars>>

\* Mutant: the flag is read before the mutex is taken only.
CreateSessionLate(c, s) ==
    /\ state[s] = "none"
    /\ activeSession = NoSession
    /\ MakesCall(c)
    /\ activeSession' = s
    /\ state' = [state EXCEPT ![s] = "created"]
    /\ secrets' = [secrets EXCEPT ![s] = Probes \cup Duplicates]
    /\ UNCHANGED <<cancelRequested, resultJson, eventVars, onlyCall, callerVars,
                   lifecycleMutex, probeMutex, ended, tornDown, shuttingDown>>

CreateSession(c, s) ==
    /\ state[s] = "none"
    /\ ~shuttingDown
    /\ activeSession = NoSession
    /\ MakesCall(c)
    /\ activeSession' = s
    /\ state' = [state EXCEPT ![s] = "created"]
    /\ secrets' = [secrets EXCEPT ![s] = Probes \cup Duplicates]
    /\ UNCHANGED <<cancelRequested, resultJson, eventVars, onlyCall, callerVars,
                   lifecycleMutex, probeMutex, ended, tornDown, shuttingDown>>

\* findSession(); CancelActiveSession() finds whatever session there is.
findSession(c, o) ==
    /\ activeSession # NoSession
    /\ Begin(c, o, activeSession, "found")
    /\ UNCHANGED <<sessionVars, eventVars, onlyCall, lifecycleMutex, probeMutex, ended, tornDown, serverVars>>

\* completeCancelled() and completeFailed() of a session no worker runs.
completeUnstarted(s, end) ==
    /\ secrets' = [secrets EXCEPT ![s] = {}]
    /\ resultJson' = [resultJson EXCEPT ![s] = end]
    /\ state' = [state EXCEPT ![s] = end]
    /\ pushEvents(s, LastEvents(end))

StartSession(c) ==
    LET s == target[c] IN
    /\ call[c] = "found"
    /\ lifecycleMutex[s] = Nobody
    /\ \/ /\ state[s] # "created"
          /\ Returns(c, {"Start"}, "found")
          /\ UNCHANGED <<sessionVars, eventVars, workerVars>>
       \/ /\ state[s] = "created"
          /\ Returns(c, {"Start"}, "found")
          /\ state' = [state EXCEPT ![s] = "running"]
          /\ WorkerAt(s, "none", "preflight")
          /\ UNCHANGED <<cancelRequested, secrets, resultJson, eventVars>>
       \/ /\ state[s] = "created"  \* the worker cannot be launched
          /\ Returns(c, {"Start"}, "found")
          /\ completeUnstarted(s, "failed")
          /\ UNCHANGED <<cancelRequested, workerVars>>
    /\ UNCHANGED <<callsLeft, lifecycleMutex, probeMutex, ended, tornDown, taskVars, confirmVars, serverVars>>

ConfirmProbeIngest(c, p, received) ==
    LET s == target[c]
        asks == state[s] = "running" /\ activeConfirmation[s] = p /\ confirmations[s][p] # "erased"
    IN
    /\ call[c] = "found"
    /\ Returns(c, {"Confirm"}, "found")
    /\ confirmations' = IF asks
                        THEN [confirmations EXCEPT ![s][p] = IF received THEN "accepted" ELSE "rejected"]
                        ELSE confirmations
    /\ UNCHANGED <<sessionVars, eventVars, activeConfirmation, workerVars, taskVars,
                   callsLeft, lifecycleMutex, probeMutex, ended, tornDown, serverVars>>

QuerySession(s) ==
    /\ activeSession = s
    /\ events[s] # <<>>
    /\ events' = [events EXCEPT ![s] = Tail(@)]
    /\ delivered' = [delivered EXCEPT ![s] = Append(@, Head(events[s]))]
    /\ UNCHANGED <<sessionVars, confirmVars, taskVars, callVars, serverVars, workerVars>>

\* requestCancellation() and the middle of Shutdown(), under the session's
\* lifecycle mutex: what they do depends on the state they find.
Enders == {"Cancel", "Close", "Shutdown"}

requestCancellation(c) ==
    LET s == target[c] IN
    /\ call[c] = "found"
    /\ lifecycleMutex[s] = Nobody
    /\ \/ /\ state[s] = "created"
          /\ cancelRequested' = [cancelRequested EXCEPT ![s] = TRUE]
          /\ completeUnstarted(s, "cancelled")
          /\ \/ /\ Returns(c, {"Cancel"}, "found")
                /\ ended' = ended \cup {s}
                /\ UNCHANGED lifecycleMutex
             \/ CallAt(c, {"Close"}, "found", "closing") /\ UNCHANGED <<ended, lifecycleMutex>>
             \/ /\ CallAt(c, {"Shutdown"}, "found", "join")
                /\ UNCHANGED ended
                /\ lifecycleMutex' = [lifecycleMutex EXCEPT ![s] = c]
       \/ /\ state[s] = "running"
          /\ cancelRequested' = [cancelRequested EXCEPT ![s] = TRUE]
          /\ op[c] \in Enders
          /\ call' = [call EXCEPT ![c] = "borrow"]
          /\ sawRunning' = [sawRunning EXCEPT ![c] = TRUE]
          /\ UNCHANGED <<op, target, borrowed>>
          /\ lifecycleMutex' = [lifecycleMutex EXCEPT ![s] = c]
          /\ UNCHANGED <<state, secrets, resultJson, eventVars, ended>>
       \/ /\ state[s] \notin {"created", "running"}
          /\ CallAt(c, Enders, "found", "join")
          /\ lifecycleMutex' = [lifecycleMutex EXCEPT ![s] = c]
          /\ UNCHANGED <<sessionVars, eventVars, ended>>
    /\ UNCHANGED <<callsLeft, probeMutex, tornDown, onlyCall, serverVars>>

\* The published outputs are borrowed under their mutex, and forced to stop.
borrowOutputs(c) ==
    LET s == target[c] IN
    /\ call[c] = "borrow"
    /\ probeMutex[s] = Nobody
    /\ probeMutex' = [probeMutex EXCEPT ![s] = c]
    /\ call' = [call EXCEPT ![c] = "force"]
    /\ borrowed' = [borrowed EXCEPT ![c] = activeProbeOutputs[s]]
    /\ UNCHANGED <<op, target, sawRunning>>
    /\ UNCHANGED <<sessionVars, eventVars, callsLeft, lifecycleMutex, ended, tornDown, onlyCall, serverVars>>

forceStopBorrowed(c) ==
    LET s == target[c] IN
    /\ call[c] = "force"
    /\ output' = [output EXCEPT ![s] =
                    [t \in Tasks |-> IF t \in borrowed[c] THEN ForcedStop(@[t]) ELSE @[t]]]
    /\ probeMutex' = [probeMutex EXCEPT ![s] = Nobody]
    /\ call' = [call EXCEPT ![c] = "join"]
    /\ borrowed' = [borrowed EXCEPT ![c] = {}]
    /\ UNCHANGED <<sessionVars, eventVars, confirmVars, workerVars, task, gateVars, activeProbeOutputs,
                   op, target, sawRunning,
                   callsLeft, lifecycleMutex, ended, tornDown, serverVars>>

\* The wait for the worker: Shutdown() waits as long as it takes, the others
\* give up after kCancelTimeoutMs.
unlock(s) == lifecycleMutex' = [lifecycleMutex EXCEPT ![s] = Nobody]

joined(c) ==
    LET s == target[c] IN
    /\ call[c] = "join"
    /\ Joinable(s)
    /\ \/ /\ Returns(c, {"Cancel"}, "join")
          /\ ended' = ended \cup {s}
          /\ UNCHANGED <<state, secrets>>
       \/ /\ CallAt(c, {"Close"}, "join", "closing")
          /\ UNCHANGED <<state, secrets, ended>>
       \/ /\ CallAt(c, {"Shutdown"}, "join", "forget")
          /\ secrets' = [secrets EXCEPT ![s] = {}]
          /\ state' = [state EXCEPT ![s] = "closed"]
          /\ UNCHANGED ended
    /\ unlock(s)
    /\ UNCHANGED <<cancelRequested, resultJson, eventVars, callsLeft, probeMutex, tornDown, onlyCall, serverVars>>

\* Mutant: the complaint is pushed and success reported.
gaveUpQuietly(c) ==
    LET s == target[c] IN
    /\ call[c] = "join"
    /\ ~Joinable(s)
    /\ \/ Returns(c, {"Cancel"}, "join") /\ ended' = ended \cup {s}
       \/ CallAt(c, {"Close"}, "join", "closing") /\ UNCHANGED ended
    /\ IF sawRunning[c]
       THEN pushEvents(s, <<"cleanup_timeout">>)
       ELSE UNCHANGED eventVars
    /\ unlock(s)
    /\ UNCHANGED <<sessionVars, callsLeft, probeMutex, tornDown, onlyCall, serverVars>>

gaveUpWaiting(c) ==
    LET s == target[c] IN
    /\ call[c] = "join"
    /\ ~Joinable(s)
    /\ Returns(c, {"Cancel", "Close"}, "join")
    /\ IF sawRunning[c]
       THEN pushEvents(s, <<"cleanup_timeout">>)
       ELSE UNCHANGED eventVars
    /\ unlock(s)
    /\ UNCHANGED <<sessionVars, callsLeft, probeMutex, ended, tornDown, onlyCall, serverVars>>

CloseSession(c) ==
    LET s == target[c] IN
    /\ call[c] = "closing"
    /\ lifecycleMutex[s] = Nobody
    /\ IF Joinable(s)
       THEN CallAt(c, {"Close"}, "closing", "forget") /\ state' = [state EXCEPT ![s] = "closed"]
       ELSE Returns(c, {"Close"}, "closing") /\ UNCHANGED state
    /\ UNCHANGED <<cancelRequested, secrets, resultJson, eventVars,
                   callsLeft, lifecycleMutex, probeMutex, ended, tornDown, onlyCall, serverVars>>

\* Mutant: whatever session there is now is forgotten.
forgetAnySession(c) ==
    /\ Returns(c, {"Close", "Shutdown"}, "forget")
    /\ ended' = ended \cup {target[c]}
    /\ activeSession' = NoSession
    /\ tornDown' = (tornDown \/ op[c] = "Shutdown")
    /\ UNCHANGED <<sessionVars, eventVars, callsLeft, lifecycleMutex, probeMutex, onlyCall, shuttingDown>>

forgetSession(c) ==
    /\ Returns(c, {"Close", "Shutdown"}, "forget")
    /\ ended' = ended \cup {target[c]}
    /\ activeSession' = IF activeSession = target[c] THEN NoSession ELSE activeSession
    /\ tornDown' = (tornDown \/ op[c] = "Shutdown")
    /\ UNCHANGED <<sessionVars, eventVars, callsLeft, lifecycleMutex, probeMutex, onlyCall, shuttingDown>>

\* Shutdown() refuses new sessions before it looks for the one there is.
Shutdown(c) ==
    /\ ~shuttingDown
    /\ Begin(c, "Shutdown", NoSession, "look")
    /\ shuttingDown' = TRUE
    /\ UNCHANGED <<sessionVars, eventVars, onlyCall, lifecycleMutex, probeMutex, ended, tornDown, activeSession>>

lookForSession(c) ==
    /\ call[c] = "look"
    /\ IF activeSession = NoSession
       THEN Returns(c, {"Shutdown"}, "look")
       ELSE /\ call' = [call EXCEPT ![c] = "found"]
            /\ target' = [target EXCEPT ![c] = activeSession]
            /\ UNCHANGED <<op, sawRunning, borrowed>>
    /\ tornDown' = (activeSession = NoSession)
    /\ UNCHANGED <<sessionVars, eventVars, callsLeft, onlyCall, lifecycleMutex, probeMutex, ended, serverVars>>

-----------------------------------------------------------------------------
\* What a thread does of itself.  The wake-up of a wait whose deadline would
\* end it too is left out: it may be lost.
WorkerStep(s) ==
    \/ Preflight(s) \/ hardwareAssessed(s)
    \/ \E p \in Probes : startProbe(s, p) \/ endProbe(s, p)
    \/ leaveBandwidth(s) \/ storeResult(s) \/ storeState(s) \/ announce(s)

TaskStep(s, t) ==
    \/ createOutput(s, t) \/ beforeStart(s, t) \/ leaveGate(s, t) \/ startOutput(s, t)
    \/ connected(s, t) \/ notConnected(s, t)
    \/ t \in Youtube /\ confirmationDeadline(s, t)
    \/ measure(s, t) \/ drained(s, t) \/ forceInCleanup(s, t) \/ foundInactive(s, t) \/ release(s, t)

CallStep(c) ==
    \/ StartSession(c) \/ requestCancellation(c)
    \/ \E p \in Youtube, received \in BOOLEAN : ConfirmProbeIngest(c, p, received)
    \/ borrowOutputs(c) \/ forceStopBorrowed(c)
    \/ joined(c) \/ gaveUpWaiting(c) \/ CloseSession(c) \/ forgetSession(c)
    \/ lookForSession(c)

NewCall(c) ==
    \/ \E s \in Sessions : CreateSession(c, s)
    \/ \E o \in {"Start", "Confirm", "Cancel", "Close"} : findSession(c, o)
    \/ Shutdown(c)

Next ==
    \/ \E c \in Callers : NewCall(c) \/ CallStep(c)
    \/ \E s \in Sessions :
         \/ WorkerStep(s) \/ QuerySession(s)
         \/ \E t \in Tasks :
              \/ TaskStep(s, t)
              \/ t \in Youtube /\ wokenForConfirmation(s, t)
              \/ outputConnects(s, t) \/ outputDrops(s, t) \/ outputStops(s, t)

\* Threads are scheduled, deadlines pass, libobs ends what it was told to stop.
Fairness ==
    /\ \A c \in Callers : WF_vars(CallStep(c))
    /\ \A s \in Sessions : WF_vars(WorkerStep(s))
    /\ \A s \in Sessions, t \in Tasks : WF_vars(TaskStep(s, t)) /\ WF_vars(outputStops(s, t))

Spec == Init /\ [][Next]_vars
FairSpec == Spec /\ Fairness

-----------------------------------------------------------------------------
SessionTypes ==
    /\ state \in [Sessions -> {"none", "created", "running", "closed"} \cup Outcomes]
    /\ cancelRequested \in [Sessions -> BOOLEAN]
    /\ secrets \in [Sessions -> SUBSET (Probes \cup Duplicates)]
    /\ resultJson \in [Sessions -> Outcomes \cup {"none"}]

WorkerTypes ==
    /\ worker \in [Sessions -> Live \cup {"none", "returned"}]
    /\ outcome \in [Sessions -> Outcomes \cup {"none"}]
    /\ todo \in [Sessions -> SUBSET Probes]

TaskTypes ==
    /\ task \in [Sessions -> [Tasks -> {"off", "begin", "published", "gate", "start", "connect", "confirm",
                                        "measure", "drain", "cleanup", "release", "done"}]]
    /\ output \in [Sessions -> [Tasks -> {"none", "idle", "starting", "active", "stopping"}]]
    /\ activeProbeOutputs \in [Sessions -> SUBSET Tasks]
    /\ arrived \in [Sessions -> SUBSET Hardware]
    /\ aborted \in [Sessions -> BOOLEAN]

ConfirmTypes ==
    /\ confirmations \in [Sessions -> [Youtube -> {"pending", "accepted", "rejected", "erased"}]]
    /\ activeConfirmation \in [Sessions -> Youtube \cup {NoTask}]

CallTypes ==
    /\ call \in [Callers -> {"idle", "found", "borrow", "force", "join", "closing", "forget", "look"}]
    /\ op \in [Callers -> {"none", "Start", "Confirm"} \cup Enders]
    /\ target \in [Callers -> Sessions \cup {NoSession}]
    /\ sawRunning \in [Callers -> BOOLEAN]
    /\ borrowed \in [Callers -> SUBSET Tasks]
    /\ \A c \in Callers : call[c] \in {"idle", "look"} \/ target[c] \in Sessions

ServerTypes ==
    /\ activeSession \in Sessions \cup {NoSession}
    /\ shuttingDown \in BOOLEAN
    /\ lifecycleMutex \in [Sessions -> Callers \cup {Nobody}]
    /\ probeMutex \in [Sessions -> Callers \cup {Nobody}]
    /\ callsLeft \in 0 .. MaxCalls
    /\ ended \subseteq Sessions
    /\ tornDown \in BOOLEAN

TypeOK == SessionTypes /\ WorkerTypes /\ TaskTypes /\ ConfirmTypes /\ CallTypes /\ ServerTypes

\* "Cancel only borrows them while holding this mutex, so it can request
\* force-stop without racing release": no output a call has borrowed is gone.
BorrowedIsAlive == \A c \in Callers : \A t \in borrowed[c] : output[target[c]][t] # "none"

\* Sessions take turns: while a worker runs, or an output of one exists, its
\* session is the server's active one, so that no two run at a time.
RunsAlone ==
    \A s \in Sessions :
        worker[s] \in Live \/ (\E t \in Tasks : output[s][t] # "none") => activeSession = s

\* "Shutdown is the last barrier before libobs teardown": once it returned no
\* worker, output or credential is left, whatever calls were under way.
TornDownIsQuiet ==
    tornDown => \A s \in Sessions :
        /\ Joinable(s)
        /\ state[s] \in {"none", "closed"}
        /\ secrets[s] = {}
        /\ \A t \in Tasks : output[s][t] = "none"

\* When a call that cancels or closes a session reports success, nothing of the
\* session runs any more and nothing of it can start.
EndedMeansEnded ==
    \A s \in ended : Joinable(s) /\ state[s] \in Outcomes \cup {"closed"}

\* Whoever sees that a session has ended finds its result and no credentials.
EndedIsSettled ==
    \A s \in Sessions : state[s] \in Outcomes \cup {"closed"} =>
        /\ secrets[s] = {}
        /\ resultJson[s] # "none"
        /\ state[s] \in Outcomes => state[s] = resultJson[s]

\* The end of a session is its end for all: for the caller it is reported to
\* and for every client that polls it, though a call may give up its wait and
\* state, result and last event are published one after the other.
EndIsComplete == EndedMeansEnded /\ EndedIsSettled

\* One session, one end, as its callers are promised.
Contract == INSTANCE SessionContract WITH active <- activeSession
ImplementsContract == Contract!Spec

\* Every call returns, Shutdown() included, although a notification of the
\* confirmation's wait may be lost and no client is obliged to confirm.
CallsReturn == \A c \in Callers : ~Idle(c) ~> Idle(c)

\* A session that was started ends, and a cancelled one says so or is past it.
RunsEnd == \A s \in Sessions : state[s] = "running" ~> Joinable(s) /\ state[s] # "running"

\* Neither waits for the other for ever: a call that cancels waits for the
\* worker, which may be waiting for a confirmation or for libobs.
EverythingEnds == CallsReturn /\ RunsEnd
=============================================================================
