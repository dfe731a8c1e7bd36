-------------------------- MODULE OptimizerClient --------------------------
(* The client's side of an auto-optimizer run.  JavaScript starts a run and   *)
(* may cancel it; a poller thread asks the server for the session's events    *)
(* and hands them to JavaScript through a thread-safe function; the end of a  *)
(* run is carried out by a worker of the thread pool, which asks the server   *)
(* to cancel and close the session, joins the poller and lets the function    *)
(* go, after which JavaScript settles the promises.                           *)
(*                                                                            *)
(* One action of JavaScript is one turn of its thread.  The server is outside *)
(* this module: it emits a session's events in order and answers or refuses   *)
(* each call, or is lost.                                                     *)
EXTENDS Integers, Sequences

CONSTANTS
    Runs,       \* runs and their sessions, in the order they are started: 1 .. n
    MaxEvents,  \* bound: events of a session before its last one
    MaxFaults,  \* bound: calls that the server refuses, runs that fail to start, servers lost
    MaxCalls    \* bound: cancel() and shutdowns

ASSUME OptimizerClientAssumption ==
    /\ Runs \subseteq Nat \ {0} /\ \A r \in Runs : 1 .. r \subseteq Runs
    /\ MaxEvents \in Nat
    /\ MaxFaults \in Nat
    /\ MaxCalls \in Nat

VARIABLES
    \* the client's globals
    activeSessionId,    \* the session that is polled, or 0
    workerStop,         \* the poller is to stop, or none runs
    lastEventSequence,
    jsThread,           \* the run whose thread-safe function is active, or 0
    lifecycle,          \* lifecycleMutex: Free, Js or the run whose worker has it
    \* the poller thread
    poller,             \* the session it is asking about, 0 between two questions
    \* the run objects
    run,                \* [finishing, closed, result]
    finish,             \* the pool's FinishWorker of each run
    queue, tsfn,        \* events under way to JavaScript, and the function's state
    delivered,          \* the sequence of the last event JavaScript got
    \* the server
    up, session, emitted, unread,
    faults, calls       \* bounds

clientVars == <<activeSessionId, workerStop, lastEventSequence, jsThread, lifecycle>>
runVars == <<run, finish, queue, tsfn, delivered>>
serverVars == <<up, session, emitted, unread>>
vars == <<clientVars, poller, runVars, serverVars, faults, calls>>

Free == 0
Js == -1

NoRun == [finishing |-> FALSE, closed |-> FALSE, result |-> "none"]
NoFinish == [step |-> "none", cancel |-> FALSE, readResult |-> FALSE, failed |-> FALSE, closeFailed |-> FALSE]

Init ==
    /\ activeSessionId = 0 /\ workerStop = TRUE /\ lastEventSequence = -1
    /\ jsThread = 0 /\ lifecycle = Free /\ poller = 0
    /\ run = [r \in Runs |-> NoRun]
    /\ finish = [r \in Runs |-> NoFinish]
    /\ queue = [r \in Runs |-> <<>>]
    /\ tsfn = [r \in Runs |-> "none"]
    /\ delivered = [r \in Runs |-> -1]
    /\ up = TRUE
    /\ session = [r \in Runs |-> "none"]
    /\ emitted = [r \in Runs |-> 0]
    /\ unread = [r \in Runs |-> <<>>]
    /\ faults = 0
    /\ calls = 0

-----------------------------------------------------------------------------
(* The server, as far as the client sees it.                                 *)
Busy == \E r \in Runs : session[r] \in {"created", "running", "ended"}
Known(r) == session[r] \in {"created", "running", "ended"}

\* A running session emits events and ends with one that says so.
Emit(r) ==
    /\ up /\ session[r] = "running"
    /\ \E terminal \in BOOLEAN :
          /\ terminal \/ emitted[r] < MaxEvents
          /\ unread' = [unread EXCEPT ![r] = Append(@, [session |-> r, sequence |-> emitted[r], terminal |-> terminal])]
          /\ session' = IF terminal THEN [session EXCEPT ![r] = "ended"] ELSE session
    /\ emitted' = [emitted EXCEPT ![r] = @ + 1]
    /\ UNCHANGED <<clientVars, poller, runVars, up, faults, calls>>

Calls == calls < MaxCalls /\ calls' = calls + 1
Refused == faults < MaxFaults /\ faults' = faults + 1

ServerLost ==
    /\ up /\ Refused
    /\ up' = FALSE
    /\ UNCHANGED <<clientVars, poller, runVars, session, emitted, unread, calls>>

\* A call comes back without an error, or with one: the session is not known,
\* it does not stop in time, or the server is lost.
Answered == up /\ UNCHANGED faults
Cancelled(r) ==
    /\ Answered /\ Known(r)
    /\ session' = [session EXCEPT ![r] = "ended"]
    /\ unread' = IF session[r] = "ended" THEN unread
                 ELSE [unread EXCEPT ![r] = Append(@, [session |-> r, sequence |-> emitted[r], terminal |-> TRUE])]
    /\ emitted' = IF session[r] = "ended" THEN emitted ELSE [emitted EXCEPT ![r] = @ + 1]
    /\ UNCHANGED up
NotDone(r) ==
    /\ \/ ~up /\ UNCHANGED faults
       \/ up /\ ~Known(r) /\ UNCHANGED faults
       \/ up /\ session[r] = "running" /\ Refused
    /\ UNCHANGED serverVars
Closed(r) ==
    /\ Answered
    /\ session' = [session EXCEPT ![r] = "closed"]
    /\ unread' = [unread EXCEPT ![r] = <<>>]
    /\ UNCHANGED <<up, emitted>>
NotClosed(r) ==
    /\ \/ ~up /\ UNCHANGED faults
       \/ up /\ session[r] \in {"running", "ended"} /\ Refused
    /\ UNCHANGED serverVars

-----------------------------------------------------------------------------
(* Run objects.                                                              *)
JsFree == lifecycle # Js
Settled(r) == run[r].result # "none"

\* BeginFinish() when no attempt is under way and none has succeeded.
BeginFinish(r, cancel, failed) ==
    /\ run' = [run EXCEPT ![r].finishing = TRUE]
    /\ finish' = [finish EXCEPT ![r] = [step |-> "queued", cancel |-> cancel, failed |-> failed,
                                        readResult |-> ~Settled(r) /\ ~failed, closeFailed |-> FALSE]]

\* Mutant: the sequence of the last run is kept.
activateKeepingSequence(r, functionMade) ==
    /\ activeSessionId' = r
    /\ UNCHANGED lastEventSequence
    /\ jsThread' = IF functionMade THEN r ELSE jsThread
    /\ tsfn' = IF functionMade THEN [tsfn EXCEPT ![r] = "open"] ELSE tsfn

\* Run(): the server creates the session; the object is made and activated, the
\* session started and the poller with it.  A failure ends the run at once.
Activate(r, functionMade) ==
    /\ activeSessionId' = r
    /\ lastEventSequence' = IF functionMade THEN -1 ELSE lastEventSequence
    /\ jsThread' = IF functionMade THEN r ELSE jsThread
    /\ tsfn' = IF functionMade THEN [tsfn EXCEPT ![r] = "open"] ELSE tsfn

Starts(r) ==
    /\ Activate(r, TRUE)
    /\ session' = [session EXCEPT ![r] = "running"]
    /\ workerStop' = FALSE
    /\ UNCHANGED <<run, finish, faults>>
FailsToStart(r) ==
    /\ \E functionMade \in BOOLEAN : Activate(r, functionMade)
    /\ session' = [session EXCEPT ![r] = "created"]
    /\ Refused
    /\ run' = [run EXCEPT ![r].finishing = TRUE]
    /\ finish' = [finish EXCEPT ![r] = [NoFinish EXCEPT !.step = "queued", !.cancel = TRUE, !.failed = TRUE]]
    /\ UNCHANGED workerStop
\* Without an object nothing was activated; the session is closed at once.
HasNoObject(r) ==
    /\ session' = [session EXCEPT ![r] = "refused"]
    /\ Refused
    /\ UNCHANGED <<activeSessionId, lastEventSequence, workerStop, jsThread, tsfn, run, finish>>
Run(r) ==
    /\ lifecycle = Free
    /\ activeSessionId = 0 /\ workerStop
    /\ up /\ ~Busy
    /\ session[r] = "none" /\ \A earlier \in 1 .. r - 1 : session[earlier] # "none"
    /\ Starts(r) \/ FailsToStart(r) \/ HasNoObject(r)
    /\ UNCHANGED <<lifecycle, poller, queue, delivered, up, emitted, unread, calls>>

\* cancel(): returns a settled promise, the one of the attempt under way, or
\* begins an attempt.
Cancel(r) ==
    /\ JsFree /\ Calls
    /\ session[r] \notin {"none", "refused"} /\ ~run[r].closed /\ ~run[r].finishing
    /\ BeginFinish(r, TRUE, FALSE)
    /\ UNCHANGED <<clientVars, poller, queue, tsfn, delivered, serverVars, faults>>

\* An event arrives: it is passed over when the run is over or ending; one that
\* did not fit the contract ends the run, and so does the last one.
HandleEvent(r) ==
    LET event == Head(queue[r]) IN
    /\ JsFree
    /\ tsfn[r] \in {"open", "released"} /\ queue[r] # <<>>
    /\ queue' = [queue EXCEPT ![r] = Tail(@)]
    /\ IF Settled(r) \/ run[r].closed \/ run[r].finishing THEN UNCHANGED <<run, finish, delivered>>
       ELSE /\ delivered' = IF event.valid THEN [delivered EXCEPT ![r] = event.sequence] ELSE delivered
            /\ IF ~event.valid THEN BeginFinish(r, TRUE, TRUE)
               ELSE IF event.terminal THEN BeginFinish(r, FALSE, FALSE)
               ELSE UNCHANGED <<run, finish>>
    /\ UNCHANGED <<clientVars, poller, tsfn, serverVars, faults, calls>>

\* The function's finalizer runs when what was queued has been delivered, or
\* thrown away.
ReleaseCallbackReference(r) ==
    /\ JsFree
    /\ \/ tsfn[r] = "released" /\ queue[r] = <<>>
       \/ tsfn[r] = "aborted"
    /\ tsfn' = [tsfn EXCEPT ![r] = "final"]
    /\ queue' = [queue EXCEPT ![r] = <<>>]
    /\ UNCHANGED <<clientVars, poller, run, finish, delivered, serverVars, faults, calls>>

-----------------------------------------------------------------------------
(* The poller thread.                                                        *)
PollerAsks ==
    /\ ~workerStop /\ poller = 0 /\ activeSessionId # 0
    /\ poller' = activeSessionId
    /\ UNCHANGED <<clientVars, runVars, serverVars, faults, calls>>

\* An event is valid if it is of the session asked about and its sequence is
\* past the last one.
decodePolledEvent(event, r) ==
    [session |-> event.session, sequence |-> event.sequence,
     valid |-> event.session = r /\ ~(lastEventSequence >= 0 /\ event.sequence <= lastEventSequence),
     terminal |-> event.terminal]

PollerIsAnswered ==
    /\ poller # 0 /\ up /\ Known(poller) /\ unread[poller] # <<>>
    /\ LET event == decodePolledEvent(Head(unread[poller]), poller) IN
          /\ lastEventSequence' = IF event.valid THEN event.sequence ELSE lastEventSequence
          /\ queue' = IF jsThread = 0 THEN queue
                      ELSE [queue EXCEPT ![jsThread] =
                              Append(@, IF event.valid THEN event ELSE [event EXCEPT !.terminal = FALSE])]
    /\ unread' = [unread EXCEPT ![poller] = Tail(@)]
    /\ poller' = 0
    /\ UNCHANGED <<activeSessionId, workerStop, jsThread, lifecycle, run, finish, tsfn, delivered, up, session,
                   emitted, faults, calls>>

\* No event, no such session, or no server.
PollerGetsNothing ==
    /\ poller # 0
    /\ ~up \/ ~Known(poller) \/ unread[poller] = <<>>
    /\ poller' = 0
    /\ UNCHANGED <<clientVars, runVars, serverVars, faults, calls>>

Joined == poller = 0

-----------------------------------------------------------------------------
(* The pool's worker, which holds lifecycleMutex from its first call on.     *)
AtStep(r, step) == finish[r].step = step
Goes(r, step) == finish' = [finish EXCEPT ![r].step = step]

FinishBegins(r) ==
    /\ AtStep(r, "queued") /\ lifecycle = Free
    /\ lifecycle' = r
    /\ Goes(r, IF finish[r].cancel THEN "cancel" ELSE IF finish[r].readResult THEN "result" ELSE "close")
    /\ UNCHANGED <<activeSessionId, workerStop, lastEventSequence, jsThread, poller, run, queue, tsfn, delivered,
                   serverVars, faults, calls>>

FinishCancels(r) ==
    /\ AtStep(r, "cancel")
    /\ LET next == IF finish[r].readResult THEN "result" ELSE "close" IN
          \/ Cancelled(r) /\ finish' = [finish EXCEPT ![r].step = next]
          \/ NotDone(r) /\ finish' = [finish EXCEPT ![r].step = next, ![r].failed = TRUE]
    /\ UNCHANGED <<clientVars, poller, run, queue, tsfn, delivered, calls>>

\* The result of a session that has not ended is empty, which is malformed.
FinishReadsResult(r) ==
    /\ AtStep(r, "result")
    /\ finish' = [finish EXCEPT ![r].step = "close", ![r].failed = @ \/ ~up \/ session[r] # "ended"]
    /\ UNCHANGED <<clientVars, poller, run, queue, tsfn, delivered, serverVars, faults, calls>>

FinishCloses(r) ==
    /\ AtStep(r, "close")
    /\ \/ Closed(r) /\ finish' = [finish EXCEPT ![r].step = "stop"]
       \/ NotClosed(r) /\ finish' = [finish EXCEPT ![r].step = "stop", ![r].closeFailed = TRUE]
    /\ workerStop' = (workerStop \/ activeSessionId = r)
    /\ UNCHANGED <<activeSessionId, lastEventSequence, jsThread, lifecycle, poller, run, queue, tsfn, delivered, calls>>

\* Mutant: the poller is not joined.
stopWorkerUnjoined(mode) ==
    /\ workerStop' = TRUE
    /\ jsThread' = 0
    /\ tsfn' = IF jsThread = 0 THEN tsfn ELSE [tsfn EXCEPT ![jsThread] = mode]
StopWorker(mode) ==
    /\ Joined
    /\ workerStop' = TRUE
    /\ jsThread' = 0
    /\ tsfn' = IF jsThread = 0 THEN tsfn ELSE [tsfn EXCEPT ![jsThread] = mode]

\* Mutant: the session is forgotten although it could not be closed.
stopLocalSessionForgetting(r, clearSession) ==
    IF activeSessionId # r THEN UNCHANGED <<activeSessionId, workerStop, jsThread, tsfn>>
    ELSE /\ StopWorker("released")
         /\ activeSessionId' = 0

\* Only the session that is polled is stopped: another may have begun since.
StopLocalSession(r, clearSession) ==
    IF activeSessionId # r THEN UNCHANGED <<activeSessionId, workerStop, jsThread, tsfn>>
    ELSE /\ StopWorker("released")
         /\ activeSessionId' = IF clearSession THEN 0 ELSE activeSessionId

\* Mutant: the mutex is kept after the last call.
finishStopsKeepingMutex(r) ==
    /\ AtStep(r, "stop")
    /\ StopLocalSession(r, ~finish[r].closeFailed)
    /\ Goes(r, "done")
    /\ UNCHANGED <<lifecycle, lastEventSequence, poller, run, queue, delivered, serverVars, faults, calls>>

FinishStops(r) ==
    /\ AtStep(r, "stop")
    /\ StopLocalSession(r, ~finish[r].closeFailed)
    /\ lifecycle' = Free
    /\ Goes(r, "done")
    /\ UNCHANGED <<lastEventSequence, poller, run, queue, delivered, serverVars, faults, calls>>

\* Back on JavaScript's thread: the result settles once, the attempt's promise
\* with every attempt.
CompleteFinish(r) ==
    /\ JsFree
    /\ AtStep(r, "done")
    /\ run' = [run EXCEPT ![r].finishing = FALSE,
                          ![r].closed = ~finish[r].closeFailed,
                          ![r].result = IF @ # "none" THEN @
                                        ELSE IF finish[r].failed \/ finish[r].closeFailed THEN "rejected" ELSE "resolved"]
    /\ finish' = [finish EXCEPT ![r] = NoFinish]
    /\ UNCHANGED <<clientVars, poller, queue, tsfn, delivered, serverVars, faults, calls>>

-----------------------------------------------------------------------------
(* Shutdown(), when the controller disconnects or the environment ends.  It   *)
(* keeps JavaScript's thread until it is through.                            *)
BestEffort(r) == \* cancel and close, whatever they answer
    \/ up /\ UNCHANGED faults
          /\ session' = [session EXCEPT ![r] = "closed"] /\ unread' = [unread EXCEPT ![r] = <<>>]
    \/ up /\ session[r] = "running" /\ Refused /\ UNCHANGED <<session, unread>>
    \/ ~up /\ UNCHANGED <<session, unread, faults>>
ShutdownBegins ==
    /\ Calls
    /\ lifecycle = Free
    /\ lifecycle' = Js
    /\ workerStop' = TRUE
    /\ IF activeSessionId = 0 THEN UNCHANGED <<session, unread, faults>> ELSE BestEffort(activeSessionId)
    /\ UNCHANGED <<activeSessionId, lastEventSequence, jsThread, poller, runVars, up, emitted>>
\* The controller then gives up its server, and hosts a new one.
ShutdownEnds ==
    /\ lifecycle = Js
    /\ StopWorker("aborted")
    /\ activeSessionId' = 0
    /\ lifecycle' = Free
    /\ up' = TRUE
    /\ session' = [r \in Runs |-> IF Known(r) THEN "closed" ELSE session[r]]
    /\ unread' = [r \in Runs |-> <<>>]
    /\ UNCHANGED <<lastEventSequence, poller, run, finish, queue, delivered, emitted, faults, calls>>

-----------------------------------------------------------------------------
Pool(r) == FinishBegins(r) \/ FinishCancels(r) \/ FinishReadsResult(r) \/ FinishCloses(r) \/ FinishStops(r)
Poller == PollerAsks \/ PollerIsAnswered \/ PollerGetsNothing
Next ==
    \/ Poller \/ ServerLost \/ ShutdownBegins \/ ShutdownEnds
    \/ \E r \in Runs :
          \/ Emit(r) \/ Run(r) \/ Cancel(r) \/ HandleEvent(r)
          \/ ReleaseCallbackReference(r) \/ CompleteFinish(r) \/ Pool(r)
Spec == Init /\ [][Next]_vars

\* The poller goes on, every call returns in the end, the pool runs its workers,
\* a mutex that is given up is given to one that waits for it, and JavaScript's
\* thread takes up what is queued for it.
Fairness ==
    /\ WF_vars(Poller) /\ WF_vars(ShutdownEnds)
    /\ \A r \in Runs : WF_vars(Pool(r)) /\ WF_vars(CompleteFinish(r))

-----------------------------------------------------------------------------
(* Properties.                                                               *)
\* Events reach the run they are of, in the order the server made them, and
\* none is taken for one that breaks the contract: a poller of the last run or
\* its sequence would end a healthy run with an error.
EventsAreOwn ==
    \A r \in Runs :
        /\ \A i \in DOMAIN queue[r] :
              /\ queue[r][i].session = r /\ queue[r][i].valid
              /\ queue[r][i].sequence > delivered[r]
        /\ \A i, j \in DOMAIN queue[r] : i < j => queue[r][i].sequence < queue[r][j].sequence

\* "resolves after OSN closes the session" (module.ts:2506), and a result that
\* resolves does so after that as well: nothing of the session is left in the
\* server, no poller asks for it, and a new run is not refused because of it.
ClosedIsClosed ==
    \A r \in Runs : run[r].closed \/ run[r].result = "resolved" =>
        /\ session[r] = "closed"
        /\ activeSessionId # r /\ poller # r /\ jsThread # r

\* A session the server may still have is not forgotten: as long as it is open
\* the client refuses a new run, unless it was disconnected.
OpenIsKnown ==
    \A r \in Runs : Known(r) => activeSessionId = r

\* One run at a time, from its first event to the close of its session.
OneRunAtATime == EventsAreOwn /\ ClosedIsClosed /\ OpenIsKnown

\* Every attempt to end a run comes to an end, and the result with the first:
\* with the server lost, with the poller in the middle of a question, and with
\* a shutdown at the same time.
AttemptsEnd ==
    \A r \in Runs : run[r].finishing ~> (~run[r].finishing /\ Settled(r))
=============================================================================
