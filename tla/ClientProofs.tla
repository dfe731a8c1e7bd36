--------------------------- MODULE ClientProofs ---------------------------
(* Proofs about the client.  OptimizerClient, for any number of runs, events,*)
(* calls and faults: its types, and that the client has one run at a time,   *)
(* from the first event it gets to the close of its session.  OutputObjects, *)
(* for any number of wrappers of any classes and of connections: the garbage *)
(* collector frees nothing that is used, and what getters give is what the   *)
(* server uses.                                                              *)
EXTENDS OptimizerClient, OutputObjects, TLAPS

-----------------------------------------------------------------------------
(* The inductive invariant.  It follows a session from the server's unread   *)
(* events through the poller to JavaScript's queue, and an attempt to end a  *)
(* run from the pool's worker to the promises.                               *)

Positions == {"none", "queued", "cancel", "result", "close", "stop", "done"}
SessionStates == {"none", "refused", "created", "running", "ended", "closed"}
ServerEvents == [session : Runs, sequence : Nat, terminal : BOOLEAN]
DecodedEvents == [session : Runs, sequence : Nat, valid : BOOLEAN, terminal : BOOLEAN]
RunObjects == [finishing : BOOLEAN, closed : BOOLEAN, result : {"none", "resolved", "rejected"}]
Workers == [step : Positions, cancel : BOOLEAN, readResult : BOOLEAN, failed : BOOLEAN,
            closeFailed : BOOLEAN]

TypeOK ==
    /\ activeSessionId \in Runs \cup {0}
    /\ workerStop \in BOOLEAN
    /\ lastEventSequence \in Int
    /\ jsThread \in Runs \cup {0}
    /\ lifecycle \in Runs \cup {Free, Js}
    /\ poller \in Runs \cup {0}
    /\ run \in [Runs -> RunObjects]
    /\ finish \in [Runs -> Workers]
    /\ queue \in [Runs -> Seq(DecodedEvents)]
    /\ tsfn \in [Runs -> {"none", "open", "released", "aborted", "final"}]
    /\ delivered \in [Runs -> Int]
    /\ up \in BOOLEAN
    /\ session \in [Runs -> SessionStates]
    /\ emitted \in [Runs -> Nat]
    /\ unread \in [Runs -> Seq(ServerEvents)]
    /\ faults \in 0 .. MaxFaults
    /\ calls \in 0 .. MaxCalls

\* A run without a session has no object: nothing was done for it.
NotBegun(r) == session[r] \in {"none", "refused"}
BegunFirst ==
    \A r \in Runs : NotBegun(r) =>
        /\ activeSessionId # r
        /\ finish[r].step = "none" /\ ~run[r].closed /\ run[r].result = "none"
        /\ queue[r] = <<>> /\ delivered[r] = -1
        /\ unread[r] = <<>> /\ emitted[r] = 0

\* The poller and the function are those of the session that is polled.
OnlyActive ==
    /\ poller # 0 => poller = activeSessionId
    /\ jsThread # 0 => jsThread = activeSessionId
    /\ activeSessionId = 0 => workerStop

\* An attempt is under way while the pool has its worker.
AttemptOfWorker == \A r \in Runs : run[r].finishing <=> finish[r].step # "none"

\* An attempt that could close its session leaves it closed, then forgotten.
AttemptCloses ==
    \A r \in Runs :
        /\ finish[r].step \in {"queued", "cancel", "result", "close"} => ~finish[r].closeFailed
        /\ finish[r].step \in {"stop", "done"} /\ ~finish[r].closeFailed => session[r] = "closed"
        /\ finish[r].step = "done" /\ ~finish[r].closeFailed => activeSessionId # r

\* A run that is closed stays so: no attempt to end it begins again.
ClosedStays ==
    \A r \in Runs :
        /\ run[r].result = "resolved" => run[r].closed
        /\ run[r].closed => session[r] = "closed" /\ activeSessionId # r /\ finish[r].step = "none"

\* The server keeps a session's events in order.
UnreadInOrder ==
    \A r \in Runs :
        /\ \A i \in DOMAIN unread[r] :
              unread[r][i].session = r /\ unread[r][i].sequence < emitted[r]
        /\ \A i, j \in DOMAIN unread[r] : i < j => unread[r][i].sequence < unread[r][j].sequence

\* What the poller may still get is past the last event it got.
Polled(r) == poller = r \/ (activeSessionId = r /\ ~workerStop)
UnreadIsNew ==
    \A r \in Runs : Polled(r) =>
        /\ lastEventSequence < emitted[r]
        /\ \A i \in DOMAIN unread[r] : lastEventSequence < unread[r][i].sequence

\* What is queued for JavaScript is not past it.
QueuedIsOld ==
    \A r \in Runs : jsThread = r =>
        /\ delivered[r] <= lastEventSequence
        /\ \A i \in DOMAIN queue[r] : queue[r][i].sequence <= lastEventSequence

Control ==
    /\ BegunFirst
    /\ OnlyActive
    /\ AttemptOfWorker
    /\ AttemptCloses
    /\ ClosedStays
    /\ OpenIsKnown

Order ==
    /\ UnreadInOrder
    /\ UnreadIsNew
    /\ QueuedIsOld
    /\ EventsAreOwn

Inv == TypeOK /\ Control /\ Order

-----------------------------------------------------------------------------
(* Types. *)

LEMMA TypeInit ==
    ASSUME OptimizerClientAssumption, Init
    PROVE  TypeOK
<1>1. workerStop \in BOOLEAN /\ up \in BOOLEAN
  BY Zenon DEF Init
<1>2. NoRun \in RunObjects /\ NoFinish \in Workers
  BY DEF NoRun, NoFinish, RunObjects, Workers, Positions
<1>3. 0 \in 0 .. MaxFaults /\ 0 \in 0 .. MaxCalls
  BY DEF OptimizerClientAssumption
<1>. QED
  BY <1>1, <1>2, <1>3 DEF Init, TypeOK, SessionStates

\* Adding to a worker's or a run's fields keeps their types.
LEMMA BeginFinishType ==
    ASSUME TypeOK, NEW r \in Runs, NEW cancel \in BOOLEAN, NEW failed \in BOOLEAN,
           BeginFinish(r, cancel, failed)
    PROVE  run' \in [Runs -> RunObjects] /\ finish' \in [Runs -> Workers]
<1> DEFINE reads == ~Settled(r) /\ ~failed
<1>1. reads \in BOOLEAN
  BY Zenon DEF Settled
<1>2. finish' = [finish EXCEPT ![r] = [step |-> "queued", cancel |-> cancel, failed |-> failed,
                                       readResult |-> reads, closeFailed |-> FALSE]]
  BY Zenon DEF BeginFinish
<1> HIDE DEF reads
<1>3. finish' \in [Runs -> Workers]
  BY <1>1, <1>2 DEF TypeOK, Workers, Positions
<1>4. run' = [run EXCEPT ![r].finishing = TRUE]
  BY DEF BeginFinish
<1>5. run' \in [Runs -> RunObjects]
  BY <1>4 DEF TypeOK, RunObjects
<1>. QED
  BY <1>3, <1>5

LEMMA SettledType ==
    ASSUME NEW old \in [Runs -> RunObjects], NEW r \in Runs, NEW shut \in BOOLEAN,
           NEW told \in {"none", "resolved", "rejected"}
    PROVE  [old EXCEPT ![r].finishing = FALSE, ![r].closed = shut, ![r].result = told] \in [Runs -> RunObjects]
BY ZenonT(30) DEF RunObjects

LEMMA FailedType ==
    ASSUME NEW old \in [Runs -> Workers], NEW r \in Runs, NEW step \in Positions, NEW flag \in BOOLEAN
    PROVE  /\ [old EXCEPT ![r].step = step, ![r].failed = flag] \in [Runs -> Workers]
           /\ [old EXCEPT ![r].step = step, ![r].closeFailed = flag] \in [Runs -> Workers]
           /\ [old EXCEPT ![r].step = step] \in [Runs -> Workers]
BY DEF Workers

LEMMA GoesType ==
    ASSUME TypeOK, NEW r \in Runs, NEW step \in Positions, Goes(r, step)
    PROVE  finish' \in [Runs -> Workers]
BY ZenonT(30) DEF TypeOK, Goes, Workers

LEMMA RefusedType ==
    ASSUME OptimizerClientAssumption, TypeOK, Refused
    PROVE  faults' \in 0 .. MaxFaults
BY DEF OptimizerClientAssumption, TypeOK, Refused

LEMMA CallsType ==
    ASSUME OptimizerClientAssumption, TypeOK, Calls
    PROVE  calls' \in 0 .. MaxCalls
BY DEF OptimizerClientAssumption, TypeOK, Calls

LEMMA StopWorkerType ==
    ASSUME TypeOK, NEW mode \in {"released", "aborted"}, StopWorker(mode)
    PROVE  /\ workerStop' \in BOOLEAN /\ jsThread' \in Runs \cup {0}
           /\ tsfn' \in [Runs -> {"none", "open", "released", "aborted", "final"}]
<1>1. workerStop' \in BOOLEAN
  BY Zenon DEF StopWorker
<1>. QED
  BY <1>1 DEF TypeOK, StopWorker

LEMMA EmitType ==
    ASSUME OptimizerClientAssumption, TypeOK, NEW r \in Runs, Emit(r)
    PROVE  TypeOK'
<1>1. PICK terminal \in BOOLEAN :
        /\ unread' = [unread EXCEPT ![r] =
             Append(@, [session |-> r, sequence |-> emitted[r], terminal |-> terminal])]
        /\ session' = IF terminal THEN [session EXCEPT ![r] = "ended"] ELSE session
  BY DEF Emit
<1>2. unread' \in [Runs -> Seq(ServerEvents)]
  BY <1>1 DEF TypeOK, ServerEvents
<1>3. session' \in [Runs -> SessionStates]
  BY <1>1 DEF TypeOK, SessionStates
<1>4. emitted' \in [Runs -> Nat]
  <2>1. emitted' = [emitted EXCEPT ![r] = @ + 1]
    BY DEF Emit
  <2>2. emitted \in [Runs -> Nat]
    BY DEF TypeOK
  <2>. QED
    BY <2>1, <2>2
<1>5. UNCHANGED <<clientVars, poller, runVars, up, faults, calls>>
  BY DEF Emit
<1>. QED
  BY <1>2, <1>3, <1>4, <1>5 DEF TypeOK, clientVars, runVars

LEMMA RunType ==
    ASSUME OptimizerClientAssumption, TypeOK, NEW r \in Runs, Run(r)
    PROVE  TypeOK'
<1> USE DEF TypeOK, Run, SessionStates
<1>1. CASE Starts(r)
  <2>1. workerStop' \in BOOLEAN
    BY <1>1, Zenon DEF Starts
  <2>. QED
    BY SMTT(30), <1>1, <2>1 DEF Starts, Activate
<1>2. CASE FailsToStart(r)
  <2>1. faults' \in 0 .. MaxFaults
    BY <1>2, RefusedType DEF FailsToStart
  <2>2. finish' \in [Runs -> Workers]
    BY <1>2 DEF FailsToStart, NoFinish, Workers, Positions
  <2>3. run' \in [Runs -> RunObjects]
    BY ZenonT(60), <1>2 DEF FailsToStart, RunObjects
  <2>4. workerStop' = workerStop /\ session' \in [Runs -> SessionStates]
    BY <1>2 DEF FailsToStart
  <2>5. /\ activeSessionId' \in Runs \cup {0} /\ jsThread' \in Runs \cup {0}
        /\ lastEventSequence' \in Int
        /\ tsfn' \in [Runs -> {"none", "open", "released", "aborted", "final"}]
    BY <1>2 DEF FailsToStart, Activate
  <2>. QED
    BY <2>1, <2>2, <2>3, <2>4, <2>5
<1>3. CASE HasNoObject(r)
  BY <1>3, RefusedType DEF HasNoObject
<1>. QED
  BY <1>1, <1>2, <1>3

LEMMA CancelType ==
    ASSUME OptimizerClientAssumption, TypeOK, NEW r \in Runs, Cancel(r)
    PROVE  TypeOK'
<1>1. run' \in [Runs -> RunObjects] /\ finish' \in [Runs -> Workers]
  BY BeginFinishType DEF Cancel
<1>. QED
  BY <1>1, CallsType DEF TypeOK, Cancel, clientVars, serverVars

LEMMA HandleEventType ==
    ASSUME OptimizerClientAssumption, TypeOK, NEW r \in Runs, HandleEvent(r)
    PROVE  TypeOK'
<1>1. queue[r] \in Seq(DecodedEvents) /\ queue[r] # <<>> /\ queue' = [queue EXCEPT ![r] = Tail(@)]
  BY DEF HandleEvent, TypeOK
<1>2. Head(queue[r]) \in DecodedEvents /\ Tail(queue[r]) \in Seq(DecodedEvents)
  BY <1>1
<1>3. queue' \in [Runs -> Seq(DecodedEvents)]
  BY <1>1, <1>2 DEF TypeOK
<1>4. run' \in [Runs -> RunObjects] /\ finish' \in [Runs -> Workers]
  <2>1. BeginFinish(r, TRUE, TRUE) \/ BeginFinish(r, FALSE, FALSE) \/ UNCHANGED <<run, finish>>
    BY DEF HandleEvent
  <2>. QED
    BY <2>1, BeginFinishType DEF TypeOK
<1>5. delivered' \in [Runs -> Int]
  <2>1. Head(queue[r]).sequence \in Int
    BY <1>2 DEF DecodedEvents
  <2>2. delivered' = delivered \/ delivered' = [delivered EXCEPT ![r] = Head(queue[r]).sequence]
    BY DEF HandleEvent
  <2>. QED
    BY <2>1, <2>2 DEF TypeOK
<1>. QED
  BY <1>3, <1>4, <1>5 DEF TypeOK, HandleEvent, clientVars, serverVars

LEMMA ReleaseType ==
    ASSUME TypeOK, NEW r \in Runs, ReleaseCallbackReference(r)
    PROVE  TypeOK'
<1>1. queue' \in [Runs -> Seq(DecodedEvents)]
  <2>1. queue' = [queue EXCEPT ![r] = <<>>] /\ <<>> \in Seq(DecodedEvents)
    BY DEF ReleaseCallbackReference
  <2>. QED
    BY <2>1 DEF TypeOK
<1>2. tsfn' \in [Runs -> {"none", "open", "released", "aborted", "final"}]
  BY DEF TypeOK, ReleaseCallbackReference
<1>3. UNCHANGED <<clientVars, poller, run, finish, delivered, serverVars, faults, calls>>
  BY DEF ReleaseCallbackReference
<1>. QED
  BY <1>1, <1>2, <1>3 DEF TypeOK, clientVars, serverVars

LEMMA CompleteFinishType ==
    ASSUME TypeOK, NEW r \in Runs, CompleteFinish(r)
    PROVE  TypeOK'
<1>1. finish' \in [Runs -> Workers]
  BY DEF TypeOK, CompleteFinish, NoFinish, Workers, Positions
<1>2. run' \in [Runs -> RunObjects]
  <2> DEFINE shut == ~finish[r].closeFailed
             told == IF run[r].result # "none" THEN run[r].result
                     ELSE IF finish[r].failed \/ finish[r].closeFailed THEN "rejected" ELSE "resolved"
  <2>1. run' = [run EXCEPT ![r].finishing = FALSE, ![r].closed = shut, ![r].result = told]
    BY DEF CompleteFinish, TypeOK, RunObjects
  <2>2. shut \in BOOLEAN /\ told \in {"none", "resolved", "rejected"}
    BY DEF TypeOK, RunObjects
  <2> HIDE DEF shut, told
  <2>3. run \in [Runs -> RunObjects]
    BY DEF TypeOK
  <2>. QED
    BY <2>1, <2>2, <2>3, SettledType
<1>. QED
  BY <1>1, <1>2 DEF TypeOK, CompleteFinish, clientVars, serverVars

LEMMA PollerType ==
    ASSUME TypeOK, Poller
    PROVE  TypeOK'
<1>1. CASE PollerAsks
  BY <1>1 DEF PollerAsks, TypeOK, clientVars, runVars, serverVars
<1>2. CASE PollerGetsNothing
  BY <1>2 DEF PollerGetsNothing, TypeOK, clientVars, runVars, serverVars
<1>3. CASE PollerIsAnswered
  <2> DEFINE raw == Head(unread[poller])
             event == decodePolledEvent(raw, poller)
  <2>1. poller \in Runs /\ unread[poller] \in Seq(ServerEvents) /\ unread[poller] # <<>>
    BY <1>3 DEF PollerIsAnswered, TypeOK
  <2>2. raw \in ServerEvents /\ Tail(unread[poller]) \in Seq(ServerEvents)
    BY <2>1
  <2>3. event \in DecodedEvents /\ [event EXCEPT !.terminal = FALSE] \in DecodedEvents
    <3>1. raw.session \in Runs /\ raw.sequence \in Nat /\ raw.terminal \in BOOLEAN
      BY <2>2 DEF ServerEvents
    <3> HIDE DEF raw
    <3>2. event \in DecodedEvents
      BY <3>1 DEF decodePolledEvent, DecodedEvents
    <3> HIDE DEF event
    <3>. QED
      BY <3>2 DEF DecodedEvents
  <2>4. unread' \in [Runs -> Seq(ServerEvents)]
    BY <1>3, <2>1, <2>2 DEF PollerIsAnswered, TypeOK
  <2>5. lastEventSequence' \in Int
    <3>1. event.sequence \in Int
      BY <2>3 DEF DecodedEvents
    <3>2. lastEventSequence' = event.sequence \/ lastEventSequence' = lastEventSequence
      BY <1>3 DEF PollerIsAnswered
    <3>. QED
      BY <3>1, <3>2 DEF TypeOK
  <2>6. queue' \in [Runs -> Seq(DecodedEvents)]
    <3>1. PICK e \in DecodedEvents :
             queue' = queue \/ (jsThread # 0 /\ queue' = [queue EXCEPT ![jsThread] = Append(@, e)])
      BY <1>3, <2>3 DEF PollerIsAnswered
    <3>2. queue \in [Runs -> Seq(DecodedEvents)] /\ jsThread \in Runs \cup {0}
      BY DEF TypeOK
    <3>3. CASE jsThread # 0 /\ queue' = [queue EXCEPT ![jsThread] = Append(@, e)]
      <4>1. jsThread \in Runs
        BY <3>2, <3>3
      <4>2. Append(queue[jsThread], e) \in Seq(DecodedEvents)
        BY <3>2, <4>1
      <4>. QED
        BY <3>2, <3>3, <4>2
    <3>. QED
      BY <3>1, <3>2, <3>3
  <2>. QED
    BY <1>3, <2>4, <2>5, <2>6 DEF PollerIsAnswered, TypeOK
<1>. QED
  BY <1>1, <1>2, <1>3 DEF Poller

LEMMA PoolType ==
    ASSUME OptimizerClientAssumption, TypeOK, NEW r \in Runs, Pool(r)
    PROVE  TypeOK'
<1>1. CASE FinishBegins(r)
  <2>1. \E step \in Positions : Goes(r, step)
    BY <1>1 DEF FinishBegins, Positions
  <2>. QED
    BY <1>1, <2>1, GoesType DEF FinishBegins, TypeOK, serverVars
<1>2. CASE FinishCancels(r)
  <2>1. finish' \in [Runs -> Workers]
    <3>1. finish \in [Runs -> Workers] /\ {"result", "close"} \subseteq Positions
      BY DEF TypeOK, Positions
    <3>2. PICK step \in {"result", "close"} :
             \/ finish' = [finish EXCEPT ![r].step = step]
             \/ finish' = [finish EXCEPT ![r].step = step, ![r].failed = TRUE]
      BY <1>2 DEF FinishCancels
    <3>3. step \in Positions /\ TRUE \in BOOLEAN
      BY <3>1
    <3>4. /\ [finish EXCEPT ![r].step = step, ![r].failed = TRUE] \in [Runs -> Workers]
          /\ [finish EXCEPT ![r].step = step] \in [Runs -> Workers]
      BY <3>1, <3>3, FailedType, Zenon
    <3>. QED
      BY <3>2, <3>4, Zenon
  <2>2. /\ faults' \in 0 .. MaxFaults /\ up' = up
        /\ session' \in [Runs -> SessionStates] /\ emitted' \in [Runs -> Nat]
        /\ unread' \in [Runs -> Seq(ServerEvents)]
    <3>1. CASE Cancelled(r)
      <4> DEFINE last == [session |-> r, sequence |-> emitted[r], terminal |-> TRUE]
      <4>1. last \in ServerEvents
        BY DEF TypeOK, ServerEvents
      <4>2. /\ unread' = unread \/ unread' = [unread EXCEPT ![r] = Append(@, last)]
            /\ emitted' = emitted \/ emitted' = [emitted EXCEPT ![r] = @ + 1]
            /\ session' = [session EXCEPT ![r] = "ended"]
            /\ UNCHANGED <<faults, up>>
        BY <3>1 DEF Cancelled, Answered
      <4> HIDE DEF last
      <4>3. unread' \in [Runs -> Seq(ServerEvents)]
        <5>1. unread \in [Runs -> Seq(ServerEvents)]
          BY DEF TypeOK
        <5>2. Append(unread[r], last) \in Seq(ServerEvents)
          BY <4>1, <5>1
        <5>3. unread' = unread \/ unread' = [unread EXCEPT ![r] = Append(unread[r], last)]
          BY <4>2, <5>1
        <5>. QED
          BY <5>1, <5>2, <5>3
      <4>4. emitted' \in [Runs -> Nat]
        <5>1. emitted \in [Runs -> Nat]
          BY DEF TypeOK
        <5>. QED
          BY <4>2, <5>1
      <4>. QED
        BY <4>2, <4>3, <4>4 DEF TypeOK, SessionStates
    <3>2. CASE NotDone(r)
      BY <3>2, RefusedType DEF NotDone, TypeOK, serverVars
    <3>. QED
      BY <1>2, <3>1, <3>2 DEF FinishCancels
  <2>. QED
    BY <1>2, <2>1, <2>2 DEF FinishCancels, TypeOK, clientVars
<1>3. CASE FinishReadsResult(r)
  <2>1. PICK b \in BOOLEAN : finish' = [finish EXCEPT ![r].step = "close", ![r].failed = b]
    <3>1. (finish[r].failed \/ ~up \/ session[r] # "ended") \in BOOLEAN
      BY DEF TypeOK, Workers
    <3>2. finish' = [finish EXCEPT ![r].step = "close",
                       ![r].failed = finish[r].failed \/ ~up \/ session[r] # "ended"]
      BY <1>3 DEF FinishReadsResult, TypeOK
    <3>. QED
      BY <3>1, <3>2
  <2>. QED
    <3>1. finish' \in [Runs -> Workers]
      <4>1. finish \in [Runs -> Workers] /\ "close" \in Positions
        BY DEF TypeOK, Positions
      <4>2. finish' = [finish EXCEPT ![r].step = "close", ![r].failed = b]
        BY <2>1
      <4> HIDE DEF TypeOK, OptimizerClientAssumption
      <4>. QED
        BY <4>1, <4>2, FailedType, Zenon
    <3>. QED
      BY <1>3, <3>1 DEF FinishReadsResult, TypeOK, clientVars, serverVars
<1>4. CASE FinishCloses(r)
  <2>1. finish' \in [Runs -> Workers]
    <3>1. finish \in [Runs -> Workers] /\ "stop" \in Positions
      BY DEF TypeOK, Positions
    <3>2. \/ finish' = [finish EXCEPT ![r].step = "stop"]
          \/ finish' = [finish EXCEPT ![r].step = "stop", ![r].closeFailed = TRUE]
      BY <1>4 DEF FinishCloses
    <3>3. /\ [finish EXCEPT ![r].step = "stop"] \in [Runs -> Workers]
          /\ [finish EXCEPT ![r].step = "stop", ![r].closeFailed = TRUE] \in [Runs -> Workers]
      BY <3>1, FailedType, Zenon
    <3>. QED
      BY <3>2, <3>3, Zenon
  <2>2. /\ faults' \in 0 .. MaxFaults /\ up' = up /\ emitted' = emitted
        /\ session' \in [Runs -> SessionStates] /\ unread' \in [Runs -> Seq(ServerEvents)]
    <3>1. CASE Closed(r)
      BY <3>1 DEF Closed, Answered, TypeOK, SessionStates
    <3>2. CASE NotClosed(r)
      BY <3>2, RefusedType DEF NotClosed, TypeOK, serverVars
    <3>. QED
      BY <1>4, <3>1, <3>2 DEF FinishCloses
  <2>3. workerStop' \in BOOLEAN
    BY <1>4 DEF FinishCloses, TypeOK
  <2>. QED
    BY <1>4, <2>1, <2>2, <2>3 DEF FinishCloses, TypeOK
<1>5. CASE FinishStops(r)
  <2>1. finish' \in [Runs -> Workers]
    BY <1>5, GoesType DEF FinishStops, Positions
  <2>2. /\ activeSessionId' \in Runs \cup {0} /\ workerStop' \in BOOLEAN /\ jsThread' \in Runs \cup {0}
        /\ tsfn' \in [Runs -> {"none", "open", "released", "aborted", "final"}]
    BY <1>5, StopWorkerType DEF FinishStops, StopLocalSession, TypeOK
  <2>. QED
    BY <1>5, <2>1, <2>2 DEF FinishStops, TypeOK, serverVars
<1>. QED
  BY <1>1, <1>2, <1>3, <1>4, <1>5 DEF Pool

LEMMA ServerLostType ==
    ASSUME OptimizerClientAssumption, TypeOK, ServerLost
    PROVE  TypeOK'
<1>1. up' \in BOOLEAN
  BY Zenon DEF ServerLost
<1>. QED
  BY <1>1, RefusedType DEF ServerLost, TypeOK, clientVars, runVars

LEMMA ShutdownBeginsType ==
    ASSUME OptimizerClientAssumption, TypeOK, ShutdownBegins
    PROVE  TypeOK'
<1>1. workerStop' \in BOOLEAN
  BY Zenon DEF ShutdownBegins
<1>2. /\ session' \in [Runs -> SessionStates] /\ unread' \in [Runs -> Seq(ServerEvents)]
      /\ faults' \in 0 .. MaxFaults
  <2>1. CASE activeSessionId = 0
    BY <2>1 DEF ShutdownBegins, TypeOK
  <2>2. CASE activeSessionId # 0
    <3>1. activeSessionId \in Runs /\ BestEffort(activeSessionId)
      BY <2>2 DEF ShutdownBegins, TypeOK
    <3>2. \/ UNCHANGED session
          \/ session' = [session EXCEPT ![activeSessionId] = "closed"]
      BY <3>1 DEF BestEffort
    <3>3. \/ UNCHANGED unread
          \/ unread' = [unread EXCEPT ![activeSessionId] = <<>>]
      BY <3>1 DEF BestEffort
    <3>4. faults' = faults \/ Refused
      BY <3>1 DEF BestEffort
    <3>5. <<>> \in Seq(ServerEvents)
      OBVIOUS
    <3>. QED
      BY ZenonT(30), <3>1, <3>2, <3>3, <3>4, <3>5, RefusedType DEF TypeOK, SessionStates
  <2>. QED
    BY <2>1, <2>2
<1>. QED
  BY <1>1, <1>2, CallsType DEF ShutdownBegins, TypeOK, runVars

LEMMA ShutdownEndsType ==
    ASSUME TypeOK, ShutdownEnds
    PROVE  TypeOK'
<1>1. up' \in BOOLEAN
  BY Zenon DEF ShutdownEnds
<1>2. session' \in [Runs -> SessionStates] /\ unread' \in [Runs -> Seq(ServerEvents)]
  BY DEF ShutdownEnds, TypeOK, SessionStates
<1>. QED
  BY <1>1, <1>2, StopWorkerType DEF ShutdownEnds, TypeOK

LEMMA TypeStep ==
    ASSUME OptimizerClientAssumption, TypeOK, [Next]_vars
    PROVE  TypeOK'
<1>1. CASE Next
  BY <1>1, EmitType, RunType, CancelType, HandleEventType, ReleaseType, CompleteFinishType,
     PollerType, PoolType, ServerLostType, ShutdownBeginsType, ShutdownEndsType DEF Next
<1>2. CASE UNCHANGED vars
  BY <1>2 DEF vars, clientVars, runVars, serverVars, TypeOK
<1>. QED
  BY <1>1, <1>2

(* Every state of the client's side of a run has the declared types.         *)
THEOREM TypeCorrect == Spec => []TypeOK
<1>1. Init => TypeOK
  BY OptimizerClientAssumption, TypeInit
<1>2. TypeOK /\ [Next]_vars => TypeOK'
  BY OptimizerClientAssumption, TypeStep
<1>. QED
  BY <1>1, <1>2, PTL DEF Spec

-----------------------------------------------------------------------------
(* Control. Each action says first what it does to the run it is about. *)

LEMMA ControlInit ==
    ASSUME OptimizerClientAssumption, Init
    PROVE  Control
<1>1. 0 \notin Runs
  BY DEF OptimizerClientAssumption
<1>2. workerStop
  BY DEF Init
<1>. QED
  BY <1>1, <1>2 DEF Init, NoRun, NoFinish, Control, BegunFirst, OnlyActive, AttemptOfWorker,
     AttemptCloses,
     ClosedStays, OpenIsKnown, Known, NotBegun

\* What leaves the runs, their sessions and the poller's thread alone keeps all.
LEMMA ControlKept ==
    ASSUME Control, UNCHANGED <<activeSessionId, workerStop, jsThread, poller, runVars, session, emitted, unread>>
    PROVE  Control'
BY DEF runVars, Control, BegunFirst, OnlyActive, AttemptOfWorker, AttemptCloses, ClosedStays,
   OpenIsKnown, Known,
   NotBegun

LEMMA EmitControl ==
    ASSUME TypeOK, Control, NEW r \in Runs, Emit(r)
    PROVE  Control'
<1>1. session[r] = "running" /\ session'[r] \in {"running", "ended"} /\ \A q \in Runs \ {r} : session'[q] = session[q]
  BY DEF Emit, TypeOK
<1>2. \A q \in Runs \ {r} : unread'[q] = unread[q] /\ emitted'[q] = emitted[q]
  BY DEF Emit, TypeOK
<1>3. UNCHANGED <<clientVars, poller, runVars>>
  BY DEF Emit
<1>. USE <1>1, <1>2, <1>3 DEF clientVars, runVars, Control
<1>4. BegunFirst' /\ OpenIsKnown'
  BY DEF BegunFirst, NotBegun, OpenIsKnown, Known
<1>5. OnlyActive' /\ AttemptOfWorker'
  BY DEF OnlyActive, AttemptOfWorker
<1>6. AttemptCloses' /\ ClosedStays'
  BY DEF AttemptCloses, ClosedStays
<1>. QED
  BY <1>4, <1>5, <1>6

\* What begins an attempt to end a run.
Begins(r) ==
    /\ session[r] \notin {"none", "refused"} /\ ~run[r].closed /\ ~run[r].finishing
    /\ run' = [run EXCEPT ![r].finishing = TRUE]
    /\ \E worker \in Workers :
          /\ worker.step = "queued" /\ ~worker.closeFailed
          /\ finish' = [finish EXCEPT ![r] = worker]

LEMMA BeginsControl ==
    ASSUME TypeOK, Control, NEW r \in Runs, Begins(r)
    PROVE  /\ AttemptOfWorker' /\ \A q \in Runs : run'[q].closed = run[q].closed /\ run'[q].result = run[q].result
           /\ \A q \in Runs \ {r} : finish'[q] = finish[q]
           /\ finish'[r].step = "queued" /\ ~finish'[r].closeFailed
<1>1. PICK worker \in Workers :
        /\ worker.step = "queued" /\ ~worker.closeFailed
        /\ finish' = [finish EXCEPT ![r] = worker]
  BY DEF Begins
<1>2. finish'[r] = worker /\ \A q \in Runs \ {r} : finish'[q] = finish[q]
  BY <1>1 DEF TypeOK
<1>3. /\ run'[r].finishing /\ \A q \in Runs \ {r} : run'[q] = run[q]
      /\ run'[r].closed = run[r].closed /\ run'[r].result = run[r].result
  BY DEF TypeOK, RunObjects, Begins
<1>4. AttemptOfWorker'
  BY <1>1, <1>2, <1>3 DEF Control, AttemptOfWorker
<1>. QED
  BY <1>1, <1>2, <1>3, <1>4

LEMMA BeginFinishBegins ==
    ASSUME TypeOK, NEW r \in Runs, NEW cancel \in BOOLEAN, NEW failed \in BOOLEAN, BeginFinish(r, cancel, failed),
           session[r] \notin {"none", "refused"}, ~run[r].closed, ~run[r].finishing
    PROVE  Begins(r)
<1> DEFINE reads == ~Settled(r) /\ ~failed
           worker == [step |-> "queued", cancel |-> cancel, failed |-> failed, readResult |-> reads,
                      closeFailed |-> FALSE]
<1>1. reads \in BOOLEAN
  BY Zenon DEF Settled
<1>2. finish' = [finish EXCEPT ![r] = worker] /\ run' = [run EXCEPT ![r].finishing = TRUE]
  BY Zenon DEF BeginFinish
<1> HIDE DEF reads
<1>3. worker \in Workers /\ worker.step = "queued" /\ ~worker.closeFailed
  BY <1>1 DEF Workers, Positions
<1> HIDE DEF worker
<1>. QED
  BY <1>2, <1>3 DEF Begins

LEMMA CancelControl ==
    ASSUME TypeOK, Control, NEW r \in Runs, Cancel(r)
    PROVE  Control'
<1>1. Begins(r)
  BY BeginFinishBegins DEF Cancel
<1>2. UNCHANGED <<clientVars, poller, queue, tsfn, delivered, serverVars>>
  BY DEF Cancel
<1>. USE <1>1, <1>2, BeginsControl DEF clientVars, serverVars, Control
<1>3. BegunFirst'
  BY DEF BegunFirst, NotBegun, Begins
<1>4. OnlyActive' /\ OpenIsKnown'
  BY DEF OnlyActive, OpenIsKnown, Known
<1>5. AttemptCloses' /\ ClosedStays'
  BY DEF AttemptCloses, ClosedStays, Begins
<1>. QED
  BY <1>3, <1>4, <1>5

LEMMA HandleEventControl ==
    ASSUME TypeOK, Control, NEW r \in Runs, HandleEvent(r)
    PROVE  Control'
<1>1. session[r] \notin {"none", "refused"}
  BY DEF HandleEvent, Control, BegunFirst, NotBegun
<1>2. Begins(r) \/ UNCHANGED <<run, finish>>
  <2>1. CASE Settled(r) \/ run[r].closed \/ run[r].finishing
    BY <2>1 DEF HandleEvent
  <2>2. CASE ~(Settled(r) \/ run[r].closed \/ run[r].finishing)
    <3>1. BeginFinish(r, TRUE, TRUE) \/ BeginFinish(r, FALSE, FALSE) \/ UNCHANGED <<run, finish>>
      BY <2>2 DEF HandleEvent
    <3>. QED
      BY <1>1, <2>2, <3>1, BeginFinishBegins
  <2>. QED
    BY <2>1, <2>2
<1>3. \A q \in Runs \ {r} : queue'[q] = queue[q] /\ delivered'[q] = delivered[q]
  <2>1. queue' = [queue EXCEPT ![r] = Tail(@)]
    BY DEF HandleEvent
  <2>2. delivered' = delivered \/ delivered' = [delivered EXCEPT ![r] = Head(queue[r]).sequence]
    BY DEF HandleEvent
  <2>. QED
    BY <2>1, <2>2 DEF TypeOK
<1>4. UNCHANGED <<clientVars, poller, tsfn, serverVars>>
  BY DEF HandleEvent
<1>. USE <1>1, <1>3, <1>4 DEF clientVars, serverVars, Control
<1>5. CASE Begins(r)
  <2>1. BegunFirst'
    BY <1>5, BeginsControl DEF BegunFirst, NotBegun
  <2>2. OnlyActive' /\ OpenIsKnown'
    BY DEF OnlyActive, OpenIsKnown, Known
  <2>3. AttemptCloses' /\ ClosedStays'
    BY <1>5, BeginsControl DEF AttemptCloses, ClosedStays, Begins
  <2>. QED
    BY <1>5, <2>1, <2>2, <2>3, BeginsControl
<1>6. CASE UNCHANGED <<run, finish>>
  <2>1. BegunFirst'
    BY <1>6 DEF BegunFirst, NotBegun
  <2>2. OnlyActive' /\ OpenIsKnown'
    BY DEF OnlyActive, OpenIsKnown, Known
  <2>3. AttemptOfWorker' /\ AttemptCloses' /\ ClosedStays'
    BY <1>6 DEF AttemptOfWorker, AttemptCloses, ClosedStays
  <2>. QED
    BY <2>1, <2>2, <2>3
<1>. QED
  BY <1>2, <1>5, <1>6

LEMMA RunControl ==
    ASSUME OptimizerClientAssumption, TypeOK, Control, NEW r \in Runs, Run(r)
    PROVE  Control'
<1>1. /\ activeSessionId = 0 /\ session[r] = "none" /\ \A q \in Runs : ~Known(q)
      /\ UNCHANGED <<lifecycle, poller, queue, delivered, emitted, unread>>
  BY DEF Run, Busy, Known
<1>2. poller = 0 /\ jsThread = 0 /\ r # 0 /\ 0 \notin Runs
  BY <1>1 DEF Control, OnlyActive, OptimizerClientAssumption
<1>. USE <1>1, <1>2
<1>3. CASE HasNoObject(r)
  <2>1. session'[r] = "refused" /\ \A q \in Runs \ {r} : session'[q] = session[q]
    BY <1>3 DEF HasNoObject, TypeOK
  <2>2. UNCHANGED <<activeSessionId, workerStop, jsThread, run, finish>>
    BY <1>3 DEF HasNoObject
  <2>. USE <2>1, <2>2 DEF Control
  <2>3. BegunFirst' /\ OpenIsKnown'
    BY DEF BegunFirst, NotBegun, OpenIsKnown, Known
  <2>4. OnlyActive' /\ AttemptOfWorker'
    BY DEF OnlyActive, AttemptOfWorker
  <2>5. AttemptCloses' /\ ClosedStays'
    BY DEF AttemptCloses, ClosedStays
  <2>. QED
    BY <2>3, <2>4, <2>5
<1>4. CASE Starts(r)
  <2>1. session'[r] = "running" /\ \A q \in Runs \ {r} : session'[q] = session[q]
    BY <1>4 DEF Starts, TypeOK
  <2>2. activeSessionId' = r /\ jsThread' = r /\ UNCHANGED <<run, finish>>
    BY <1>4 DEF Starts, Activate
  <2>. USE <2>1, <2>2 DEF Control
  <2>3. BegunFirst' /\ OpenIsKnown'
    BY DEF BegunFirst, NotBegun, OpenIsKnown, Known
  <2>4. OnlyActive' /\ AttemptOfWorker'
    BY DEF OnlyActive, AttemptOfWorker
  <2>5. AttemptCloses' /\ ClosedStays'
    BY DEF AttemptCloses, ClosedStays
  <2>. QED
    BY <2>3, <2>4, <2>5
<1>5. CASE FailsToStart(r)
  <2>1. session'[r] = "created" /\ \A q \in Runs \ {r} : session'[q] = session[q]
    BY <1>5 DEF FailsToStart, TypeOK
  <2>2. activeSessionId' = r /\ jsThread' \in {0, r} /\ UNCHANGED workerStop
    BY <1>5 DEF FailsToStart, Activate
  <2>3. finish'[r].step = "queued" /\ ~finish'[r].closeFailed /\ \A q \in Runs \ {r} : finish'[q] = finish[q]
    BY <1>5 DEF FailsToStart, TypeOK, NoFinish
  <2>4. /\ run'[r].finishing /\ run'[r].closed = run[r].closed /\ run'[r].result = run[r].result
        /\ \A q \in Runs \ {r} : run'[q] = run[q]
    BY <1>5 DEF FailsToStart, TypeOK, RunObjects
  <2>5. ~run[r].closed /\ run[r].result = "none"
    BY DEF Control, BegunFirst, NotBegun
  <2>. USE <2>1, <2>2, <2>3, <2>4, <2>5 DEF Control
  <2>6. BegunFirst' /\ OpenIsKnown'
    BY DEF BegunFirst, NotBegun, OpenIsKnown, Known
  <2>7. OnlyActive' /\ AttemptOfWorker'
    BY DEF OnlyActive, AttemptOfWorker
  <2>8. AttemptCloses' /\ ClosedStays'
    BY DEF AttemptCloses, ClosedStays
  <2>. QED
    BY <2>6, <2>7, <2>8
<1>. QED
  BY <1>3, <1>4, <1>5 DEF Run

LEMMA ReleaseControl ==
    ASSUME TypeOK, Control, NEW r \in Runs, ReleaseCallbackReference(r)
    PROVE  Control'
<1>1. \A q \in Runs : queue'[q] = queue[q] \/ queue'[q] = <<>>
  BY DEF ReleaseCallbackReference, TypeOK
<1>2. UNCHANGED <<clientVars, poller, run, finish, delivered, serverVars>>
  BY DEF ReleaseCallbackReference
<1>. QED
  BY <1>1, <1>2 DEF clientVars, serverVars, Control, BegunFirst, OnlyActive, AttemptOfWorker,
     AttemptCloses,
     ClosedStays, OpenIsKnown, Known, NotBegun

LEMMA CompleteFinishControl ==
    ASSUME TypeOK, Control, NEW r \in Runs, CompleteFinish(r)
    PROVE  Control'
<1>1. finish[r].step = "done" /\ UNCHANGED <<clientVars, poller, queue, delivered, serverVars>>
  BY DEF CompleteFinish, AtStep
<1>2. finish'[r].step = "none" /\ \A q \in Runs \ {r} : finish'[q] = finish[q]
  BY DEF CompleteFinish, TypeOK, NoFinish
<1>3. /\ ~run'[r].finishing /\ (run'[r].closed <=> ~finish[r].closeFailed)
      /\ run'[r].result = "resolved" => run[r].result = "resolved" \/ ~finish[r].closeFailed
      /\ \A q \in Runs \ {r} : run'[q] = run[q]
  BY DEF CompleteFinish, TypeOK, RunObjects
<1>4. session[r] \notin {"none", "refused"} /\ run[r].result # "resolved"
  BY <1>1 DEF Control, BegunFirst, NotBegun, ClosedStays
<1>. USE <1>1, <1>2, <1>3, <1>4 DEF clientVars, serverVars, Control
<1>5. BegunFirst' /\ OpenIsKnown'
  BY DEF BegunFirst, NotBegun, OpenIsKnown, Known
<1>6. OnlyActive' /\ AttemptOfWorker'
  BY DEF OnlyActive, AttemptOfWorker
<1>7. AttemptCloses' /\ ClosedStays'
  BY DEF AttemptCloses, ClosedStays
<1>. QED
  BY <1>5, <1>6, <1>7

LEMMA PollerControl ==
    ASSUME OptimizerClientAssumption, TypeOK, Control, Poller
    PROVE  Control'
<1>0. 0 \notin Runs
  BY DEF OptimizerClientAssumption
<1>1. /\ UNCHANGED <<activeSessionId, workerStop, jsThread, run, finish, delivered, session, emitted>>
      /\ poller' \in {0, activeSessionId}
  BY DEF Poller, PollerAsks, PollerIsAnswered, PollerGetsNothing, clientVars, runVars, serverVars
<1>2. \A q \in Runs : NotBegun(q) => queue'[q] = queue[q] /\ unread'[q] = unread[q]
  <2>1. CASE PollerIsAnswered
    <3>1. unread' = [unread EXCEPT ![poller] = Tail(@)] /\ unread[poller] # <<>>
      BY <2>1 DEF PollerIsAnswered
    <3>2. \A q \in Runs \ {poller} : unread'[q] = unread[q]
      BY <3>1 DEF TypeOK
    <3>3. \A q \in Runs \ {jsThread} : queue'[q] = queue[q]
      BY <2>1 DEF PollerIsAnswered, TypeOK
    <3>4. poller \in Runs => ~NotBegun(poller)
      BY <3>1 DEF Control, BegunFirst
    <3>5. jsThread \in Runs => ~NotBegun(jsThread)
      BY <1>0 DEF Control, BegunFirst, OnlyActive
    <3>. QED
      BY <3>2, <3>3, <3>4, <3>5
  <2>2. CASE PollerAsks \/ PollerGetsNothing
    BY <2>2 DEF PollerAsks, PollerGetsNothing, runVars, serverVars
  <2>. QED
    BY <2>1, <2>2 DEF Poller
<1>. USE <1>0, <1>1, <1>2 DEF Control
<1>3. BegunFirst' /\ OpenIsKnown'
  BY DEF BegunFirst, NotBegun, OpenIsKnown, Known
<1>4. OnlyActive' /\ AttemptOfWorker'
  BY DEF OnlyActive, AttemptOfWorker
<1>5. AttemptCloses' /\ ClosedStays'
  BY DEF AttemptCloses, ClosedStays
<1>. QED
  BY <1>3, <1>4, <1>5

\* A worker that is at its calls takes one step.
Moves(r) ==
    /\ finish[r].step # "none" /\ finish'[r].step # "none"
    /\ \A q \in Runs \ {r} : finish'[q] = finish[q]

LEMMA MovesControl ==
    ASSUME TypeOK, Control, NEW r \in Runs, Moves(r), UNCHANGED run
    PROVE  /\ AttemptOfWorker' /\ session[r] \notin {"none", "refused"} /\ ~run[r].closed
           /\ run[r].result # "resolved"
BY DEF Moves, Control, AttemptOfWorker, BegunFirst, NotBegun, ClosedStays

LEMMA FinishBeginsControl ==
    ASSUME TypeOK, Control, NEW r \in Runs, FinishBegins(r)
    PROVE  Control'
<1>1. PICK step \in {"cancel", "result", "close"} : finish' = [finish EXCEPT ![r].step = step]
  BY DEF FinishBegins, Goes
<1>2. /\ finish[r].step = "queued" /\ finish'[r].step = step /\ finish'[r].closeFailed = finish[r].closeFailed
      /\ \A q \in Runs \ {r} : finish'[q] = finish[q]
  BY <1>1 DEF FinishBegins, AtStep, TypeOK, Workers
<1>3. UNCHANGED <<activeSessionId, workerStop, jsThread, poller, run, queue, delivered, serverVars>>
  BY DEF FinishBegins
<1>4. Moves(r)
  BY <1>2 DEF Moves
<1>. USE <1>2, <1>3, <1>4, MovesControl DEF serverVars, Control
<1>5. BegunFirst' /\ OpenIsKnown'
  BY DEF BegunFirst, NotBegun, OpenIsKnown, Known
<1>6. OnlyActive' /\ AttemptOfWorker'
  BY DEF OnlyActive
<1>7. AttemptCloses' /\ ClosedStays'
  BY DEF AttemptCloses, ClosedStays
<1>. QED
  BY <1>5, <1>6, <1>7

LEMMA FinishCancelsControl ==
    ASSUME TypeOK, Control, NEW r \in Runs, FinishCancels(r)
    PROVE  Control'
<1>1. PICK step \in {"result", "close"} :
        \/ finish' = [finish EXCEPT ![r].step = step]
        \/ finish' = [finish EXCEPT ![r].step = step, ![r].failed = TRUE]
  BY DEF FinishCancels
<1>2. /\ finish[r].step = "cancel" /\ finish'[r].step = step /\ finish'[r].closeFailed = finish[r].closeFailed
      /\ \A q \in Runs \ {r} : finish'[q] = finish[q]
  <2>1. finish \in [Runs -> Workers] /\ finish[r].step = "cancel"
    BY DEF FinishCancels, AtStep, TypeOK
  <2>2. CASE finish' = [finish EXCEPT ![r].step = step]
    BY <2>1, <2>2 DEF Workers
  <2>3. CASE finish' = [finish EXCEPT ![r].step = step, ![r].failed = TRUE]
    BY <2>1, <2>3 DEF Workers
  <2>. QED
    BY <1>1, <2>2, <2>3
<1>3. UNCHANGED <<clientVars, poller, run, queue, delivered>>
  BY DEF FinishCancels
<1>4. Moves(r)
  BY <1>2 DEF Moves
<1>5. /\ \A q \in Runs \ {r} : session'[q] = session[q] /\ unread'[q] = unread[q] /\ emitted'[q] = emitted[q]
      /\ session'[r] = session[r] \/ (Known(r) /\ session'[r] = "ended")
  BY DEF FinishCancels, Cancelled, NotDone, serverVars, TypeOK
<1>. USE <1>2, <1>3, <1>4, <1>5, MovesControl DEF clientVars, Control
<1>6. BegunFirst' /\ OpenIsKnown'
  BY DEF BegunFirst, NotBegun, OpenIsKnown, Known
<1>7. OnlyActive' /\ AttemptOfWorker'
  BY DEF OnlyActive
<1>8. AttemptCloses' /\ ClosedStays'
  BY DEF AttemptCloses, ClosedStays, Known
<1>. QED
  BY <1>6, <1>7, <1>8

LEMMA FinishReadsResultControl ==
    ASSUME TypeOK, Control, NEW r \in Runs, FinishReadsResult(r)
    PROVE  Control'
<1>1. /\ finish[r].step = "result" /\ finish'[r].step = "close" /\ finish'[r].closeFailed = finish[r].closeFailed
      /\ \A q \in Runs \ {r} : finish'[q] = finish[q]
  BY DEF FinishReadsResult, AtStep, TypeOK, Workers
<1>2. UNCHANGED <<clientVars, poller, run, queue, delivered, serverVars>>
  BY DEF FinishReadsResult
<1>3. Moves(r)
  BY <1>1 DEF Moves
<1>. USE <1>1, <1>2, <1>3, MovesControl DEF clientVars, serverVars, Control
<1>4. BegunFirst' /\ OpenIsKnown'
  BY DEF BegunFirst, NotBegun, OpenIsKnown, Known
<1>5. OnlyActive' /\ AttemptOfWorker'
  BY DEF OnlyActive
<1>6. AttemptCloses' /\ ClosedStays'
  BY DEF AttemptCloses, ClosedStays
<1>. QED
  BY <1>4, <1>5, <1>6

LEMMA FinishClosesControl ==
    ASSUME TypeOK, Control, NEW r \in Runs, FinishCloses(r)
    PROVE  Control'
<1>1. /\ finish[r].step = "close" /\ finish'[r].step = "stop"
      /\ \A q \in Runs \ {r} : finish'[q] = finish[q]
  BY DEF FinishCloses, AtStep, TypeOK, Workers
<1>2. UNCHANGED <<activeSessionId, lastEventSequence, jsThread, poller, run, queue, delivered>>
  BY DEF FinishCloses
<1>3. Moves(r)
  BY <1>1 DEF Moves
<1>4. workerStop => workerStop'
  BY DEF FinishCloses
<1>5. /\ \A q \in Runs \ {r} : session'[q] = session[q] /\ unread'[q] = unread[q]
      /\ UNCHANGED emitted
      /\ session'[r] = "closed" \/ (session'[r] = session[r] /\ finish'[r].closeFailed)
  <2>1. CASE Closed(r)
    BY <2>1 DEF Closed, TypeOK
  <2>2. CASE NotClosed(r) /\ finish' = [finish EXCEPT ![r].step = "stop", ![r].closeFailed = TRUE]
    BY <2>2 DEF NotClosed, serverVars, TypeOK, Workers
  <2>. QED
    BY <2>1, <2>2 DEF FinishCloses
<1>. USE <1>1, <1>2, <1>3, <1>4, <1>5, MovesControl DEF Control
<1>6. BegunFirst' /\ OpenIsKnown'
  BY DEF BegunFirst, NotBegun, OpenIsKnown, Known
<1>7. OnlyActive' /\ AttemptOfWorker'
  BY DEF OnlyActive
<1>8. AttemptCloses' /\ ClosedStays'
  BY DEF AttemptCloses, ClosedStays
<1>. QED
  BY <1>6, <1>7, <1>8

LEMMA FinishStopsControl ==
    ASSUME OptimizerClientAssumption, TypeOK, Control, NEW r \in Runs, FinishStops(r)
    PROVE  Control'
<1>1. /\ finish[r].step = "stop" /\ finish'[r].step = "done" /\ finish'[r].closeFailed = finish[r].closeFailed
      /\ \A q \in Runs \ {r} : finish'[q] = finish[q]
  BY DEF FinishStops, Goes, AtStep, TypeOK, Workers
<1>2. UNCHANGED <<poller, run, queue, delivered, serverVars>>
  BY DEF FinishStops
<1>3. Moves(r)
  BY <1>1 DEF Moves
<1>4. \/ activeSessionId # r /\ UNCHANGED <<activeSessionId, workerStop, jsThread>>
      \/ /\ activeSessionId = r /\ poller = 0 /\ jsThread' = 0 /\ workerStop'
         /\ activeSessionId' = IF finish[r].closeFailed THEN r ELSE 0
  BY DEF FinishStops, StopLocalSession, StopWorker, Joined
<1>5. 0 \notin Runs
  BY DEF OptimizerClientAssumption
<1>. USE <1>1, <1>2, <1>3, <1>4, <1>5, MovesControl DEF serverVars, Control
<1>6. BegunFirst' /\ OpenIsKnown'
  BY DEF BegunFirst, NotBegun, OpenIsKnown, Known, AttemptCloses
<1>7. OnlyActive' /\ AttemptOfWorker'
  BY DEF OnlyActive
<1>8. AttemptCloses' /\ ClosedStays'
  BY DEF AttemptCloses, ClosedStays
<1>. QED
  BY <1>6, <1>7, <1>8

LEMMA ShutdownBeginsControl ==
    ASSUME OptimizerClientAssumption, TypeOK, Control, ShutdownBegins
    PROVE  Control'
<1>1. UNCHANGED <<activeSessionId, jsThread, poller, runVars, emitted>> /\ workerStop'
  BY DEF ShutdownBegins
<1>2. /\ \A q \in Runs : session'[q] = session[q] \/ (q = activeSessionId /\ session'[q] = "closed")
      /\ \A q \in Runs : q # activeSessionId => unread'[q] = unread[q]
  BY DEF ShutdownBegins, BestEffort, TypeOK
<1>. USE <1>1, <1>2 DEF runVars, Control
<1>3. BegunFirst' /\ OpenIsKnown'
  BY DEF BegunFirst, NotBegun, OpenIsKnown, Known
<1>4. OnlyActive' /\ AttemptOfWorker'
  BY DEF OnlyActive, AttemptOfWorker
<1>5. AttemptCloses' /\ ClosedStays'
  BY DEF AttemptCloses, ClosedStays
<1>. QED
  BY <1>3, <1>4, <1>5

LEMMA ShutdownEndsControl ==
    ASSUME OptimizerClientAssumption, TypeOK, Control, ShutdownEnds
    PROVE  Control'
<1>1. /\ UNCHANGED <<poller, run, finish, queue, delivered, emitted>>
      /\ workerStop' /\ jsThread' = 0 /\ activeSessionId' = 0 /\ poller = 0
  BY DEF ShutdownEnds, StopWorker, Joined
<1>2. \A q \in Runs : /\ session'[q] = IF Known(q) THEN "closed" ELSE session[q]
                      /\ unread'[q] = <<>>
  BY DEF ShutdownEnds
<1>3. 0 \notin Runs
  BY DEF OptimizerClientAssumption
<1>. USE <1>1, <1>2, <1>3 DEF Control
<1>4. BegunFirst' /\ OpenIsKnown'
  BY DEF BegunFirst, NotBegun, OpenIsKnown, Known
<1>5. OnlyActive' /\ AttemptOfWorker'
  BY DEF OnlyActive, AttemptOfWorker
<1>6. AttemptCloses' /\ ClosedStays'
  BY DEF AttemptCloses, ClosedStays, Known
<1>. QED
  BY <1>4, <1>5, <1>6

LEMMA ControlStep ==
    ASSUME OptimizerClientAssumption, TypeOK, Control, [Next]_vars
    PROVE  Control'
<1>1. CASE ServerLost
  BY <1>1, ControlKept DEF ServerLost, clientVars
<1>2. CASE UNCHANGED vars
  BY <1>2, ControlKept DEF vars, clientVars, serverVars
<1>. QED
  BY <1>1, <1>2, EmitControl, RunControl, CancelControl, HandleEventControl, ReleaseControl,
     CompleteFinishControl,
     PollerControl, FinishBeginsControl, FinishCancelsControl, FinishReadsResultControl, FinishClosesControl,
     FinishStopsControl, ShutdownBeginsControl, ShutdownEndsControl DEF Next, Pool

-----------------------------------------------------------------------------
(* Events.  What is appended is past the elements of a sequence, what is      *)
(* taken is its first.                                                       *)

Ordered(s) == \A i, j \in DOMAIN s : i < j => s[i].sequence < s[j].sequence

LEMMA Taken ==
    ASSUME NEW S, NEW s \in Seq(S), s # <<>>
    PROVE  /\ Head(s) = s[1] /\ 1 \in DOMAIN s
           /\ \A i \in DOMAIN Tail(s) : i + 1 \in DOMAIN s /\ Tail(s)[i] = s[i + 1]
<1>1. Len(s) \in Nat /\ Len(s) > 0 /\ DOMAIN s = 1 .. Len(s)
  OBVIOUS
<1>2. Tail(s) \in Seq(S) /\ Len(Tail(s)) = Len(s) - 1 /\ DOMAIN Tail(s) = 1 .. Len(s) - 1
  BY <1>1
<1>3. \A i \in 1 .. Len(s) - 1 : Tail(s)[i] = s[i + 1] /\ i + 1 \in 1 .. Len(s)
  BY <1>1
<1>. QED
  BY <1>1, <1>2, <1>3

LEMMA TakenInOrder ==
    ASSUME NEW S, NEW s \in Seq(S), s # <<>>, Ordered(s)
    PROVE  /\ Ordered(Tail(s))
           /\ \A i \in DOMAIN Tail(s) : Head(s).sequence < Tail(s)[i].sequence
<1>1. \A i \in DOMAIN Tail(s) : i \in Nat \ {0}
  <2>1. Tail(s) \in Seq(S)
    OBVIOUS
  <2>. QED
    BY <2>1
<1>2. ASSUME NEW i \in DOMAIN Tail(s), NEW j \in DOMAIN Tail(s), i < j
      PROVE  Tail(s)[i].sequence < Tail(s)[j].sequence
  <2>1. i + 1 < j + 1
    BY <1>1, <1>2
  <2>. QED
    BY <2>1, Taken DEF Ordered
<1>3. ASSUME NEW i \in DOMAIN Tail(s)
      PROVE  Head(s).sequence < Tail(s)[i].sequence
  <2>1. 1 < i + 1
    BY <1>1
  <2>. QED
    BY <2>1, Taken DEF Ordered
<1>. QED
  BY <1>2, <1>3 DEF Ordered

LEMMA Appended ==
    ASSUME NEW S, NEW s \in Seq(S), NEW e \in S
    PROVE  \A i \in DOMAIN Append(s, e) :
              i \in Nat /\ ((i \in DOMAIN s /\ Append(s, e)[i] = s[i]) \/ (i = Len(s) + 1 /\ Append(s, e)[i] = e))
<1>1. Len(s) \in Nat /\ DOMAIN s = 1 .. Len(s) /\ DOMAIN Append(s, e) = 1 .. Len(s) + 1
  OBVIOUS
<1>2. \A i \in 1 .. Len(s) : Append(s, e)[i] = s[i]
  OBVIOUS
<1>3. Append(s, e)[Len(s) + 1] = e
  OBVIOUS
<1>. QED
  BY <1>1, <1>2, <1>3

LEMMA AppendedInOrder ==
    ASSUME NEW S, NEW s \in Seq(S), NEW e \in S, Ordered(s),
           \A i \in DOMAIN s : s[i].sequence < e.sequence
    PROVE  Ordered(Append(s, e))
<1>1. DOMAIN s = 1 .. Len(s) /\ Len(s) \in Nat
  OBVIOUS
<1>2. ASSUME NEW i \in DOMAIN Append(s, e), NEW j \in DOMAIN Append(s, e), i < j
      PROVE  Append(s, e)[i].sequence < Append(s, e)[j].sequence
  <2>1. i \in DOMAIN s /\ Append(s, e)[i] = s[i]
    BY <1>1, <1>2, Appended
  <2>2. CASE j \in DOMAIN s /\ Append(s, e)[j] = s[j]
    BY <1>2, <2>1, <2>2 DEF Ordered
  <2>3. CASE Append(s, e)[j] = e
    BY <2>1, <2>3
  <2>. QED
    BY <2>2, <2>3, Appended
<1>. QED
  BY <1>2 DEF Ordered

LEMMA OrderInit ==
    ASSUME Init
    PROVE  Order
<1>1. workerStop /\ poller = 0 /\ jsThread = 0 /\ lastEventSequence = -1
  BY DEF Init
<1>2. \A r \in Runs : /\ queue[r] = <<>> /\ unread[r] = <<>> /\ delivered[r] = -1 /\ emitted[r] = 0
  BY DEF Init
<1>3. DOMAIN <<>> = {}
  OBVIOUS
<1>. QED
  BY <1>1, <1>2, <1>3 DEF Order, UnreadInOrder, UnreadIsNew, QueuedIsOld, Polled, EventsAreOwn

\* What neither emits, delivers nor begins a session keeps the order.
LEMMA OrderKept ==
    ASSUME Order, UNCHANGED <<delivered, lastEventSequence, emitted>>,
           \A q \in Runs : /\ unread'[q] \in {unread[q], <<>>} /\ queue'[q] \in {queue[q], <<>>}
                           /\ Polled(q)' => Polled(q)
                           /\ jsThread' = q => jsThread = q
    PROVE  Order'
<1>1. DOMAIN <<>> = {}
  OBVIOUS
<1>2. UnreadInOrder'
  BY <1>1 DEF Order, UnreadInOrder
<1>3. UnreadIsNew'
  <2>1. ASSUME NEW q \in Runs, Polled(q)'
        PROVE  /\ lastEventSequence < emitted[q]
               /\ \A i \in DOMAIN unread'[q] : lastEventSequence < unread'[q][i].sequence
    BY <1>1, <2>1 DEF Order, UnreadIsNew
  <2>. QED
    BY <2>1 DEF UnreadIsNew
<1>4. QueuedIsOld'
  BY <1>1 DEF Order, QueuedIsOld
<1>5. EventsAreOwn'
  BY <1>1 DEF Order, EventsAreOwn
<1>. QED
  BY <1>2, <1>3, <1>4, <1>5 DEF Order

\* The server's next event is past those before and past all that was polled.
LEMMA OrderOfEmitted ==
    ASSUME TypeOK, Order, NEW r \in Runs, NEW e \in ServerEvents, e.session = r, e.sequence = emitted[r],
           UNCHANGED <<clientVars, poller, queue, delivered>>,
           unread' = [unread EXCEPT ![r] = Append(@, e)], emitted' = [emitted EXCEPT ![r] = @ + 1]
    PROVE  Order'
<1>1. /\ unread[r] \in Seq(ServerEvents) /\ unread'[r] = Append(unread[r], e)
      /\ emitted[r] \in Nat /\ emitted'[r] = emitted[r] + 1
      /\ \A q \in Runs \ {r} : unread'[q] = unread[q] /\ emitted'[q] = emitted[q]
  BY DEF TypeOK
<1>2. \A i \in DOMAIN unread'[r] :
        (i \in DOMAIN unread[r] /\ unread'[r][i] = unread[r][i]) \/ unread'[r][i] = e
  BY <1>1, Appended
<1>3. \A i \in DOMAIN unread[r] : unread[r][i] \in ServerEvents /\ unread[r][i].sequence \in Nat
  <2>1. \A i \in DOMAIN unread[r] : unread[r][i] \in ServerEvents
    BY <1>1
  <2>. QED
    BY <2>1 DEF ServerEvents
<1>4. UnreadInOrder'
  <2>1. Ordered(unread[r]) /\ \A i \in DOMAIN unread[r] : unread[r][i].sequence < e.sequence
    BY DEF Order, UnreadInOrder, Ordered
  <2>2. Ordered(unread'[r])
    BY <1>1, <2>1, AppendedInOrder
  <2>3. \A i \in DOMAIN unread'[r] : unread'[r][i].session = r /\ unread'[r][i].sequence < emitted'[r]
    BY <1>1, <1>2, <1>3 DEF Order, UnreadInOrder
  <2>. QED
    BY <1>1, <2>2, <2>3 DEF Order, UnreadInOrder, Ordered
<1>5. UnreadIsNew'
  <2>1. lastEventSequence \in Int
    BY DEF TypeOK
  <2>2. \A q \in Runs : Polled(q)' <=> Polled(q)
    BY DEF Polled, clientVars
  <2>3. ASSUME NEW q \in Runs, Polled(q)
        PROVE  /\ lastEventSequence < emitted'[q]
               /\ \A i \in DOMAIN unread'[q] : lastEventSequence < unread'[q][i].sequence
    BY <1>1, <1>2, <2>1, <2>3 DEF Order, UnreadIsNew
  <2>. QED
    BY <2>2, <2>3 DEF UnreadIsNew, clientVars
<1>6. QueuedIsOld' /\ EventsAreOwn'
  BY DEF Order, QueuedIsOld, EventsAreOwn, clientVars
<1>. QED
  BY <1>4, <1>5, <1>6 DEF Order

LEMMA EmitOrder ==
    ASSUME TypeOK, Order, NEW r \in Runs, Emit(r)
    PROVE  Order'
<1>1. PICK terminal \in BOOLEAN :
        unread' = [unread EXCEPT ![r] = Append(@, [session |-> r, sequence |-> emitted[r], terminal |-> terminal])]
  BY DEF Emit
<1> DEFINE e == [session |-> r, sequence |-> emitted[r], terminal |-> terminal]
<1>2. e \in ServerEvents /\ e.session = r /\ e.sequence = emitted[r]
  BY DEF TypeOK, ServerEvents
<1>3. unread' = [unread EXCEPT ![r] = Append(@, e)]
  BY <1>1
<1> HIDE DEF e
<1>4. emitted' = [emitted EXCEPT ![r] = @ + 1] /\ UNCHANGED <<clientVars, poller, queue, delivered>>
  BY DEF Emit, runVars
<1>. QED
  BY <1>2, <1>3, <1>4, OrderOfEmitted

\* A new session's events are counted from their start.
LEMMA RunOrder ==
    ASSUME OptimizerClientAssumption, TypeOK, Control, Order, NEW r \in Runs, Run(r)
    PROVE  Order'
<1>1. /\ activeSessionId = 0 /\ workerStop /\ NotBegun(r) /\ UNCHANGED <<poller, queue, delivered, emitted, unread>>
  BY DEF Run, NotBegun
<1>2. poller = 0 /\ jsThread = 0 /\ 0 \notin Runs /\ DOMAIN <<>> = {}
  BY <1>1 DEF Control, OnlyActive, OptimizerClientAssumption
<1>3. queue[r] = <<>> /\ unread[r] = <<>> /\ delivered[r] = -1 /\ emitted[r] = 0
  BY <1>1 DEF Control, BegunFirst
<1>4. \/ activeSessionId' = 0 /\ jsThread' = 0
      \/ activeSessionId' = r /\ jsThread' = r /\ lastEventSequence' = -1
      \/ activeSessionId' = r /\ jsThread' = 0 /\ workerStop'
  BY <1>1, <1>2 DEF Run, Starts, FailsToStart, HasNoObject, Activate
<1>5. UnreadInOrder' /\ EventsAreOwn'
  BY <1>1 DEF Order, UnreadInOrder, EventsAreOwn
<1>6. UnreadIsNew'
  BY <1>1, <1>2, <1>3, <1>4 DEF UnreadIsNew, Polled
<1>7. QueuedIsOld'
  BY <1>1, <1>2, <1>3, <1>4 DEF QueuedIsOld
<1>. QED
  BY <1>5, <1>6, <1>7 DEF Order

\* An event that is delivered is the first of the queue.
LEMMA HandleEventOrder ==
    ASSUME TypeOK, Order, NEW r \in Runs, HandleEvent(r)
    PROVE  Order'
<1> DEFINE s == queue[r]
<1>1. s \in Seq(DecodedEvents) /\ s # <<>>
  BY DEF HandleEvent, TypeOK
<1>2. /\ queue'[r] = Tail(s) /\ \A q \in Runs \ {r} : queue'[q] = queue[q] /\ delivered'[q] = delivered[q]
      /\ delivered'[r] = delivered[r] \/ delivered'[r] = Head(s).sequence
  <2>1. queue' = [queue EXCEPT ![r] = Tail(@)]
    BY DEF HandleEvent
  <2>2. delivered' = delivered \/ delivered' = [delivered EXCEPT ![r] = Head(queue[r]).sequence]
    BY DEF HandleEvent
  <2>. QED
    BY <2>1, <2>2 DEF TypeOK
<1>3. UNCHANGED <<clientVars, poller, unread, emitted>>
  BY DEF HandleEvent, serverVars
<1>4. \A i \in DOMAIN s : s[i].session = r /\ s[i].valid /\ s[i].sequence > delivered[r]
  BY DEF Order, EventsAreOwn
<1>5. Ordered(s)
  BY DEF Order, EventsAreOwn, Ordered
<1> HIDE DEF s
<1>6. /\ Ordered(Tail(s)) /\ \A i \in DOMAIN Tail(s) : Head(s).sequence < Tail(s)[i].sequence
      /\ Head(s) = s[1] /\ 1 \in DOMAIN s
      /\ \A i \in DOMAIN Tail(s) : i + 1 \in DOMAIN s /\ Tail(s)[i] = s[i + 1]
  BY <1>1, <1>5, Taken, TakenInOrder
<1>7. EventsAreOwn'
  <2>1. \A i \in DOMAIN queue'[r] :
           queue'[r][i].session = r /\ queue'[r][i].valid /\ queue'[r][i].sequence > delivered'[r]
    BY <1>2, <1>4, <1>6
  <2>2. Ordered(queue'[r])
    BY <1>2, <1>6
  <2>3. ASSUME NEW q \in Runs
        PROVE  /\ \A i \in DOMAIN queue'[q] : /\ queue'[q][i].session = q /\ queue'[q][i].valid
                                             /\ queue'[q][i].sequence > delivered'[q]
               /\ Ordered(queue'[q])
    <3>1. CASE q = r
      BY <2>1, <2>2, <3>1
    <3>2. CASE q # r
      BY <1>2, <3>2 DEF Order, EventsAreOwn, Ordered
    <3>. QED
      BY <3>1, <3>2
  <2>. QED
    BY <2>3 DEF EventsAreOwn, Ordered
<1>8. QueuedIsOld'
  <2>1. ASSUME jsThread = r
        PROVE  /\ delivered'[r] <= lastEventSequence
               /\ \A i \in DOMAIN queue'[r] : queue'[r][i].sequence <= lastEventSequence
    <3>1. delivered[r] <= lastEventSequence /\ \A i \in DOMAIN s : s[i].sequence <= lastEventSequence
      BY <2>1 DEF Order, QueuedIsOld, s
    <3>. QED
      BY <1>2, <1>6, <3>1
  <2>. QED
    BY <1>2, <1>3, <2>1 DEF Order, QueuedIsOld, clientVars
<1>9. UnreadInOrder' /\ UnreadIsNew'
  BY <1>3 DEF Order, UnreadInOrder, UnreadIsNew, Polled, clientVars
<1>. QED
  BY <1>7, <1>8, <1>9 DEF Order

\* The poller's event is of the session JavaScript waits for and past the last.
LEMMA PollerIsAnsweredOrder ==
    ASSUME OptimizerClientAssumption, TypeOK, Control, Order, PollerIsAnswered
    PROVE  Order'
<1> DEFINE s == unread[poller]
           raw == Head(s)
           event == decodePolledEvent(raw, poller)
<1>1. poller \in Runs /\ s \in Seq(ServerEvents) /\ s # <<>> /\ poller = activeSessionId /\ jsThread \in {0, poller}
  BY DEF PollerIsAnswered, TypeOK, Control, OnlyActive
<1>2. /\ Ordered(s)
      /\ \A i \in DOMAIN s : s[i].session = poller /\ s[i].sequence < emitted[poller]
                             /\ lastEventSequence < s[i].sequence
  BY <1>1 DEF Order, UnreadInOrder, UnreadIsNew, Polled, Ordered
<1>3. UNCHANGED <<activeSessionId, workerStop, jsThread, delivered, emitted>> /\ poller' = 0
  BY DEF PollerIsAnswered
<1>4. unread'[poller] = Tail(s) /\ \A q \in Runs \ {poller} : unread'[q] = unread[q]
  BY <1>1 DEF PollerIsAnswered, TypeOK
<1>5. /\ lastEventSequence' = IF event.valid THEN event.sequence ELSE lastEventSequence
      /\ queue' = IF jsThread = 0 THEN queue
                  ELSE [queue EXCEPT ![jsThread] =
                          Append(@, IF event.valid THEN event ELSE [event EXCEPT !.terminal = FALSE])]
  BY DEF PollerIsAnswered
<1> HIDE DEF s
<1>6. /\ Ordered(Tail(s)) /\ \A i \in DOMAIN Tail(s) : raw.sequence < Tail(s)[i].sequence
      /\ raw = s[1] /\ 1 \in DOMAIN s
      /\ \A i \in DOMAIN Tail(s) : i + 1 \in DOMAIN s /\ Tail(s)[i] = s[i + 1]
  BY <1>1, <1>2, Taken, TakenInOrder
<1>7. /\ raw \in ServerEvents /\ raw.session = poller /\ raw.sequence < emitted[poller]
      /\ lastEventSequence < raw.sequence
  BY <1>1, <1>2, <1>6
<1>8. /\ lastEventSequence \in Int /\ raw.sequence \in Nat /\ raw.session \in Runs /\ raw.terminal \in BOOLEAN
      /\ emitted[poller] \in Nat
  BY <1>1, <1>7 DEF TypeOK, ServerEvents
<1> HIDE DEF raw
<1>9. event \in DecodedEvents /\ event.session = poller /\ event.sequence = raw.sequence /\ event.valid
  <2>1. (raw.session = poller /\ ~(lastEventSequence >= 0 /\ raw.sequence <= lastEventSequence)) = TRUE
    BY <1>7, <1>8
  <2>2. event = [session |-> raw.session, sequence |-> raw.sequence, valid |-> TRUE, terminal |-> raw.terminal]
    BY <2>1, Zenon DEF decodePolledEvent
  <2> HIDE DEF event
  <2>. QED
    BY <1>7, <1>8, <2>2 DEF DecodedEvents
<1> HIDE DEF event
<1>10. lastEventSequence' = raw.sequence
  BY <1>5, <1>9
<1>11. UnreadInOrder'
  <2>1. /\ Ordered(unread'[poller])
        /\ \A i \in DOMAIN unread'[poller] :
              unread'[poller][i].session = poller /\ unread'[poller][i].sequence < emitted[poller]
    BY <1>2, <1>4, <1>6
  <2>. QED
    BY ZenonT(30), <1>3, <1>4, <2>1 DEF Order, UnreadInOrder, Ordered
<1>12. UnreadIsNew'
  <2>1. 0 \notin Runs
    BY DEF OptimizerClientAssumption
  <2>2. \A q \in Runs : Polled(q)' => q = poller
    BY <1>1, <1>3, <2>1 DEF Polled
  <2>3. raw.sequence < emitted[poller] /\ \A i \in DOMAIN unread'[poller] : raw.sequence < unread'[poller][i].sequence
    BY <1>4, <1>6, <1>7
  <2>. QED
    BY <1>3, <1>10, <2>2, <2>3 DEF UnreadIsNew
<1>13. QueuedIsOld' /\ EventsAreOwn'
  <2>1. CASE jsThread = 0
    <3>1. 0 \notin Runs /\ queue' = queue
      BY <1>5, <2>1 DEF OptimizerClientAssumption
    <3>. QED
      BY <1>3, <2>1, <3>1 DEF Order, QueuedIsOld, EventsAreOwn
  <2>2. CASE jsThread = poller
    <3> DEFINE t == queue[poller]
    <3>1. t \in Seq(DecodedEvents) /\ delivered[poller] \in Int /\ poller # 0
      BY <1>1 DEF TypeOK, OptimizerClientAssumption
    <3>2. queue'[poller] = Append(t, event) /\ \A q \in Runs \ {poller} : queue'[q] = queue[q]
      BY <1>1, <1>5, <1>9, <2>2, <3>1 DEF TypeOK
    <3>3. /\ delivered[poller] <= lastEventSequence
          /\ \A i \in DOMAIN t : t[i].sequence <= lastEventSequence
      BY <1>1, <2>2 DEF Order, QueuedIsOld
    <3>4. /\ Ordered(t)
          /\ \A i \in DOMAIN t : t[i].session = poller /\ t[i].valid /\ t[i].sequence > delivered[poller]
      BY <1>1 DEF Order, EventsAreOwn, Ordered
    <3> HIDE DEF t
    <3>5. \A i \in DOMAIN t : t[i].sequence \in Nat
      <4>1. \A i \in DOMAIN t : t[i] \in DecodedEvents
        BY <3>1
      <4>. QED
        BY <4>1 DEF DecodedEvents
    <3>6. \A i \in DOMAIN t : t[i].sequence < event.sequence
      BY <1>7, <1>8, <1>9, <3>3, <3>5
    <3>7. Ordered(queue'[poller])
      BY <1>9, <3>1, <3>2, <3>4, <3>6, AppendedInOrder
    <3>8. \A i \in DOMAIN queue'[poller] :
             (i \in DOMAIN t /\ queue'[poller][i] = t[i]) \/ queue'[poller][i] = event
      BY <1>9, <3>1, <3>2, Appended
    <3>9. /\ delivered[poller] < raw.sequence
          /\ \A i \in DOMAIN t : t[i].sequence < raw.sequence
      BY <1>7, <1>8, <1>9, <3>1, <3>3, <3>6
    <3>10. QueuedIsOld'
      <4>1. /\ delivered[poller] <= raw.sequence
            /\ \A i \in DOMAIN queue'[poller] : queue'[poller][i].sequence <= raw.sequence
        BY <1>8, <1>9, <3>1, <3>5, <3>8, <3>9
      <4>. QED
        BY <1>3, <1>10, <2>2, <4>1 DEF QueuedIsOld
    <3>11. EventsAreOwn'
      <4>1. \A i \in DOMAIN queue'[poller] :
               /\ queue'[poller][i].session = poller /\ queue'[poller][i].valid
               /\ queue'[poller][i].sequence > delivered[poller]
        BY <1>8, <1>9, <3>1, <3>4, <3>8, <3>9
      <4>2. Ordered(queue'[poller])
        BY <3>7
      <4>3. \A q \in Runs \ {poller} :
               /\ \A i \in DOMAIN queue'[q] :
                     /\ queue'[q][i].session = q /\ queue'[q][i].valid
                     /\ queue'[q][i].sequence > delivered[q]
               /\ \A i, j \in DOMAIN queue'[q] : i < j => queue'[q][i].sequence < queue'[q][j].sequence
        BY <3>2 DEF Order, EventsAreOwn
      <4>. QED
        BY <1>3, <4>1, <4>2, <4>3 DEF EventsAreOwn, Ordered
    <3>. QED
      BY <3>10, <3>11
  <2>. QED
    BY <1>1, <2>1, <2>2
<1>. QED
  BY <1>11, <1>12, <1>13 DEF Order

LEMMA FinishCancelsOrder ==
    ASSUME TypeOK, Order, NEW r \in Runs, FinishCancels(r)
    PROVE  Order'
<1>1. UNCHANGED <<clientVars, poller, queue, delivered>>
  BY DEF FinishCancels
<1> DEFINE e == [session |-> r, sequence |-> emitted[r], terminal |-> TRUE]
<1>2. e \in ServerEvents /\ e.session = r /\ e.sequence = emitted[r]
  BY DEF TypeOK, ServerEvents
<1>3. \/ UNCHANGED <<unread, emitted>>
      \/ unread' = [unread EXCEPT ![r] = Append(@, e)] /\ emitted' = [emitted EXCEPT ![r] = @ + 1]
  BY DEF FinishCancels, Cancelled, NotDone, serverVars
<1> HIDE DEF e
<1>4. CASE UNCHANGED <<unread, emitted>>
  BY <1>1, <1>4, OrderKept DEF Polled, clientVars
<1>. QED
  BY <1>1, <1>2, <1>3, <1>4, OrderOfEmitted

\* The other steps of the pool's worker.
LEMMA PoolOrder ==
    ASSUME OptimizerClientAssumption, TypeOK, Order, NEW r \in Runs,
           FinishBegins(r) \/ FinishReadsResult(r) \/ FinishCloses(r) \/ FinishStops(r)
    PROVE  Order'
<1>1. UNCHANGED <<poller, lastEventSequence, queue, delivered, emitted>>
  BY DEF FinishBegins, FinishReadsResult, FinishCloses, FinishStops, Closed, NotClosed, clientVars,
     serverVars
<1>2. \A q \in Runs : unread'[q] \in {unread[q], <<>>}
  BY DEF FinishBegins, FinishReadsResult, FinishCloses, FinishStops, Closed, NotClosed, serverVars,
     TypeOK
<1>3. /\ activeSessionId' \in {activeSessionId, 0} /\ jsThread' \in {jsThread, 0}
      /\ workerStop => workerStop'
      /\ activeSessionId' = activeSessionId \/ workerStop'
  BY DEF FinishBegins, FinishReadsResult, FinishCloses, FinishStops, StopLocalSession, StopWorker,
     clientVars
<1>4. \A q \in Runs : (Polled(q)' => Polled(q)) /\ (jsThread' = q => jsThread = q)
  BY <1>1, <1>3 DEF Polled, OptimizerClientAssumption
<1>. QED
  BY <1>1, <1>2, <1>4, OrderKept

LEMMA ShutdownOrder ==
    ASSUME OptimizerClientAssumption, TypeOK, Order, ShutdownBegins \/ ShutdownEnds
    PROVE  Order'
<1>1. UNCHANGED <<poller, lastEventSequence, queue, delivered, emitted>> /\ workerStop' /\ jsThread' \in {jsThread, 0}
  BY DEF ShutdownBegins, ShutdownEnds, StopWorker, runVars
<1>2. \A q \in Runs : unread'[q] \in {unread[q], <<>>}
  BY DEF ShutdownBegins, BestEffort, ShutdownEnds, TypeOK
<1>3. \A q \in Runs : (Polled(q)' => Polled(q)) /\ (jsThread' = q => jsThread = q)
  BY <1>1 DEF Polled, OptimizerClientAssumption
<1>. QED
  BY <1>1, <1>2, <1>3, OrderKept

\* Calls and completions of JavaScript, the poller's questions, a lost server.
LEMMA QuietOrder ==
    ASSUME OptimizerClientAssumption, TypeOK, Order,
           \/ PollerAsks \/ PollerGetsNothing \/ ServerLost \/ UNCHANGED vars
           \/ \E r \in Runs : Cancel(r) \/ ReleaseCallbackReference(r) \/ CompleteFinish(r)
    PROVE  Order'
<1>1. UNCHANGED <<clientVars, delivered, emitted, unread>>
  BY DEF PollerAsks, PollerGetsNothing, ServerLost, vars, Cancel, ReleaseCallbackReference,
     CompleteFinish, clientVars,
     runVars, serverVars
<1>2. \A q \in Runs : queue'[q] \in {queue[q], <<>>}
  BY DEF PollerAsks, PollerGetsNothing, ServerLost, vars, Cancel, ReleaseCallbackReference,
     CompleteFinish, runVars,
     TypeOK
<1>3. poller' \in {poller, 0} \/ (poller' = activeSessionId /\ ~workerStop)
  BY DEF PollerAsks, PollerGetsNothing, ServerLost, vars, Cancel, ReleaseCallbackReference,
     CompleteFinish
<1>4. \A q \in Runs : Polled(q)' => Polled(q)
  BY <1>1, <1>3 DEF Polled, clientVars, OptimizerClientAssumption
<1>. QED
  BY <1>1, <1>2, <1>4, OrderKept DEF clientVars

LEMMA OrderStep ==
    ASSUME OptimizerClientAssumption, TypeOK, Control, Order, [Next]_vars
    PROVE  Order'
BY EmitOrder, RunOrder, HandleEventOrder, PollerIsAnsweredOrder, FinishCancelsOrder, PoolOrder,
   ShutdownOrder,
   QuietOrder DEF Next, Poller, Pool

-----------------------------------------------------------------------------
LEMMA Invariance == Spec => []Inv
<1>1. Init => Inv
  BY OptimizerClientAssumption, TypeInit, ControlInit, OrderInit DEF Inv
<1>2. Inv /\ [Next]_vars => Inv'
  BY OptimizerClientAssumption, TypeStep, ControlStep, OrderStep DEF Inv
<1>. QED
  BY <1>1, <1>2, PTL DEF Spec

(* One run at a time, from its first event to the close of its session: for  *)
(* any number of runs, with cancellations, refusals, shutdowns and a lost     *)
(* server at any moment, events reach the run they are of, once and in order; *)
(* a run that is over has left nothing behind; an open session is not lost.   *)
THEOREM OneRun == Spec => []OneRunAtATime
<1>1. Inv => ClosedIsClosed
  <2>1. ASSUME Inv, NEW r \in Runs, run[r].closed \/ run[r].result = "resolved"
        PROVE  session[r] = "closed" /\ activeSessionId # r
    BY <2>1 DEF Inv, Control, ClosedStays
  <2>2. ASSUME Inv, NEW r \in Runs, activeSessionId # r
        PROVE  poller # r /\ jsThread # r
    BY <2>2, OptimizerClientAssumption DEF Inv, Control, OnlyActive, OptimizerClientAssumption
  <2>. QED
    BY <2>1, <2>2 DEF ClosedIsClosed
<1>2. Inv => OneRunAtATime
  BY <1>1 DEF Inv, Control, Order, OneRunAtATime
<1>. QED
  BY <1>2, Invariance, PTL

-----------------------------------------------------------------------------
(* The classes of JavaScript objects (OutputObjects) *)

LEMMA ClassNames ==
    Classes = {"Delay", "Reconnect", "Network", "Service", "VideoEncoder", "AudioEncoder", "SimpleStreaming",
               "AdvancedStreaming", "EnhancedBroadcastingSimpleStreaming", "EnhancedBroadcastingAdvancedStreaming",
               "SimpleRecording", "AdvancedRecording", "SimpleReplayBuffer", "AdvancedReplayBuffer"}
BY DEF Classes, Class

LEMMA SlotsOfClasses ==
    ASSUME NEW c \in Classes, NEW slot, NEW k, <<slot, k>> \in Class[c].borrows
    PROVE  slot \in Slots
<1>1. <<slot, k>> \in UNION {Class[d].borrows : d \in Classes}
  OBVIOUS
<1>2. <<slot, k>>[1] = slot
  OBVIOUS
<1> QED BY <1>1, <1>2 DEF Slots

LEMMA OneSlotPerClass ==
    ASSUME NEW c \in Classes, NEW s1, NEW s2, NEW k, <<s1, k>> \in Class[c].borrows, <<s2, k>> \in Class[c].borrows
    PROVE  s1 = s2
<1>1. Class[c].borrows \in {{}, streamBorrows, simpleStreamBorrows, SimpleRecording.borrows, AdvancedRecording.borrows,
                           SimpleReplayBuffer.borrows, AdvancedReplayBuffer.borrows}
  BY ClassNames DEF Class, Delay, Reconnect, Network, Service, VideoEncoder, AudioEncoder, SimpleStreaming,
     AdvancedStreaming, EnhancedBroadcastingSimpleStreaming, EnhancedBroadcastingAdvancedStreaming
<1>2. CASE Class[c].borrows \in {streamBorrows, simpleStreamBorrows}
  BY <1>2 DEF streamBorrows, simpleStreamBorrows
<1>3. CASE Class[c].borrows \in {SimpleRecording.borrows, AdvancedRecording.borrows}
  BY <1>3 DEF SimpleRecording, AdvancedRecording
<1>4. CASE Class[c].borrows \in {SimpleReplayBuffer.borrows, AdvancedReplayBuffer.borrows}
  BY <1>4 DEF SimpleReplayBuffer, AdvancedReplayBuffer
<1> QED BY <1>1, <1>2, <1>3, <1>4

-----------------------------------------------------------------------------
(* The inductive invariant about objects *)

Objects == Managers \X Int
References == Slots \cup {"parentOutput"}

ObjectTypes ==
    /\ cast \in Casts
    /\ linked \in BOOLEAN /\ epoch \in Int
    /\ stage \in [Wrappers -> {"none", "held", "dropped", "finalised"}]
    /\ uid \in [Wrappers -> Int] /\ madeIn \in [Wrappers -> Int]
    /\ shown \subseteq Wrappers \X References \X Wrappers
    /\ nextUid \in [Managers -> Nat]
    /\ living \subseteq Objects /\ ended \subseteq Objects
    /\ pointers \subseteq Objects \X Slots \X Objects
    /\ fields \subseteq Objects \X Watched \X FieldValues
    /\ wrote \subseteq Wrappers \X Watched \X FieldValues

Alive(w) == stage[w] \in {"held", "dropped"}
Given(o) == o[2] \in 0 .. nextUid[o[1]] - 1

\* Ids are given in order, and nothing in the server is about an object whose id
\* was not given yet.
Numbered ==
    /\ \A w \in Wrappers : madeIn[w] <= epoch
    /\ \A w \in Wrappers : Wraps(w) => uid[w] = NoUid \/ Given(ObjectOf(w))
    /\ \A o \in living : Given(o)
    /\ \A o, slot, q : <<o, slot, q>> \in pointers => o \in living /\ q[2] # NoUid
    /\ \A o, f, v : <<o, f, v>> \in fields => Given(o)
    /\ \A w, f, v : <<w, f, v>> \in wrote => stage[w] # "none"

\* References go from and to wrappers that the collector has not taken, of one
\* connection.
ShownIsHeld ==
    \A w, r, t : <<w, r, t>> \in shown =>
        /\ Alive(w) /\ Alive(t) /\ madeIn[w] = madeIn[t]
        /\ \E slot \in Slots : r = reference(cast[w], slot) /\ <<slot, cast[t]>> \in Class[cast[w]].borrows

\* What the server points at is shown, unless the frontend ended it or a replay
\* buffer shows another output.
LentIsShown ==
    \A w \in Wrappers : Wraps(w) /\ uid[w] # NoUid =>
        \A slot, o : <<ObjectOf(w), slot, o>> \in pointers /\ Referred(w, slot) /\ o \notin ended =>
            \E t \in Wrappers : <<w, reference(cast[w], slot), t>> \in shown /\ ObjectOf(t) = o

\* The fields of an object are what was last set through its wrapper.
FieldsAgree ==
    \A w \in Wrappers : Wraps(w) /\ ObjectOf(w) \in living =>
        \A f \in Watched, v \in FieldValues : <<ObjectOf(w), f, v>> \in fields <=> <<w, f, v>> \in wrote

\* What a wrapper shows is what the server points at.
ShownIsLent ==
    \A w, r, t : <<w, r, t>> \in shown /\ Wraps(w) /\ ObjectOf(w) \in living /\ ObjectOf(t) \in living =>
        \E slot \in Slots :
            /\ reference(cast[w], slot) = r /\ <<slot, cast[t]>> \in Class[cast[w]].borrows
            /\ <<ObjectOf(w), slot, ObjectOf(t)>> \in pointers

ObjectsInv ==
    ObjectTypes /\ Numbered /\ OwnObjectLives /\ ShownIsHeld /\ LentIsShown /\ FieldsAgree /\ ShownIsLent

-----------------------------------------------------------------------------
LEMMA CastIn == ObjectTypes => cast \in [Wrappers -> Classes]
BY CastsAssumption DEF ObjectTypes

LEMMA ManagerIn ==
    ASSUME ObjectTypes, NEW w \in Wrappers
    PROVE  cast[w] \in Classes /\ Class[cast[w]].manager \in Managers /\ ObjectOf(w) \in Objects
<1>1. cast[w] \in Classes
  BY CastIn
<1>2. Class[cast[w]].manager \in Managers
  BY <1>1 DEF Managers
<1> QED BY <1>1, <1>2 DEF ObjectTypes, ObjectOf, Objects

LEMMA ShownTypes ==
    ASSUME ObjectTypes
    PROVE  /\ \A s \in shown : s = <<s[1], s[2], s[3]>> /\ s[1] \in Wrappers /\ s[3] \in Wrappers
           /\ \A p \in pointers : p = <<p[1], p[2], p[3]>> /\ p[1] \in Objects /\ p[2] \in Slots /\ p[3] \in Objects
           /\ \A w, r, t : <<w, r, t>> \in shown => w \in Wrappers /\ t \in Wrappers
BY DEF ObjectTypes

LEMMA ObjectsInvInit == ObjectsInit => ObjectsInv
<1> SUFFICES ASSUME ObjectsInit PROVE ObjectsInv
  OBVIOUS
<1>1. ObjectTypes
  BY DEF ObjectsInit, ObjectTypes, NoUid
<1>2. \A w \in Wrappers : ~Wraps(w)
  BY DEF ObjectsInit, Wraps
<1>3. Numbered
  BY <1>2 DEF ObjectsInit, Numbered
<1>4. OwnObjectLives /\ LentIsShown /\ FieldsAgree
  BY <1>2 DEF OwnObjectLives, LentIsShown, FieldsAgree
<1>5. ShownIsHeld /\ ShownIsLent
  BY DEF ObjectsInit, ShownIsHeld, ShownIsLent
<1> QED BY <1>1, <1>3, <1>4, <1>5 DEF ObjectsInv

LEMMA InvGivesCollector == ObjectsInv => CollectorIsSafe
<1> SUFFICES ASSUME ObjectsInv, NEW w \in Wrappers, Wraps(w), uid[w] # NoUid,
                    NEW p \in pointers, p[1] = ObjectOf(w), Referred(w, p[2]), p[3] \notin ended
             PROVE  p[3] \in living /\ \E t \in Wrappers : Wraps(t) /\ ObjectOf(t) = p[3]
  BY DEF CollectorIsSafe, BorrowedLives, ObjectsInv
<1>1. <<ObjectOf(w), p[2], p[3]>> \in pointers
  BY ShownTypes DEF ObjectsInv
<1> DEFINE Lent(slot, o) == \E t \in Wrappers : <<w, reference(cast[w], slot), t>> \in shown /\ ObjectOf(t) = o
<1>2. \A slot, o : <<ObjectOf(w), slot, o>> \in pointers /\ Referred(w, slot) /\ o \notin ended => Lent(slot, o)
  BY DEF ObjectsInv, LentIsShown
<1>3. Lent(p[2], p[3])
  BY <1>1, <1>2
<1>4. PICK t \in Wrappers : <<w, reference(cast[w], p[2]), t>> \in shown /\ ObjectOf(t) = p[3]
  BY <1>3
<1>5. Wraps(t)
  BY <1>4 DEF ObjectsInv, ShownIsHeld, Wraps, Alive
<1>6. uid[t] # NoUid
  BY <1>1, <1>4 DEF ObjectsInv, Numbered, ObjectOf
<1> QED BY <1>4, <1>5, <1>6 DEF ObjectsInv, OwnObjectLives

LEMMA InvGivesShown == ObjectsInv => ShownIsUsed
<1> SUFFICES ASSUME ObjectsInv, NEW w \in Wrappers, Wraps(w), ObjectOf(w) \in living
             PROVE  /\ \A f \in Watched, v \in FieldValues :
                          <<ObjectOf(w), f, v>> \in fields <=> <<w, f, v>> \in wrote
                    /\ \A s \in shown : s[1] = w /\ ObjectOf(s[3]) \in living =>
                        \E slot \in Slots :
                            /\ reference(cast[w], slot) = s[2] /\ <<slot, cast[s[3]]>> \in Class[cast[w]].borrows
                            /\ <<ObjectOf(w), slot, ObjectOf(s[3])>> \in pointers
  BY DEF ShownIsUsed
<1>1. \A f \in Watched, v \in FieldValues : <<ObjectOf(w), f, v>> \in fields <=> <<w, f, v>> \in wrote
  BY DEF ObjectsInv, FieldsAgree
<1>2. ASSUME NEW s \in shown, s[1] = w, ObjectOf(s[3]) \in living
      PROVE  \E slot \in Slots :
                 /\ reference(cast[w], slot) = s[2] /\ <<slot, cast[s[3]]>> \in Class[cast[w]].borrows
                 /\ <<ObjectOf(w), slot, ObjectOf(s[3])>> \in pointers
  <2>1. <<w, s[2], s[3]>> \in shown
    BY <1>2, ShownTypes DEF ObjectsInv
  <2> QED BY <1>2, <2>1 DEF ObjectsInv, ShownIsLent
<1> QED BY <1>1, <1>2

-----------------------------------------------------------------------------
(* The steps *)

\* What a wrapper of the present connection names is no other wrapper's.
LEMMA OwnersDiffer ==
    ASSUME ObjectsInv, NEW w \in Wrappers, NEW x \in Wrappers, Wraps(w), Wraps(x), w # x,
           uid[w] # NoUid \/ uid[x] # NoUid
    PROVE  ObjectOf(w) # ObjectOf(x)
BY DEF ObjectsInv, OwnObjectLives, ObjectOf

LEMMA LivingHasUid ==
    ASSUME ObjectsInv, NEW w \in Wrappers, ObjectOf(w) \in living
    PROVE  uid[w] # NoUid
BY DEF ObjectsInv, Numbered, Given, ObjectOf, NoUid

\* The steps that lend nothing and end nothing.
lendingVars == <<cast, uid, madeIn, shown, living, pointers, ended>>
LEMMA LendingKept ==
    ASSUME ObjectsInv, UNCHANGED lendingVars,
           \A x \in Wrappers : (Wraps(x)' => Wraps(x)) /\ (Alive(x)' <=> Alive(x))
    PROVE  OwnObjectLives' /\ ShownIsHeld' /\ LentIsShown' /\ ShownIsLent'
<1> USE DEF ObjectsInv, lendingVars
<1>1. \A x : ObjectOf(x)' = ObjectOf(x)
  BY DEF ObjectOf
<1>2. \A x, slot : Referred(x, slot)' <=> Referred(x, slot)
  BY DEF Referred
<1>3. OwnObjectLives'
  BY <1>1 DEF OwnObjectLives
<1>4. ShownIsHeld'
  BY ShownTypes DEF ShownIsHeld
<1>5. LentIsShown'
  <2> SUFFICES ASSUME NEW w \in Wrappers, Wraps(w)', uid[w] # NoUid,
                      NEW slot, NEW o, <<ObjectOf(w), slot, o>> \in pointers, Referred(w, slot), o \notin ended
               PROVE  \E t \in Wrappers : <<w, reference(cast[w], slot), t>> \in shown /\ ObjectOf(t) = o
    BY <1>1, <1>2 DEF LentIsShown
  <2> QED BY DEF LentIsShown
<1>6. ShownIsLent'
  <2> SUFFICES ASSUME NEW w, NEW r, NEW t, <<w, r, t>> \in shown, Wraps(w)', ObjectOf(w) \in living, ObjectOf(t) \in living
               PROVE  \E slot \in Slots :
                          /\ reference(cast[w], slot) = r /\ <<slot, cast[t]>> \in Class[cast[w]].borrows
                          /\ <<ObjectOf(w), slot, ObjectOf(t)>> \in pointers
    BY <1>1 DEF ShownIsLent
  <2> QED BY ShownTypes DEF ShownIsLent
<1> QED BY <1>3, <1>4, <1>5, <1>6

LEMMA SetFieldStep ==
    ASSUME ObjectsInv, NEW w \in Wrappers, NEW f \in Watched, NEW v \in FieldValues, SetField(w, f, v)
    PROVE  ObjectsInv'
<1> USE DEF ObjectsInv
<1>1. \A o, g, u : <<o, g, u>> \in fields' <=>
          (<<o, g, u>> \in fields /\ (o # ObjectOf(w) \/ g # f)) \/ (o = ObjectOf(w) /\ g = f /\ u = v)
  BY DEF SetField, Put
<1>2. \A x, g, u : <<x, g, u>> \in wrote' <=>
          (<<x, g, u>> \in wrote /\ (x # w \/ g # f)) \/ (x = w /\ g = f /\ u = v)
  BY DEF SetField, Put
<1>3. \A x \in Wrappers : (Wraps(x)' <=> Wraps(x)) /\ (Alive(x)' <=> Alive(x)) /\ ObjectOf(x)' = ObjectOf(x)
  BY DEF SetField, Wraps, Alive, ObjectOf, onClient
<1>4. ObjectTypes'
  <2>1. fields' \subseteq Objects \X Watched \X FieldValues /\ wrote' \subseteq Wrappers \X Watched \X FieldValues
    BY ManagerIn DEF SetField, Put, ObjectTypes
  <2> QED BY <2>1 DEF SetField, ObjectTypes, onClient
<1>5. Numbered'
  <2>1. Given(ObjectOf(w)) /\ stage[w] # "none"
    BY DEF SetField, Numbered, Usable
  <2> QED BY <1>1, <1>2, <1>3, <2>1 DEF SetField, Numbered, Given, onClient, ObjectOf
<1>6. OwnObjectLives' /\ ShownIsHeld' /\ LentIsShown' /\ ShownIsLent'
  BY <1>3, LendingKept DEF SetField, lendingVars, onClient
<1>7. FieldsAgree'
  <2> SUFFICES ASSUME NEW x \in Wrappers, Wraps(x), ObjectOf(x) \in living, NEW g \in Watched, NEW u \in FieldValues
               PROVE  <<ObjectOf(x), g, u>> \in fields' <=> <<x, g, u>> \in wrote'
    BY <1>3 DEF FieldsAgree, SetField
  <2>1. <<ObjectOf(x), g, u>> \in fields <=> <<x, g, u>> \in wrote
    BY DEF FieldsAgree
  <2>2. x # w => ObjectOf(x) # ObjectOf(w)
    BY OwnersDiffer, LivingHasUid DEF SetField, Usable, Wraps
  <2> QED BY <1>1, <1>2, <2>1, <2>2
<1> QED BY <1>4, <1>5, <1>6, <1>7

\* The steps that only change which wrappers a script holds, and calls refused.
LEMMA HoldingStep ==
    ASSUME ObjectsInv, NEW w \in Wrappers, NEW t \in Wrappers, NEW slot \in Slots,
           Drop(w) \/ Get(w, t) \/ BorrowRefused(w, slot, t)
    PROVE  ObjectsInv'
<1> USE DEF ObjectsInv
<1>1. UNCHANGED lendingVars /\ UNCHANGED <<linked, epoch, nextUid, fields, wrote>>
  BY DEF Drop, Get, BorrowRefused, afterRefusal, lendingVars, onServer
<1>2. stage' \in [Wrappers -> {"none", "held", "dropped", "finalised"}]
  BY DEF Drop, Get, BorrowRefused, ObjectTypes
<1>3. \A x \in Wrappers : (stage'[x] = "none" <=> stage[x] = "none") /\ (Alive(x)' <=> Alive(x))
  BY DEF Drop, Get, BorrowRefused, Alive, ObjectTypes
<1>4. \A x \in Wrappers : (Wraps(x)' <=> Wraps(x)) /\ ObjectOf(x)' = ObjectOf(x)
  BY <1>1, <1>3 DEF Wraps, Alive, lendingVars, ObjectOf
<1>5. ObjectTypes'
  BY <1>1, <1>2 DEF lendingVars, ObjectTypes
<1>6. Numbered'
  <2>1. \A o : Given(o)' <=> Given(o)
    BY <1>1 DEF Given
  <2>2. \A x, f, v : <<x, f, v>> \in wrote => x \in Wrappers
    BY DEF ObjectTypes
  <2> QED BY <1>1, <1>3, <1>4, <2>1, <2>2 DEF lendingVars, Numbered
<1>7. OwnObjectLives' /\ ShownIsHeld' /\ LentIsShown' /\ ShownIsLent'
  BY <1>1, <1>3, <1>4, LendingKept
<1>8. FieldsAgree'
  BY <1>1, <1>4 DEF FieldsAgree, lendingVars
<1> QED BY <1>5, <1>6, <1>7, <1>8

\* With the connection every wrapper loses its object.
LEMMA ConnectionStep ==
    ASSUME ObjectsInv, NEW serverEnds \in BOOLEAN, disconnect(serverEnds) \/ connect
    PROVE  ObjectsInv'
<1> USE DEF ObjectsInv
<1>1. UNCHANGED <<cast, stage, uid, madeIn, shown, wrote>> /\ epoch' = epoch + 1 /\ linked' \in BOOLEAN
  BY DEF disconnect, connect, onClient
<1>2. \A w \in Wrappers : ~Wraps(w)'
  BY <1>1 DEF Wraps, Numbered, ObjectTypes
<1>3. CASE UNCHANGED <<onServer, ended>>
  <2>1. ObjectTypes'
    BY <1>1, <1>3 DEF ObjectTypes, onServer
  <2>2. Numbered'
    BY <1>1, <1>2, <1>3 DEF Numbered, onServer, ObjectTypes, Given
  <2> QED BY <1>1, <1>2, <1>3, <2>1, <2>2, ShownTypes
       DEF OwnObjectLives, ShownIsHeld, LentIsShown, FieldsAgree, ShownIsLent, Alive
<1>4. CASE nextUid' = [m \in Managers |-> 0] /\ living' = {} /\ pointers' = {} /\ fields' = {} /\ ended' = {}
  <2>1. ObjectTypes'
    BY <1>1, <1>4 DEF ObjectTypes
  <2>2. Numbered'
    BY <1>1, <1>2, <1>4 DEF Numbered, ObjectTypes
  <2> QED BY <1>1, <1>2, <1>4, <2>1, <2>2, ShownTypes
       DEF OwnObjectLives, ShownIsHeld, LentIsShown, FieldsAgree, ShownIsLent, Alive
<1> QED BY <1>3, <1>4 DEF disconnect, connect

LEMMA MakeStep ==
    ASSUME ObjectsInv, NEW w \in Wrappers, Make(w)
    PROVE  ObjectsInv'
<1> DEFINE m == Class[cast[w]].manager
           o == <<m, nextUid[m]>>
<1> USE DEF ObjectsInv
<1>1. m \in Managers /\ nextUid[m] \in Nat /\ o \in Objects /\ o = <<m, nextUid[m]>> /\ o[1] = m /\ o[2] = nextUid[m]
  BY ManagerIn DEF ObjectTypes, Objects
<1>2. ~Given(o)
  BY <1>1 DEF Given
<1>3. /\ stage' = [stage EXCEPT ![w] = "held"] /\ uid' = [uid EXCEPT ![w] = nextUid[m]]
      /\ madeIn' = [madeIn EXCEPT ![w] = epoch] /\ nextUid' = [nextUid EXCEPT ![m] = @ + 1]
      /\ living' = living \cup {o} /\ stage[w] = "none"
      /\ UNCHANGED <<cast, linked, epoch, shown, pointers, fields, ended, wrote>>
  BY DEF Make, allocate
<1>4. \A q \in Objects : (Given(q) => Given(q)') /\ (Given(q)' => Given(q) \/ q = o)
  <2> SUFFICES ASSUME NEW k \in Managers, NEW n \in Int
               PROVE  (Given(<<k, n>>) => Given(<<k, n>>)') /\ (Given(<<k, n>>)' => Given(<<k, n>>) \/ <<k, n>> = o)
    BY DEF Objects
  <2>1. nextUid' \in [Managers -> Nat] /\ nextUid'[k] = IF k = m THEN nextUid[m] + 1 ELSE nextUid[k]
    BY <1>1, <1>3 DEF ObjectTypes
  <2> QED BY <1>1, <2>1 DEF Given, ObjectTypes
<1>5. o[2] \in 0 .. nextUid'[o[1]] - 1
  BY <1>1, <1>3 DEF ObjectTypes
<1>6. \A x \in Wrappers : x # w =>
          (Wraps(x)' <=> Wraps(x)) /\ ObjectOf(x)' = ObjectOf(x) /\ uid'[x] = uid[x] /\ stage'[x] = stage[x] /\ madeIn'[x] = madeIn[x]
  BY <1>3 DEF Wraps, ObjectOf, ObjectTypes
<1>7. Wraps(w)' /\ ObjectOf(w)' = o /\ uid'[w] # NoUid /\ ~Wraps(w) /\ stage'[w] = "held" /\ madeIn'[w] = epoch
  BY <1>1, <1>3 DEF Wraps, ObjectOf, NoUid, ObjectTypes
<1> HIDE DEF m, o
<1>8. ObjectTypes'
  BY <1>1, <1>3 DEF ObjectTypes
<1>9. Numbered'
  <2>1. \A x \in Wrappers : madeIn'[x] <= epoch'
    BY <1>3, <1>6, <1>7 DEF Numbered, ObjectTypes
  <2>2. \A x \in Wrappers : Wraps(x)' => uid'[x] = NoUid \/ Given(ObjectOf(x))'
    <3> SUFFICES ASSUME NEW x \in Wrappers, Wraps(x)', x # w, uid'[x] # NoUid PROVE Given(ObjectOf(x))'
      BY <1>5, <1>7 DEF Given
    <3>1. Given(ObjectOf(x)) /\ ObjectOf(x) \in Objects
      BY <1>6, ManagerIn DEF Numbered
    <3> QED BY <1>4, <1>6, <3>1 DEF Given
  <2>3. \A q \in living' : Given(q)'
    BY <1>3, <1>4, <1>5 DEF Numbered, ObjectTypes, Given
  <2>4. \A h, slot, q : <<h, slot, q>> \in pointers' => h \in living' /\ q[2] # NoUid
    BY <1>3 DEF Numbered
  <2>5. \A h, f, v : <<h, f, v>> \in fields' => Given(h)'
    <3> SUFFICES ASSUME NEW h, NEW f, NEW v, <<h, f, v>> \in fields PROVE Given(h)'
      BY <1>3
    <3>1. h \in Objects /\ Given(h)
      BY DEF ObjectTypes, Numbered
    <3> QED BY <1>4, <3>1
  <2>6. \A x, f, v : <<x, f, v>> \in wrote' => stage'[x] # "none"
    BY <1>3, <1>6, <1>7 DEF Numbered, ObjectTypes
  <2> QED BY <2>1, <2>2, <2>3, <2>4, <2>5, <2>6 DEF Numbered
\* The new object is no other wrapper's, and nothing is known of it.
<1>10. \A x \in Wrappers : Wraps(x) => ObjectOf(x) # o
  <2> SUFFICES ASSUME NEW x \in Wrappers, Wraps(x), ObjectOf(x) = o PROVE FALSE
    OBVIOUS
  <2>1. uid[x] = NoUid
    BY <1>2 DEF Numbered
  <2> QED BY <1>1, <2>1 DEF ObjectOf, NoUid
<1>11. OwnObjectLives'
  <2> SUFFICES ASSUME NEW x \in Wrappers, Wraps(x)', uid'[x] # NoUid
               PROVE  /\ ObjectOf(x)' \in living' \cup ended'
                      /\ \A y \in Wrappers : Wraps(y)' /\ ObjectOf(y)' = ObjectOf(x)' => y = x
    BY DEF OwnObjectLives
  <2>1. CASE x = w
    BY <1>3, <1>6, <1>7, <1>10, <2>1
  <2>2. CASE x # w
    BY <1>3, <1>6, <1>7, <1>10, <2>2 DEF OwnObjectLives
  <2> QED BY <2>1, <2>2
<1>12. \A x, r, t : <<x, r, t>> \in shown => x \in Wrappers /\ t \in Wrappers /\ x # w /\ t # w
  BY <1>3, ShownTypes DEF ShownIsHeld, Alive
<1>13. ShownIsHeld'
  BY <1>3, <1>6, <1>12 DEF ShownIsHeld, Alive
<1>14. LentIsShown'
  <2> SUFFICES ASSUME NEW x \in Wrappers, Wraps(x)', uid'[x] # NoUid,
                      NEW slot, NEW q, <<ObjectOf(x)', slot, q>> \in pointers, Referred(x, slot), q \notin ended
               PROVE  \E t \in Wrappers : <<x, reference(cast[x], slot), t>> \in shown /\ ObjectOf(t)' = q
    BY <1>3 DEF LentIsShown, Referred
  <2>1. x # w
    BY <1>2, <1>7 DEF Numbered
  <2>2. PICK t \in Wrappers : <<x, reference(cast[x], slot), t>> \in shown /\ ObjectOf(t) = q
    BY <1>6, <2>1 DEF LentIsShown
  <2> QED BY <1>6, <1>12, <2>2
<1>15. FieldsAgree'
  <2> SUFFICES ASSUME NEW x \in Wrappers, Wraps(x)', ObjectOf(x)' \in living', NEW f \in Watched, NEW v \in FieldValues
               PROVE  <<ObjectOf(x)', f, v>> \in fields <=> <<x, f, v>> \in wrote
    BY <1>3 DEF FieldsAgree
  <2>1. CASE x = w
    BY <1>2, <1>3, <1>7, <2>1 DEF Numbered
  <2>2. CASE x # w
    BY <1>3, <1>6, <1>10, <2>2 DEF FieldsAgree
  <2> QED BY <2>1, <2>2
<1>16. ShownIsLent'
  <2> SUFFICES ASSUME NEW x, NEW r, NEW t, <<x, r, t>> \in shown, Wraps(x)', ObjectOf(x)' \in living', ObjectOf(t)' \in living'
               PROVE  \E slot \in Slots :
                          /\ reference(cast[x], slot) = r /\ <<slot, cast[t]>> \in Class[cast[x]].borrows
                          /\ <<ObjectOf(x)', slot, ObjectOf(t)'>> \in pointers
    BY <1>3 DEF ShownIsLent
  <2>1. x \in Wrappers /\ t \in Wrappers /\ x # w /\ t # w
    BY <1>12
  <2>2. Wraps(x) /\ Wraps(t) /\ ObjectOf(x)' = ObjectOf(x) /\ ObjectOf(t)' = ObjectOf(t)
    BY <1>6, <2>1 DEF ShownIsHeld, Wraps, Alive
  <2>3. ObjectOf(x) \in living /\ ObjectOf(t) \in living
    BY <1>3, <1>10, <2>1, <2>2
  <2> QED BY <2>2, <2>3 DEF ShownIsLent
<1> QED BY <1>8, <1>9, <1>11, <1>13, <1>14, <1>15, <1>16

\* To take a slot of an output, or to give it back, leaves the other slots alone.
LEMMA BorrowStep ==
    ASSUME ObjectsInv, NEW w \in Wrappers, NEW slot \in Slots, NEW t \in Wrappers, Borrow(w, slot, t)
    PROVE  ObjectsInv'
<1> DEFINE c == cast[w]
           ref == reference(c, slot)
           h == ObjectOf(w)
           q == ObjectOf(t)
<1> USE DEF ObjectsInv
<1>1. /\ Usable(w) /\ Usable(t) /\ <<slot, cast[t]>> \in Class[c].borrows /\ h \in living
      /\ UNCHANGED <<cast, linked, epoch, stage, uid, madeIn, nextUid, living, fields, ended, wrote>>
  BY DEF Borrow, Found
<1>2. c \in Classes /\ h \in Objects /\ q \in Objects /\ ref \in References
  BY ManagerIn DEF reference, References
<1>3. q[2] = uid[t]
  BY DEF ObjectOf
<1>4. \A a, sl, b : <<a, sl, b>> \in pointers' <=>
          (<<a, sl, b>> \in pointers /\ (a # h \/ sl # slot)) \/ (a = h /\ sl = slot /\ b = q /\ uid[t] # NoUid)
  BY DEF Borrow, PointTo, PointNowhere
<1>5. \A x, r, y : <<x, r, y>> \in shown' <=>
          (<<x, r, y>> \in shown /\ (x # w \/ r # ref)) \/ (x = w /\ r = ref /\ y = t)
  BY DEF Borrow, Show
<1>6. pointers' \subseteq Objects \X Slots \X Objects /\ shown' \subseteq Wrappers \X References \X Wrappers
  BY <1>2 DEF Borrow, PointTo, PointNowhere, Show, ObjectTypes
<1>7. \A x : (Wraps(x)' <=> Wraps(x)) /\ ObjectOf(x)' = ObjectOf(x) /\ (Alive(x)' <=> Alive(x))
  BY <1>1 DEF Wraps, ObjectOf, Alive
<1>8. Wraps(w) /\ Wraps(t) /\ Alive(w) /\ Alive(t) /\ madeIn[w] = madeIn[t]
  BY <1>1 DEF Usable, Wraps, Alive
<1>9. \A x \in Wrappers : Wraps(x) /\ uid[x] # NoUid /\ x # w => ObjectOf(x) # h
  BY <1>8, OwnersDiffer
<1>10. c \in ReplayBuffers => \A sl \in Slots : reference(c, sl) = ref
  BY DEF reference
<1>11. c \notin ReplayBuffers => \A sl \in Slots : reference(c, sl) = sl
  BY DEF reference
<1> HIDE DEF c, ref, h, q
<1>12. ObjectTypes'
  BY <1>1, <1>6 DEF ObjectTypes
<1>13. Numbered'
  BY <1>1, <1>3, <1>4, <1>7 DEF Numbered, Given
<1>14. OwnObjectLives' /\ FieldsAgree'
  BY <1>1, <1>7 DEF OwnObjectLives, FieldsAgree
<1>15. ShownIsHeld'
  BY <1>1, <1>5, <1>7, <1>8 DEF ShownIsHeld, c, ref
<1>16. LentIsShown'
  <2> SUFFICES ASSUME NEW x \in Wrappers, Wraps(x), uid[x] # NoUid, NEW sl, NEW o,
                      <<ObjectOf(x), sl, o>> \in pointers', Referred(x, sl)', o \notin ended
               PROVE  \E y \in Wrappers : <<x, reference(cast[x], sl), y>> \in shown' /\ ObjectOf(y) = o
    BY <1>1, <1>7 DEF LentIsShown
  <2>1. sl \in Slots
    BY <1>6
  <2>2. CASE x # w
    <3>1. <<ObjectOf(x), sl, o>> \in pointers
      BY <1>4, <1>9, <2>2
    <3>2. Referred(x, sl)
      BY <1>1, <1>5, <1>6, <2>2 DEF Referred
    <3>3. PICK y \in Wrappers : <<x, reference(cast[x], sl), y>> \in shown /\ ObjectOf(y) = o
      BY <3>1, <3>2 DEF LentIsShown
    <3> QED BY <1>5, <2>2, <3>3
  <2>3. CASE x = w /\ sl = slot
    BY <1>4, <1>5, <2>3 DEF h, q, c, ref
  <2>4. CASE x = w /\ sl # slot /\ c \in ReplayBuffers
    <3>1. PICK s \in shown' : s[1] = w /\ <<sl, cast[s[3]]>> \in Class[c].borrows
      BY <1>1, <2>4 DEF Referred, c
    <3>2. <<w, s[2], s[3]>> \in shown'
      BY <1>6, <3>1
    <3>3. s[3] # t
      BY <1>1, <1>2, <2>4, <3>1, OneSlotPerClass
    <3>4. <<w, s[2], s[3]>> \in shown /\ s[2] # ref
      BY <1>5, <3>2, <3>3
    <3> QED BY <1>10, <2>4, <3>4 DEF ShownIsHeld, c
  <2>5. CASE x = w /\ sl # slot /\ c \notin ReplayBuffers
    <3>1. <<ObjectOf(w), sl, o>> \in pointers /\ Referred(w, sl)
      BY <1>4, <2>5 DEF Referred, c
    <3>2. PICK y \in Wrappers : <<w, reference(cast[w], sl), y>> \in shown /\ ObjectOf(y) = o
      BY <2>5, <3>1 DEF LentIsShown
    <3>3. reference(cast[w], sl) = sl /\ ref = slot
      BY <1>11, <2>1, <2>5 DEF c, ref
    <3> QED BY <1>5, <2>5, <3>2, <3>3
  <2> QED BY <2>2, <2>3, <2>4, <2>5
<1>17. ShownIsLent'
  <2> SUFFICES ASSUME NEW x, NEW r, NEW y, <<x, r, y>> \in shown', Wraps(x), ObjectOf(x) \in living, ObjectOf(y) \in living
               PROVE  \E sl \in Slots :
                          /\ reference(cast[x], sl) = r /\ <<sl, cast[y]>> \in Class[cast[x]].borrows
                          /\ <<ObjectOf(x), sl, ObjectOf(y)>> \in pointers'
    BY <1>1, <1>7 DEF ShownIsLent
  <2>1. x \in Wrappers
    BY <1>6
  <2>2. CASE x = w /\ r = ref /\ y = t
    <3>1. uid[t] # NoUid
      BY <2>2, LivingHasUid
    <3> QED BY <1>1, <1>4, <2>2, <3>1 DEF c, ref, h, q
  <2>3. CASE <<x, r, y>> \in shown /\ (x # w \/ r # ref)
    <3>1. PICK sl \in Slots :
              /\ reference(cast[x], sl) = r /\ <<sl, cast[y]>> \in Class[cast[x]].borrows
              /\ <<ObjectOf(x), sl, ObjectOf(y)>> \in pointers
      BY <2>3 DEF ShownIsLent
    <3>2. x # w => ObjectOf(x) # h
      BY <1>9, <2>1, LivingHasUid
    <3>3. x = w => sl # slot
      BY <2>3, <3>1 DEF c, ref
    <3> QED BY <1>4, <3>1, <3>2, <3>3
  <2> QED BY <1>5, <2>2, <2>3
<1> QED BY <1>12, <1>13, <1>14, <1>15, <1>16, <1>17

LEMMA ReturnStep ==
    ASSUME ObjectsInv, NEW w \in Wrappers, NEW slot \in Slots, Return(w, slot)
    PROVE  ObjectsInv'
<1> DEFINE c == cast[w]
           ref == reference(c, slot)
           h == ObjectOf(w)
           k == cleared(c, slot)
<1> USE DEF ObjectsInv
<1>1. Wraps(w) /\ UNCHANGED <<cast, linked, epoch, stage, uid, madeIn, nextUid, living, fields, ended, wrote>>
  BY DEF Return, Usable, Wraps
<1>2. \A a, sl, b : <<a, sl, b>> \in pointers' <=> <<a, sl, b>> \in pointers /\ (a # h \/ sl # k)
  BY DEF Return, PointNowhere
<1>3. \A x, r, y : <<x, r, y>> \in shown' <=> <<x, r, y>> \in shown /\ (x # w \/ r # ref)
  BY DEF Return, ShowNothing
<1>4. pointers' \subseteq pointers /\ shown' \subseteq shown
  BY DEF Return, PointNowhere, ShowNothing
<1>5. \A x : (Wraps(x)' <=> Wraps(x)) /\ ObjectOf(x)' = ObjectOf(x) /\ (Alive(x)' <=> Alive(x))
  BY <1>1 DEF Wraps, ObjectOf, Alive
<1>6. \A x \in Wrappers : Wraps(x) /\ uid[x] # NoUid /\ x # w => ObjectOf(x) # h
  BY <1>1, OwnersDiffer
<1>7. c \in ReplayBuffers => \A r, y : <<w, r, y>> \notin shown'
  <2> SUFFICES ASSUME c \in ReplayBuffers, NEW r, NEW y, <<w, r, y>> \in shown' PROVE FALSE
    OBVIOUS
  <2>1. <<w, r, y>> \in shown /\ r # ref
    BY <1>3
  <2>2. PICK sl \in Slots : r = reference(cast[w], sl) /\ <<sl, cast[y]>> \in Class[cast[w]].borrows
    BY <2>1 DEF ShownIsHeld
  <2> QED BY <2>1, <2>2 DEF reference
<1>8. c \notin ReplayBuffers => k = slot /\ ref = slot /\ \A sl \in Slots : reference(c, sl) = sl
  BY DEF reference, cleared, ReplayBuffers
<1> HIDE DEF c, ref, h, k
<1>9. ObjectTypes'
  BY <1>1, <1>4 DEF ObjectTypes
<1>10. Numbered'
  BY <1>1, <1>2, <1>5 DEF Numbered, Given
<1>11. OwnObjectLives' /\ FieldsAgree'
  BY <1>1, <1>5 DEF OwnObjectLives, FieldsAgree
<1>12. ShownIsHeld'
  BY <1>1, <1>3, <1>5 DEF ShownIsHeld
<1>13. LentIsShown'
  <2> SUFFICES ASSUME NEW x \in Wrappers, Wraps(x), uid[x] # NoUid, NEW sl, NEW o,
                      <<ObjectOf(x), sl, o>> \in pointers', Referred(x, sl)', o \notin ended
               PROVE  \E y \in Wrappers : <<x, reference(cast[x], sl), y>> \in shown' /\ ObjectOf(y) = o
    BY <1>1, <1>5 DEF LentIsShown
  <2>1. sl \in Slots /\ <<ObjectOf(x), sl, o>> \in pointers
    BY <1>2 DEF ObjectTypes
  <2>2. Referred(x, sl)
    BY <1>1, <1>4 DEF Referred
  <2>3. PICK y \in Wrappers : <<x, reference(cast[x], sl), y>> \in shown /\ ObjectOf(y) = o
    BY <2>1, <2>2 DEF LentIsShown
  <2>4. CASE x # w
    BY <1>3, <2>3, <2>4
  <2>5. CASE x = w /\ c \in ReplayBuffers
    <3>1. PICK s \in shown' : s[1] = w
      BY <1>1, <2>5 DEF Referred, c
    <3>2. <<w, s[2], s[3]>> \in shown'
      BY <1>4, <3>1, ShownTypes
    <3> QED BY <1>7, <2>5, <3>2
  <2>6. CASE x = w /\ c \notin ReplayBuffers
    <3>1. sl # slot
      BY <1>2, <1>8, <2>6 DEF h
    <3> QED BY <1>3, <1>8, <2>1, <2>3, <2>6, <3>1 DEF c
  <2> QED BY <2>4, <2>5, <2>6
<1>14. ShownIsLent'
  <2> SUFFICES ASSUME NEW x, NEW r, NEW y, <<x, r, y>> \in shown', Wraps(x), ObjectOf(x) \in living, ObjectOf(y) \in living
               PROVE  \E sl \in Slots :
                          /\ reference(cast[x], sl) = r /\ <<sl, cast[y]>> \in Class[cast[x]].borrows
                          /\ <<ObjectOf(x), sl, ObjectOf(y)>> \in pointers'
    BY <1>1, <1>5 DEF ShownIsLent
  <2>1. <<x, r, y>> \in shown /\ x \in Wrappers
    BY <1>3, ShownTypes
  <2>2. PICK sl \in Slots :
            /\ reference(cast[x], sl) = r /\ <<sl, cast[y]>> \in Class[cast[x]].borrows
            /\ <<ObjectOf(x), sl, ObjectOf(y)>> \in pointers
    BY <2>1 DEF ShownIsLent
  <2>3. x # w => ObjectOf(x) # h
    BY <1>6, <2>1, LivingHasUid
  <2>4. x = w => sl # k
    BY <1>3, <1>7, <1>8, <2>2 DEF c
  <2> QED BY <1>2, <2>2, <2>3, <2>4
<1> QED BY <1>9, <1>10, <1>11, <1>12, <1>13, <1>14

\* What ends an object: nothing that lives points from it any more, and whoever
\* still refers to it finds it among the ended ones.
LEMMA EndKept ==
    ASSUME ObjectsInv, NEW w \in Wrappers,
           UNCHANGED <<cast, linked, epoch, madeIn, nextUid, fields, wrote>>,
           stage' \in [Wrappers -> {"none", "held", "dropped", "finalised"}], uid' \in [Wrappers -> Int],
           stage'[w] # "none", uid'[w] = uid[w] \/ uid'[w] = NoUid, Wraps(w)' => Wraps(w),
           \A x \in Wrappers : x # w => stage'[x] = stage[x] /\ uid'[x] = uid[x],
           UNCHANGED <<living, pointers>> \/ (Wraps(w) /\ Unknown(ObjectOf(w))),
           ended' = ended \/ ended' = ended \cup {ObjectOf(w)},
           shown' = shown \/ shown' = ReleaseObjects(w),
           Alive(w)' \/ (shown' = ReleaseObjects(w) /\ \A s \in shown : s[3] # w),
           Alive(w)' => ObjectOf(w) \in ended', Wraps(w)' => ObjectOf(w)' \notin living'
    PROVE  ObjectsInv'
<1> DEFINE h == ObjectOf(w)
<1> USE DEF ObjectsInv
<1>1. h \in Objects
  BY ManagerIn
<1>2. living' \subseteq living /\ pointers' \subseteq pointers /\ ended \subseteq ended' /\ ended' \subseteq ended \cup {h}
  BY DEF Unknown
<1>3. shown' \subseteq shown /\ \A x, r, y : <<x, r, y>> \in shown /\ x # w => <<x, r, y>> \in shown'
  BY DEF ReleaseObjects
<1>4. \A x \in Wrappers : x # w => (Wraps(x)' <=> Wraps(x)) /\ ObjectOf(x)' = ObjectOf(x) /\ (Alive(x)' <=> Alive(x))
  BY DEF Wraps, ObjectOf, Alive
\* The other wrappers' objects and what these point at stay.
<1>5. \A x \in Wrappers : x # w /\ Wraps(x) /\ uid[x] # NoUid =>
          /\ ObjectOf(x) \in living \cup ended => ObjectOf(x) \in living' \cup ended'
          /\ \A sl, o : <<ObjectOf(x), sl, o>> \in pointers => <<ObjectOf(x), sl, o>> \in pointers'
  <2> SUFFICES ASSUME NEW x \in Wrappers, x # w, Wraps(x), uid[x] # NoUid, Wraps(w), Unknown(h)
               PROVE  /\ ObjectOf(x) \in living \cup ended => ObjectOf(x) \in living' \cup ended'
                      /\ \A sl, o : <<ObjectOf(x), sl, o>> \in pointers => <<ObjectOf(x), sl, o>> \in pointers'
    BY <1>2
  <2>1. ObjectOf(x) # h
    BY OwnersDiffer
  <2> QED BY <1>2, <2>1 DEF Unknown
\* Nobody refers to a wrapper that the collector takes.
<1>6. \A x, r, y : <<x, r, y>> \in shown' /\ ~Alive(w)' => x # w /\ y # w
  BY DEF ReleaseObjects
<1>7. \A x, r, y : <<x, r, y>> \in shown' => x \in Wrappers /\ y \in Wrappers /\ <<x, r, y>> \in shown
  BY <1>3, ShownTypes
<1>8. \A y, r : y \in Wrappers /\ <<y, r, w>> \in shown => h \in ended'
  <2> SUFFICES ASSUME NEW y, NEW r, <<y, r, w>> \in shown, ~Alive(w)' PROVE FALSE
    OBVIOUS
  <2>1. <<y, r, w>>[3] = w
    OBVIOUS
  <2> QED BY <2>1
<1> HIDE DEF h
<1>9. ObjectTypes'
  BY <1>1, <1>2, <1>3 DEF ObjectTypes
<1>10. Numbered'
  <2>1. \A o : Given(o)' <=> Given(o)
    BY DEF Given
  <2>2. \A x \in Wrappers : Wraps(x)' => uid'[x] = NoUid \/ Given(ObjectOf(x))'
    <3>1. CASE UNCHANGED uid
      BY <1>4, <2>1, <3>1 DEF Numbered, ObjectOf
    <3>2. ASSUME NEW x \in Wrappers, x # w, Wraps(x)' PROVE uid'[x] = NoUid \/ Given(ObjectOf(x))'
      BY <1>4, <2>1, <3>2 DEF Numbered, Given
    <3>3. Wraps(w)' => uid'[w] = NoUid \/ Given(ObjectOf(w))'
      BY DEF Numbered, ObjectOf, Given
    <3> QED BY <3>2, <3>3
  <2>3. \A a, sl, b : <<a, sl, b>> \in pointers' => a \in living' /\ b[2] # NoUid
    BY DEF Numbered, Unknown
  <2>4. \A x, f, v : <<x, f, v>> \in wrote' => stage'[x] # "none"
    BY DEF Numbered, ObjectTypes
  <2> QED BY <1>2, <2>1, <2>2, <2>3, <2>4 DEF Numbered
<1>11. OwnObjectLives'
  <2> SUFFICES ASSUME NEW x \in Wrappers, Wraps(x)', uid'[x] # NoUid
               PROVE  /\ ObjectOf(x)' \in living' \cup ended'
                      /\ \A y \in Wrappers : Wraps(y)' /\ ObjectOf(y)' = ObjectOf(x)' => y = x
    BY DEF OwnObjectLives
  <2>1. Wraps(x) /\ uid[x] = uid'[x] /\ ObjectOf(x)' = ObjectOf(x)
    BY <1>4 DEF ObjectOf
  <2>2. ObjectOf(x) \in living' \cup ended'
    <3>1. CASE x = w
      BY <3>1 DEF Alive, Wraps
    <3>2. CASE x # w
      BY <1>5, <2>1, <3>2 DEF OwnObjectLives
    <3> QED BY <3>1, <3>2
  <2>3. ASSUME NEW y \in Wrappers, Wraps(y)', ObjectOf(y)' = ObjectOf(x)' PROVE y = x
    <3>1. Wraps(y) /\ uid'[y] = uid'[x]
      BY <1>4, <2>3 DEF ObjectOf
    <3>2. uid[y] = uid'[y]
      BY <3>1
    <3> QED BY <2>1, <2>3, <3>1, <3>2 DEF OwnObjectLives, ObjectOf
  <2> QED BY <2>1, <2>2, <2>3
<1>12. ShownIsHeld'
  <2> SUFFICES ASSUME NEW x, NEW r, NEW y, <<x, r, y>> \in shown'
               PROVE  /\ Alive(x)' /\ Alive(y)' /\ madeIn[x] = madeIn[y]
                      /\ \E sl \in Slots : r = reference(cast[x], sl) /\ <<sl, cast[y]>> \in Class[cast[x]].borrows
    BY DEF ShownIsHeld
  <2>1. x \in Wrappers /\ y \in Wrappers /\ <<x, r, y>> \in shown
    BY <1>7
  <2>2. /\ Alive(x) /\ Alive(y) /\ madeIn[x] = madeIn[y]
        /\ \E sl \in Slots : r = reference(cast[x], sl) /\ <<sl, cast[y]>> \in Class[cast[x]].borrows
    BY <2>1 DEF ShownIsHeld
  <2>3. Alive(x)' /\ Alive(y)'
    BY <1>4, <1>6, <2>1, <2>2
  <2> QED BY <2>2, <2>3
<1>13. LentIsShown'
  <2> SUFFICES ASSUME NEW x \in Wrappers, Wraps(x)', uid'[x] # NoUid, NEW sl, NEW o,
                      <<ObjectOf(x)', sl, o>> \in pointers', Referred(x, sl)', o \notin ended'
               PROVE  \E y \in Wrappers : <<x, reference(cast[x], sl), y>> \in shown' /\ ObjectOf(y)' = o
    BY DEF LentIsShown
  <2>1. x # w
    BY <1>10 DEF Numbered
  <2>2. Wraps(x) /\ uid[x] # NoUid /\ ObjectOf(x)' = ObjectOf(x)
    BY <1>4, <2>1
  <2>3. <<ObjectOf(x), sl, o>> \in pointers /\ Referred(x, sl) /\ o \notin ended
    BY <1>2, <1>3, <2>2 DEF Referred
  <2>4. PICK y \in Wrappers : <<x, reference(cast[x], sl), y>> \in shown /\ ObjectOf(y) = o
    BY <2>2, <2>3 DEF LentIsShown
  <2>5. y # w
    BY <1>8, <2>4 DEF h
  <2> QED BY <1>3, <1>4, <2>1, <2>4, <2>5
<1>14. FieldsAgree'
  BY <1>2, <1>4 DEF FieldsAgree
<1>15. ShownIsLent'
  <2> SUFFICES ASSUME NEW x, NEW r, NEW y, <<x, r, y>> \in shown', Wraps(x)', ObjectOf(x)' \in living', ObjectOf(y)' \in living'
               PROVE  \E sl \in Slots :
                          /\ reference(cast[x], sl) = r /\ <<sl, cast[y]>> \in Class[cast[x]].borrows
                          /\ <<ObjectOf(x)', sl, ObjectOf(y)'>> \in pointers'
    BY DEF ShownIsLent
  <2>1. x \in Wrappers /\ y \in Wrappers /\ <<x, r, y>> \in shown /\ x # w
    BY <1>7
  <2>2. Wraps(y)'
    BY <1>12 DEF ShownIsHeld, Wraps, Alive
  <2>3. y # w /\ Wraps(x) /\ ObjectOf(x)' = ObjectOf(x) /\ ObjectOf(y)' = ObjectOf(y)
    BY <1>4, <2>1, <2>2
  <2>4. ObjectOf(x) \in living /\ ObjectOf(y) \in living
    BY <1>2, <2>3
  <2>5. PICK sl \in Slots :
            /\ reference(cast[x], sl) = r /\ <<sl, cast[y]>> \in Class[cast[x]].borrows
            /\ <<ObjectOf(x), sl, ObjectOf(y)>> \in pointers
    BY <2>1, <2>3, <2>4 DEF ShownIsLent
  <2> QED BY <1>5, <2>1, <2>3, <2>4, <2>5, LivingHasUid
<1> QED BY <1>9, <1>10, <1>11, <1>12, <1>13, <1>14, <1>15


LEMMA ReleaseStep ==
    ASSUME ObjectsInv, NEW w \in Wrappers, Release(w)
    PROVE  ObjectsInv'
<1>1. /\ Wraps(w) /\ Alive(w) /\ Unknown(ObjectOf(w)) /\ ended' = ended \cup {ObjectOf(w)}
      /\ uid' = [uid EXCEPT ![w] = NoUid]
      /\ UNCHANGED <<cast, linked, epoch, stage, madeIn, shown, nextUid, fields, wrote>>
  BY DEF Release, Usable, Wraps, Alive
<1>2. uid' \in [Wrappers -> Int] /\ uid'[w] = NoUid /\ \A x \in Wrappers : x # w => uid'[x] = uid[x]
  BY <1>1 DEF ObjectsInv, ObjectTypes, NoUid
<1>3. stage' \in [Wrappers -> {"none", "held", "dropped", "finalised"}] /\ stage'[w] # "none"
  BY <1>1 DEF ObjectsInv, ObjectTypes, Alive
<1>4. Alive(w)' /\ (Wraps(w)' <=> Wraps(w))
  BY <1>1 DEF Alive, Wraps
<1>5. ObjectOf(w)' \notin living'
  <2>1. ObjectOf(w)'[2] = NoUid
    BY <1>1, <1>2 DEF ObjectOf
  <2> QED BY <1>1, <2>1 DEF ObjectsInv, Numbered, Given, Unknown, NoUid
<1> QED BY <1>1, <1>2, <1>3, <1>4, <1>5, EndKept

LEMMA DestroyStep ==
    ASSUME ObjectsInv, NEW w \in Wrappers, Destroy(w)
    PROVE  ObjectsInv'
<1>1. /\ Wraps(w) /\ Alive(w) /\ Unknown(ObjectOf(w)) /\ ended' = ended \cup {ObjectOf(w)}
      /\ shown' = shown \/ shown' = ReleaseObjects(w)
      /\ UNCHANGED <<cast, linked, epoch, stage, uid, madeIn, nextUid, fields, wrote>>
  BY DEF Destroy, Usable, Wraps, Alive
<1>2. uid' \in [Wrappers -> Int] /\ stage' \in [Wrappers -> {"none", "held", "dropped", "finalised"}] /\ stage'[w] # "none"
  BY <1>1 DEF ObjectsInv, ObjectTypes, Alive
<1>3. Alive(w)' /\ (Wraps(w)' <=> Wraps(w)) /\ ObjectOf(w)' = ObjectOf(w)
  BY <1>1 DEF Alive, Wraps, ObjectOf
<1>4. ObjectOf(w)' \notin living'
  BY <1>1, <1>3 DEF Unknown
<1> QED BY <1>1, <1>2, <1>3, <1>4, EndKept

LEMMA FinalizeStep ==
    ASSUME ObjectsInv, NEW w \in Wrappers, Finalize(w)
    PROVE  ObjectsInv'
<1>1. /\ stage[w] = "dropped" /\ \A s \in shown : s[3] # w
      /\ shown' = ReleaseObjects(w) /\ stage' = [stage EXCEPT ![w] = "finalised"]
      /\ UNCHANGED <<cast, linked, epoch, madeIn, nextUid, fields, ended, wrote>>
  BY DEF Finalize, Collectable
<1>2. UNCHANGED <<living, pointers>> \/ (Wraps(w) /\ Unknown(ObjectOf(w)))
  BY <1>1 DEF Finalize, OfThisConnection, Wraps
<1>3. /\ uid' \in [Wrappers -> Int] /\ (uid'[w] = uid[w] \/ uid'[w] = NoUid)
      /\ \A x \in Wrappers : x # w => uid'[x] = uid[x]
  BY DEF Finalize, ObjectsInv, ObjectTypes, NoUid
<1>4. /\ stage' \in [Wrappers -> {"none", "held", "dropped", "finalised"}] /\ stage'[w] = "finalised"
      /\ \A x \in Wrappers : x # w => stage'[x] = stage[x]
  BY <1>1 DEF ObjectsInv, ObjectTypes
<1>5. ~Alive(w)' /\ ~Wraps(w)'
  BY <1>4 DEF Alive, Wraps
<1> QED BY <1>1, <1>2, <1>3, <1>4, <1>5, EndKept

LEMMA ObjectsStep == ObjectsInv /\ [ObjectsNext]_objectVars => ObjectsInv'
<1> SUFFICES ASSUME ObjectsInv, [ObjectsNext]_objectVars PROVE ObjectsInv'
  OBVIOUS
<1>1. CASE UNCHANGED objectVars
  <2>1. UNCHANGED <<cast, linked, epoch, stage, uid, madeIn, shown, nextUid, living, pointers, fields, ended, wrote>>
    BY <1>1 DEF objectVars, onClient, onServer
  <2>2. \A x \in Wrappers : (Wraps(x)' <=> Wraps(x)) /\ (Alive(x)' <=> Alive(x)) /\ ObjectOf(x)' = ObjectOf(x)
    BY <2>1 DEF Wraps, Alive, ObjectOf
  <2>3. ObjectTypes' /\ Numbered' /\ FieldsAgree'
    BY <2>1, <2>2 DEF ObjectsInv, ObjectTypes, Numbered, Given, FieldsAgree
  <2>4. OwnObjectLives' /\ ShownIsHeld' /\ LentIsShown' /\ ShownIsLent'
    BY <2>1, <2>2, LendingKept DEF lendingVars
  <2> QED BY <2>3, <2>4 DEF ObjectsInv
<1>2. ASSUME NEW w \in Wrappers, Make(w) \/ Release(w) \/ Destroy(w) \/ Finalize(w) PROVE ObjectsInv'
  BY <1>2, MakeStep, ReleaseStep, DestroyStep, FinalizeStep
<1>3. ASSUME NEW w \in Wrappers, NEW f \in Watched, NEW v \in FieldValues, SetField(w, f, v) PROVE ObjectsInv'
  BY <1>3, SetFieldStep
<1>4. ASSUME NEW w \in Wrappers, NEW t \in Wrappers, NEW slot \in Slots, Borrow(w, slot, t) \/ BorrowRefused(w, slot, t)
      PROVE  ObjectsInv'
  BY <1>4, BorrowStep, HoldingStep
<1>5. ASSUME NEW w \in Wrappers, NEW slot \in Slots, Return(w, slot) PROVE ObjectsInv'
  BY <1>5, ReturnStep
<1>6. ASSUME NEW w \in Wrappers, NEW t \in Wrappers, Drop(w) \/ Get(w, t) PROVE ObjectsInv'
  <2>1. "service" \in Slots
    <3>1. "SimpleStreaming" \in Classes /\ <<"service", "Service">> \in Class["SimpleStreaming"].borrows
      BY DEF Classes, Class, SimpleStreaming, simpleStreamBorrows, streamBorrows
    <3> QED BY <3>1, SlotsOfClasses
  <2> QED BY <1>6, <2>1, HoldingStep
<1>7. ASSUME NEW serverEnds \in BOOLEAN, disconnect(serverEnds) \/ connect PROVE ObjectsInv'
  BY <1>7, ConnectionStep
<1> QED BY <1>1, <1>2, <1>3, <1>4, <1>5, <1>6, <1>7 DEF ObjectsNext

LEMMA ObjectsInvariance == ObjectsSpec => []ObjectsInv
BY ObjectsInvInit, ObjectsStep, PTL DEF ObjectsSpec

\* Every reference goes from a wrapper to a wrapper, and every pointer from an
\* object to an object of the managers (the map and the indices of utility.hpp).
THEOREM ObjectsTypes == ObjectsSpec => []ObjectTypes
<1>1. ObjectsInv => ObjectTypes
  BY DEF ObjectsInv
<1> QED BY <1>1, ObjectsInvariance, PTL

\* The garbage collector of JavaScript frees nothing in the server that a wrapper
\* or an output with a wrapper still uses, for any number of wrappers of any
\* classes and any number of connections (the Finalize and the setters of
\* obs-studio-client).
THEOREM CollectorSafe == ObjectsSpec => []CollectorIsSafe
BY InvGivesCollector, ObjectsInvariance, PTL

\* What a getter of an output gives is what the server uses for it, and the
\* fields of an object have the values that were last set through its wrapper.
THEOREM ShownUsed == ObjectsSpec => []ShownIsUsed
BY InvGivesShown, ObjectsInvariance, PTL
=============================================================================
