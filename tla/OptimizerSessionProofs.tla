----------------------- MODULE OptimizerSessionProofs -----------------------
(* Proofs about OptimizerSession, for any sessions, callers, attempts and    *)
(* probes: borrowed outputs are alive, sessions run alone and settle before  *)
(* they end, success and Shutdown() mean the end, and the calls implement    *)
(* SessionContract.                                                          *)
EXTENDS OptimizerSession, TLAPS

-----------------------------------------------------------------------------
(* The inductive invariant. *)

Resting  == {"off", "done"}
Finished == Outcomes \cup {"closed"}

\* Hardware attempts run in the hardware phase, probes one by one after it.
TasksInPhase ==
    /\ \A s \in Sessions : \A t \in Hardware : task[s][t] \notin Resting => worker[s] = "hardware"
    /\ \A s \in Sessions : \A p \in Probes : task[s][p] # "off" => worker[s] = "bandwidth"
    /\ \A s \in Sessions : \A p, q \in Probes : p = q \/ task[s][p] = "off" \/ task[s][q] = "off"

\* An output exists while its task is under way, and is published while it exists.
OutputOfTask ==
    /\ \A s \in Sessions : \A t \in Tasks : output[s][t] # "none" => task[s][t] \notin Resting \cup {"begin"}
    /\ \A s \in Sessions : \A t \in activeProbeOutputs[s] : output[s][t] # "none"

\* Outputs are borrowed under the lock and from the published ones.
BorrowedUnderLock ==
    \A c \in Callers :
        /\ call[c] # "force" => borrowed[c] = {}
        /\ call[c] = "force" => /\ probeMutex[target[c]] = c
                                   /\ borrowed[c] \subseteq activeProbeOutputs[target[c]]

\* The state and where the worker stands.
WorkerOfState ==
    \A s \in Sessions :
        /\ state[s] \in {"none", "created"} => worker[s] = "none"
        /\ state[s] = "running" <=> worker[s] \in Live \ {"announce"}
        /\ worker[s] = "announce" => state[s] \in Outcomes
        /\ worker[s] \in {"settle", "store", "announce"} => outcome[s] \in Outcomes

\* What the worker has settled when it stores the state.
SettledBeforeState ==
    \A s \in Sessions :
        /\ state[s] = "none" => secrets[s] = {}
        /\ worker[s] = "store" => secrets[s] = {} /\ resultJson[s] = outcome[s]

\* The server knows every session that is created and not closed, and no other.
ActiveOfState ==
    /\ \A s \in Sessions : state[s] \in {"created", "running"} \cup Outcomes => activeSession = s
    /\ \A s \in Sessions : activeSession = s => state[s] # "none"

\* How far a call has brought its session.
StateOfCall ==
    \A c \in Callers :
        /\ call[c] \notin {"idle", "look"} => state[target[c]] # "none"
        /\ call[c] \in {"borrow", "force", "join", "closing"} => state[target[c]] # "created"
        /\ call[c] = "forget" => state[target[c]] = "closed"

\* From Shutdown() on there is at most the session it found.
ShuttingDown ==
    /\ \A c \in Callers : op[c] = "Shutdown" => shuttingDown
    /\ \A c \in Callers : op[c] = "Shutdown" /\ call[c] \notin {"idle", "look"} =>
                              activeSession \in {target[c], NoSession}
    /\ tornDown => shuttingDown /\ activeSession = NoSession

IInv ==
    /\ TypeOK
    /\ TasksInPhase
    /\ OutputOfTask
    /\ BorrowedUnderLock
    /\ WorkerOfState
    /\ SettledBeforeState
    /\ ActiveOfState
    /\ StateOfCall
    /\ ShuttingDown
    /\ EndedIsSettled
    /\ EndedMeansEnded

-----------------------------------------------------------------------------
USE DEF sessionVars, eventVars, confirmVars, workerVars, gateVars, taskVars, callerVars, callVars,
        serverVars, Tasks

\* Each part depends on its variables only.
LEMMA Frame ==
    ASSUME IInv
    PROVE  /\ UNCHANGED <<state, cancelRequested, secrets, resultJson>> => SessionTypes'
           /\ UNCHANGED <<worker, outcome, todo>> => WorkerTypes'
           /\ UNCHANGED <<task, output, activeProbeOutputs, arrived, aborted>> => TaskTypes'
           /\ UNCHANGED <<confirmations, activeConfirmation>> => ConfirmTypes'
           /\ UNCHANGED <<call, op, target, sawRunning, borrowed>> => CallTypes'
           /\ UNCHANGED <<activeSession, shuttingDown, lifecycleMutex, probeMutex,
                             callsLeft, ended, tornDown>> => ServerTypes'
           /\ UNCHANGED <<task, worker>> => TasksInPhase'
           /\ UNCHANGED <<output, task, activeProbeOutputs>> => OutputOfTask'
           /\ UNCHANGED <<call, borrowed, probeMutex, target, activeProbeOutputs>> => BorrowedUnderLock'
           /\ UNCHANGED <<state, worker, outcome>> => WorkerOfState'
           /\ UNCHANGED <<state, secrets, worker, resultJson, outcome>> => SettledBeforeState'
           /\ UNCHANGED <<state, activeSession>> => ActiveOfState'
           /\ UNCHANGED <<call, state, target>> => StateOfCall'
           /\ UNCHANGED <<op, shuttingDown, call, activeSession, target, tornDown>> => ShuttingDown'
           /\ UNCHANGED <<state, secrets, resultJson>> => EndedIsSettled'
           /\ UNCHANGED <<ended, worker, state>> => EndedMeansEnded'
<1>1. UNCHANGED <<state, cancelRequested, secrets, resultJson>> => SessionTypes'
  BY DEF IInv, TypeOK, SessionTypes
<1>2. UNCHANGED <<worker, outcome, todo>> => WorkerTypes'
  BY DEF IInv, TypeOK, WorkerTypes
<1>3. UNCHANGED <<task, output, activeProbeOutputs, arrived, aborted>> => TaskTypes'
  BY DEF IInv, TypeOK, TaskTypes
<1>4. UNCHANGED <<confirmations, activeConfirmation>> => ConfirmTypes'
  BY DEF IInv, TypeOK, ConfirmTypes
<1>5. UNCHANGED <<call, op, target, sawRunning, borrowed>> => CallTypes'
  BY DEF IInv, TypeOK, CallTypes
<1>6. UNCHANGED <<activeSession, shuttingDown, lifecycleMutex, probeMutex,
                             callsLeft, ended, tornDown>> => ServerTypes'
  BY DEF IInv, TypeOK, ServerTypes
<1>7. UNCHANGED <<task, worker>> => TasksInPhase'
  BY DEF IInv, TypeOK, TasksInPhase
<1>8. UNCHANGED <<output, task, activeProbeOutputs>> => OutputOfTask'
  BY DEF IInv, TypeOK, OutputOfTask
<1>9. UNCHANGED <<call, borrowed, probeMutex, target, activeProbeOutputs>> => BorrowedUnderLock'
  BY DEF IInv, TypeOK, BorrowedUnderLock
<1>10. UNCHANGED <<state, worker, outcome>> => WorkerOfState'
  BY DEF IInv, TypeOK, WorkerOfState
<1>11. UNCHANGED <<state, secrets, worker, resultJson, outcome>> => SettledBeforeState'
  BY DEF IInv, TypeOK, SettledBeforeState
<1>12. UNCHANGED <<state, activeSession>> => ActiveOfState'
  BY DEF IInv, TypeOK, ActiveOfState
<1>13. UNCHANGED <<call, state, target>> => StateOfCall'
  BY DEF IInv, TypeOK, StateOfCall
<1>14. UNCHANGED <<op, shuttingDown, call, activeSession, target, tornDown>> => ShuttingDown'
  BY DEF IInv, TypeOK, ShuttingDown
<1>15. UNCHANGED <<state, secrets, resultJson>> => EndedIsSettled'
  BY DEF IInv, TypeOK, EndedIsSettled
<1>16. UNCHANGED <<ended, worker, state>> => EndedMeansEnded'
  BY DEF IInv, TypeOK, EndedMeansEnded, Joinable
<1>. QED
  BY <1>1, <1>2, <1>3, <1>4, <1>5, <1>6, <1>7, <1>8, <1>9, <1>10, <1>11, <1>12, <1>13, <1>14, <1>15,
     <1>16

-----------------------------------------------------------------------------
(* Tasks and outputs move one at a time. *)

Under  == {"published", "gate", "start", "connect", "confirm", "measure", "drain", "cleanup", "release"}
Places == Under \cup {"off", "begin", "done"}
OutputStates == {"none", "idle", "starting", "active", "stopping"}

LEMMA TaskMoves ==
    ASSUME IInv, NEW s \in Sessions, NEW t \in Tasks, UNCHANGED worker,
           NEW from \in Under \cup {"begin"}, NEW to \in Under, TaskAt(s, t, from, to)
    PROVE  /\ task' \in [Sessions -> [Tasks -> Places]]
           /\ TasksInPhase'
           /\ task'[s][t] \in Under
           /\ \A r \in Sessions, u \in Tasks : task[r][u] \in Under => task'[r][u] \in Under
<1>1. task \in [Sessions -> [Tasks -> Places]]
  BY DEF IInv, TypeOK, TaskTypes, Places, Under
<1>2. task[s][t] = from /\ task' = [task EXCEPT ![s] = [task[s] EXCEPT ![t] = to]]
  BY DEF TaskAt
<1>3. /\ task' \in [Sessions -> [Tasks -> Places]]
      /\ \A r \in Sessions, u \in Tasks : task'[r][u] = IF r = s /\ u = t THEN to ELSE task[r][u]
  BY <1>1, <1>2 DEF Places
<1>4. from \notin Resting /\ to \notin Resting
  BY DEF Under, Resting
<1>5. TasksInPhase'
  BY <1>2, <1>3, <1>4 DEF IInv, TasksInPhase, Resting
<1>. QED
  BY <1>3, <1>5

Becomes(s, t, x) ==
    /\ output' = [output EXCEPT ![s][t] = x]
    /\ output[s][t] # "none" => x # "none"

LEMMA OutputMoves ==
    ASSUME IInv, NEW s \in Sessions, NEW t \in Tasks, UNCHANGED activeProbeOutputs,
           UNCHANGED output \/ \E x \in OutputStates : Becomes(s, t, x),
           task'[s][t] \in Under,
           \A r \in Sessions, u \in Tasks : task[r][u] \in Under => task'[r][u] \in Under
    PROVE  output' \in [Sessions -> [Tasks -> OutputStates]] /\ OutputOfTask'
<1>1. output \in [Sessions -> [Tasks -> OutputStates]] /\ activeProbeOutputs \in [Sessions -> SUBSET Tasks]
  BY DEF IInv, TypeOK, TaskTypes, OutputStates
<1>2. /\ output' \in [Sessions -> [Tasks -> OutputStates]]
      /\ \A r \in Sessions, u \in Tasks : r # s \/ u # t => output'[r][u] = output[r][u]
      /\ output[s][t] # "none" => output'[s][t] # "none"
  <2>1. CASE UNCHANGED output
    BY <1>1, <2>1
  <2>2. CASE \E x \in OutputStates : Becomes(s, t, x)
    <3>1. PICK x \in OutputStates : Becomes(s, t, x)
      BY <2>2
    <3>. DEFINE outputs == [output[s] EXCEPT ![t] = x]
    <3>2. /\ outputs \in [Tasks -> OutputStates]
          /\ outputs[t] = x
          /\ \A u \in Tasks : u # t => outputs[u] = output[s][u]
      BY <1>1
    <3>3. output' = [output EXCEPT ![s] = outputs]
      BY <3>1 DEF Becomes
    <3>4. output[s][t] # "none" => x # "none"
      BY <3>1 DEF Becomes
    <3>. HIDE DEF outputs
    <3>. QED
      BY <1>1, <3>2, <3>3, <3>4
  <2>. QED
    BY <2>1, <2>2
<1>3. \A r \in Sessions, u \in Tasks : output[r][u] # "none" => task[r][u] \in Under
  BY DEF IInv, TypeOK, TaskTypes, OutputOfTask, Resting, Under
<1>4. \A r \in Sessions, u \in Tasks : output'[r][u] # "none" => task'[r][u] \in Under
  BY <1>2, <1>3
<1>5. \A r \in Sessions : \A u \in activeProbeOutputs'[r] : output'[r][u] # "none"
  BY <1>1, <1>2 DEF IInv, OutputOfTask
<1>. QED
  BY <1>2, <1>4, <1>5 DEF OutputOfTask, Under, Resting

LEMMA PreflightSafe ==
    ASSUME IInv, NEW s \in Sessions, Preflight(s)
    PROVE  IInv'
<1>. USE DEF Preflight, EndWith, WorkerAt, runConcurrently
<1>a. /\ task' \in [Sessions -> [Tasks -> Places]]
      /\ \A r \in Sessions, u \in Tasks :
            \/ task'[r][u] = task[r][u]
            \/ r = s /\ u \in Hardware /\ worker'[r] = "hardware" /\ task'[r][u] = "begin"
  <2>. task \in [Sessions -> [Tasks -> Places]] /\ worker \in [Sessions -> Live \cup {"none", "returned"}]
    BY DEF IInv, TypeOK, TaskTypes, WorkerTypes, Places, Under
  <2>1. CASE cancelRequested[s]
    BY <2>1
  <2>2. CASE ~cancelRequested[s]
    <3>1. PICK launched \in SUBSET Hardware : runConcurrently(s, launched)
      BY <2>2
    <3>. DEFINE run == [t \in Tasks |-> IF t \in launched THEN "begin" ELSE task[s][t]]
    <3>2. task' = [task EXCEPT ![s] = run] /\ run \in [Tasks -> Places]
      BY <3>1 DEF Places
    <3>. QED
      BY <2>2, <3>2
  <2>. QED
    BY <2>1, <2>2
<1>b. /\ \A r \in Sessions : worker'[r] = worker[r] \/ (r = s /\ worker[s] = "preflight")
      /\ UNCHANGED <<output, activeProbeOutputs, arrived>>
      /\ aborted' \in [Sessions -> BOOLEAN]
  BY DEF IInv, TypeOK, WorkerTypes, TaskTypes
<1>1. WorkerTypes'
  BY DEF IInv, TypeOK, WorkerTypes, Live, Outcomes
<1>2. TaskTypes'
  BY <1>a, <1>b DEF IInv, TypeOK, TaskTypes, Places, Under
<1>3. TasksInPhase'
  <2>. HIDE DEF Preflight, EndWith, WorkerAt, runConcurrently
  <2>. QED
    BY <1>a, <1>b, OptimizerAssumption DEF IInv, TasksInPhase, Resting
<1>4. OutputOfTask'
  BY <1>a, <1>b, OptimizerAssumption DEF IInv, TypeOK, TaskTypes, TasksInPhase, OutputOfTask,
     Resting
<1>5. WorkerOfState'
  BY DEF IInv, TypeOK, WorkerOfState, SessionTypes, WorkerTypes, Live, Outcomes
<1>6. SettledBeforeState'
  BY DEF IInv, TypeOK, SettledBeforeState, SessionTypes, WorkerTypes
<1>7. EndedMeansEnded'
  BY DEF IInv, TypeOK, EndedMeansEnded, SessionTypes, WorkerTypes, ServerTypes, Joinable,
          Outcomes
<1>. QED
  BY Frame, <1>1, <1>2, <1>3, <1>4, <1>5, <1>6, <1>7 DEF IInv, TypeOK

LEMMA hardwareAssessedSafe ==
    ASSUME IInv, NEW s \in Sessions, hardwareAssessed(s)
    PROVE  IInv'
<1>. USE DEF hardwareAssessed, EndWith
<1>1. SessionTypes'
  BY DEF IInv, TypeOK, SessionTypes, Outcomes
<1>2. WorkerTypes'
  BY DEF IInv, TypeOK, WorkerTypes, Live, Outcomes
<1>3. TasksInPhase'
  BY DEF IInv, TypeOK, TasksInPhase, WorkerTypes, TaskTypes, Resting
<1>4. WorkerOfState'
  BY DEF IInv, TypeOK, WorkerOfState, SessionTypes, WorkerTypes, Live, Outcomes
<1>5. SettledBeforeState'
  BY DEF IInv, TypeOK, SettledBeforeState, SessionTypes, WorkerTypes
<1>6. EndedIsSettled'
  BY DEF IInv, TypeOK, EndedIsSettled, SessionTypes, Outcomes
<1>7. EndedMeansEnded'
  BY DEF IInv, TypeOK, EndedMeansEnded, SessionTypes, WorkerTypes, ServerTypes, Joinable,
          Outcomes
<1>. QED
  BY Frame, <1>1, <1>2, <1>3, <1>4, <1>5, <1>6, <1>7 DEF IInv, TypeOK

LEMMA startProbeSafe ==
    ASSUME IInv, NEW s \in Sessions, NEW p \in Probes, startProbe(s, p)
    PROVE  IInv'
<1>. USE DEF startProbe
<1>1. SessionTypes'
  BY DEF IInv, TypeOK, SessionTypes, Outcomes
<1>2. WorkerTypes'
  BY DEF IInv, TypeOK, WorkerTypes, Live, Outcomes
<1>3. TaskTypes'
  BY DEF IInv, TypeOK, TaskTypes
<1>4. TasksInPhase'
  BY OptimizerAssumption DEF IInv, TypeOK, TasksInPhase, WorkerTypes, TaskTypes, Resting
<1>5. OutputOfTask'
  BY DEF IInv, TypeOK, OutputOfTask, TaskTypes, Resting
<1>6. SettledBeforeState'
  BY DEF IInv, TypeOK, SettledBeforeState, SessionTypes, WorkerTypes
<1>7. EndedIsSettled'
  BY DEF IInv, TypeOK, EndedIsSettled, SessionTypes, Outcomes
<1>. QED
  BY Frame, <1>1, <1>2, <1>3, <1>4, <1>5, <1>6, <1>7 DEF IInv, TypeOK

LEMMA endProbeSafe ==
    ASSUME IInv, NEW s \in Sessions, NEW p \in Probes, endProbe(s, p)
    PROVE  IInv'
<1>. USE DEF endProbe, EndWith
<1>a. confirmations' \in [Sessions -> [Youtube -> {"pending", "accepted", "rejected", "erased"}]]
  <2>1. CASE p \in Youtube
    <3>1. confirmations' = [confirmations EXCEPT ![s] = [confirmations[s] EXCEPT ![p] = "erased"]]
      BY <2>1
    <3>. QED
      BY <2>1, <3>1 DEF IInv, TypeOK, ConfirmTypes
  <2>2. CASE p \notin Youtube
    BY <2>2 DEF IInv, TypeOK, ConfirmTypes
  <2>. QED
    BY <2>1, <2>2
<1>1. WorkerTypes'
  BY DEF IInv, TypeOK, WorkerTypes, Live, Outcomes
<1>2. TaskTypes'
  BY DEF IInv, TypeOK, TaskTypes
<1>3. ConfirmTypes'
  BY <1>a DEF IInv, TypeOK, ConfirmTypes, NoTask
<1>4. TasksInPhase'
  BY DEF IInv, TypeOK, TasksInPhase, WorkerTypes, TaskTypes, Resting
<1>5. OutputOfTask'
  BY DEF IInv, TypeOK, OutputOfTask, TaskTypes, Resting
<1>6. WorkerOfState'
  BY DEF IInv, TypeOK, WorkerOfState, SessionTypes, WorkerTypes, Live, Outcomes
<1>7. SettledBeforeState'
  BY DEF IInv, TypeOK, SettledBeforeState, SessionTypes, WorkerTypes
<1>8. EndedMeansEnded'
  BY DEF IInv, TypeOK, EndedMeansEnded, SessionTypes, WorkerTypes, ServerTypes, Joinable,
          Outcomes
<1>. QED
  BY Frame, <1>1, <1>2, <1>3, <1>4, <1>5, <1>6, <1>7, <1>8 DEF IInv, TypeOK

LEMMA leaveBandwidthSafe ==
    ASSUME IInv, NEW s \in Sessions, leaveBandwidth(s)
    PROVE  IInv'
<1>. USE DEF leaveBandwidth, EndWith
<1>1. SessionTypes'
  BY DEF IInv, TypeOK, SessionTypes, Outcomes
<1>2. WorkerTypes'
  BY DEF IInv, TypeOK, WorkerTypes, Live, Outcomes
<1>3. TasksInPhase'
  BY DEF IInv, TypeOK, TasksInPhase, WorkerTypes, TaskTypes, Resting
<1>4. WorkerOfState'
  BY DEF IInv, TypeOK, WorkerOfState, SessionTypes, WorkerTypes, Live, Outcomes
<1>5. SettledBeforeState'
  BY DEF IInv, TypeOK, SettledBeforeState, SessionTypes, WorkerTypes
<1>6. EndedIsSettled'
  BY DEF IInv, TypeOK, EndedIsSettled, SessionTypes, Outcomes
<1>7. EndedMeansEnded'
  BY DEF IInv, TypeOK, EndedMeansEnded, SessionTypes, WorkerTypes, ServerTypes, Joinable,
          Outcomes
<1>. QED
  BY Frame, <1>1, <1>2, <1>3, <1>4, <1>5, <1>6, <1>7 DEF IInv, TypeOK

LEMMA storeResultSafe ==
    ASSUME IInv, NEW s \in Sessions, storeResult(s)
    PROVE  IInv'
<1>. USE DEF storeResult, WorkerAt
<1>1. SessionTypes'
  BY DEF IInv, TypeOK, SessionTypes, Outcomes, WorkerTypes, WorkerOfState
<1>2. WorkerTypes'
  BY DEF IInv, TypeOK, WorkerTypes, Live, Outcomes
<1>3. TasksInPhase'
  BY DEF IInv, TypeOK, TasksInPhase, WorkerTypes, TaskTypes, Resting
<1>4. WorkerOfState'
  BY DEF IInv, TypeOK, WorkerOfState, SessionTypes, WorkerTypes, Live, Outcomes
<1>5. SettledBeforeState'
  BY DEF IInv, TypeOK, SettledBeforeState, SessionTypes, WorkerTypes
<1>6. EndedIsSettled'
  BY DEF IInv, TypeOK, EndedIsSettled, SessionTypes, Outcomes, WorkerTypes, WorkerOfState, Live
<1>7. EndedMeansEnded'
  BY DEF IInv, TypeOK, EndedMeansEnded, SessionTypes, WorkerTypes, ServerTypes, Joinable,
          Outcomes
<1>. QED
  BY Frame, <1>1, <1>2, <1>3, <1>4, <1>5, <1>6, <1>7 DEF IInv, TypeOK

LEMMA storeStateSafe ==
    ASSUME IInv, NEW s \in Sessions, storeState(s)
    PROVE  IInv'
<1>. USE DEF storeState, WorkerAt
<1>a. state[s] = "running" /\ outcome[s] \in Outcomes
  BY DEF IInv, WorkerOfState, Live
<1>1. SessionTypes'
  BY DEF IInv, TypeOK, SessionTypes, Outcomes, WorkerTypes, WorkerOfState
<1>2. WorkerTypes'
  BY DEF IInv, TypeOK, WorkerTypes, Live, Outcomes
<1>3. TasksInPhase'
  BY DEF IInv, TypeOK, TasksInPhase, WorkerTypes, TaskTypes, Resting
<1>4. WorkerOfState'
  BY DEF IInv, TypeOK, WorkerOfState, SessionTypes, WorkerTypes, Live, Outcomes
<1>5. SettledBeforeState'
  BY DEF IInv, TypeOK, SettledBeforeState, SessionTypes, WorkerTypes
<1>6. ActiveOfState'
  BY DEF IInv, TypeOK, ActiveOfState, SessionTypes, ServerTypes, Outcomes, WorkerTypes,
          WorkerOfState, Live
<1>7. StateOfCall'
  BY <1>a DEF IInv, TypeOK, StateOfCall, SessionTypes, Outcomes, CallTypes
<1>8. EndedIsSettled'
  BY DEF IInv, TypeOK, EndedIsSettled, SessionTypes, Outcomes, WorkerTypes, WorkerOfState,
          SettledBeforeState, Live
<1>9. EndedMeansEnded'
  BY DEF IInv, TypeOK, EndedMeansEnded, SessionTypes, WorkerTypes, ServerTypes, Joinable,
          Outcomes
<1>. QED
  BY Frame, <1>1, <1>2, <1>3, <1>4, <1>5, <1>6, <1>7, <1>8, <1>9 DEF IInv, TypeOK

LEMMA announceSafe ==
    ASSUME IInv, NEW s \in Sessions, announce(s)
    PROVE  IInv'
<1>. USE DEF announce, WorkerAt, pushEvents
<1>1. WorkerTypes'
  BY DEF IInv, TypeOK, WorkerTypes, Live, Outcomes
<1>2. TasksInPhase'
  BY DEF IInv, TypeOK, TasksInPhase, WorkerTypes, TaskTypes, Resting
<1>3. WorkerOfState'
  BY DEF IInv, TypeOK, WorkerOfState, SessionTypes, WorkerTypes, Live, Outcomes
<1>4. SettledBeforeState'
  BY DEF IInv, TypeOK, SettledBeforeState, SessionTypes, WorkerTypes
<1>5. EndedMeansEnded'
  BY DEF IInv, TypeOK, EndedMeansEnded, SessionTypes, WorkerTypes, ServerTypes, Joinable,
          Outcomes
<1>. QED
  BY Frame, <1>1, <1>2, <1>3, <1>4, <1>5 DEF IInv, TypeOK

LEMMA createOutputSafe ==
    ASSUME IInv, NEW s \in Sessions, NEW t \in Tasks, createOutput(s, t)
    PROVE  IInv'
<1>. USE DEF createOutput, TaskAt, stayPut, onlyTask
<1>a. UNCHANGED <<arrived, aborted>>
  OBVIOUS
<1>b. \/ UNCHANGED <<output, activeProbeOutputs>>
      \/ /\ output' = [output EXCEPT ![s] = [output[s] EXCEPT ![t] = "idle"]]
         /\ activeProbeOutputs' = [activeProbeOutputs EXCEPT ![s] = @ \cup {t}]
  OBVIOUS
<1>c. PICK to \in Under : TaskAt(s, t, "begin", to)
  BY DEF Under
<1>. HIDE DEF createOutput, TaskAt
<1>d. /\ task' \in [Sessions -> [Tasks -> Places]]
      /\ TasksInPhase'
      /\ task'[s][t] \in Under
      /\ \A r \in Sessions, u \in Tasks : task[r][u] \in Under => task'[r][u] \in Under
  BY <1>c, TaskMoves DEF createOutput
<1>e. /\ output \in [Sessions -> [Tasks -> OutputStates]]
      /\ activeProbeOutputs \in [Sessions -> SUBSET Tasks]
  BY DEF IInv, TypeOK, TaskTypes, OutputStates
<1>e1. \A r \in Sessions, u \in Tasks : output[r][u] # "none" => task[r][u] \in Under
  BY DEF IInv, TypeOK, TaskTypes, OutputOfTask, Resting, Under
<1>f. ASSUME UNCHANGED <<output, activeProbeOutputs>>
      PROVE  TaskTypes' /\ OutputOfTask'
  <2>1. TaskTypes'
    BY <1>a, <1>d, <1>f DEF IInv, TypeOK, TaskTypes, Places, Under
  <2>2. OutputOfTask'
    BY <1>d, <1>e, <1>e1, <1>f DEF IInv, OutputOfTask, Resting, Under
  <2>. QED
    BY <2>1, <2>2
<1>g. ASSUME output' = [output EXCEPT ![s] = [output[s] EXCEPT ![t] = "idle"]],
             activeProbeOutputs' = [activeProbeOutputs EXCEPT ![s] = @ \cup {t}]
      PROVE  TaskTypes' /\ OutputOfTask'
  <2>. DEFINE outputs == [output[s] EXCEPT ![t] = "idle"]
  <2>1. /\ outputs \in [Tasks -> OutputStates]
        /\ outputs[t] = "idle"
        /\ \A u \in Tasks : u # t => outputs[u] = output[s][u]
    BY <1>e DEF OutputStates
  <2>2. output' = [output EXCEPT ![s] = outputs]
    BY <1>g
  <2>. HIDE DEF outputs
  <2>3. /\ output' \in [Sessions -> [Tasks -> OutputStates]]
        /\ output'[s][t] = "idle"
        /\ \A r \in Sessions, u \in Tasks : r # s \/ u # t => output'[r][u] = output[r][u]
    BY <1>e, <2>1, <2>2
  <2>4. /\ activeProbeOutputs' \in [Sessions -> SUBSET Tasks]
        /\ \A r \in Sessions : \A u \in activeProbeOutputs'[r] : u \in activeProbeOutputs[r] \/ (r = s /\ u = t)
    BY <1>e, <1>g
  <2>5. TaskTypes'
    BY <1>a, <1>d, <2>3, <2>4 DEF IInv, TypeOK, TaskTypes, Places, Under, OutputStates
  <2>6. \A r \in Sessions, u \in Tasks : output'[r][u] # "none" => task'[r][u] \in Under
    BY <1>d, <1>e1, <2>3
  <2>7. \A r \in Sessions : \A u \in activeProbeOutputs'[r] : output'[r][u] # "none"
    BY SMTT(30), <1>e, <2>3, <2>4 DEF IInv, OutputOfTask
  <2>. QED
    BY <2>5, <2>6, <2>7 DEF OutputOfTask, Resting, Under
<1>h. TaskTypes' /\ OutputOfTask'
  BY <1>b, <1>f, <1>g
<1>. USE DEF createOutput, TaskAt
<1>1. TaskTypes'
  BY <1>h
<1>2. TasksInPhase'
  BY <1>d
<1>3. OutputOfTask'
  BY <1>h
<1>4. BorrowedUnderLock'
  <2>1. UNCHANGED <<call, borrowed, probeMutex, target>>
    OBVIOUS
  <2>2. \A r \in Sessions : activeProbeOutputs[r] \subseteq activeProbeOutputs'[r]
    BY <1>b, <1>e
  <2>3. \A c \in Callers : call[c] = "force" => target[c] \in Sessions
    BY DEF IInv, TypeOK, CallTypes
  <2>. HIDE DEF createOutput, TaskAt, stayPut, onlyTask
  <2>. QED
    BY <2>1, <2>2, <2>3 DEF IInv, BorrowedUnderLock
<1>. QED
  BY Frame, <1>1, <1>2, <1>3, <1>4 DEF IInv, TypeOK

LEMMA beforeStartSafe ==
    ASSUME IInv, NEW s \in Sessions, NEW t \in Tasks, beforeStart(s, t)
    PROVE  IInv'
<1>. USE DEF stayPut, onlyTask
<1>1. PICK from \in Under, to \in Under : TaskAt(s, t, from, to)
  BY DEF beforeStart, Under
<1>2. UNCHANGED output
  BY DEF beforeStart
<1>3. UNCHANGED <<worker, activeProbeOutputs>>
  BY DEF beforeStart
<1>4. TasksInPhase' /\ OutputOfTask' /\ task' \in [Sessions -> [Tasks -> Places]] /\ output' \in [Sessions -> [Tasks -> OutputStates]]
  BY <1>1, <1>2, <1>3, TaskMoves, OutputMoves
<1>a. arrived' \in [Sessions -> SUBSET Hardware]
  BY DEF IInv, TypeOK, TaskTypes, beforeStart
<1>5. TaskTypes'
  BY <1>a, <1>4 DEF IInv, TypeOK, TaskTypes, Places, Under, OutputStates,
          beforeStart
<1>. QED
  BY Frame, <1>3, <1>4, <1>5 DEF IInv, TypeOK, beforeStart

LEMMA leaveGateSafe ==
    ASSUME IInv, NEW s \in Sessions, NEW t \in Tasks, leaveGate(s, t)
    PROVE  IInv'
<1>. USE DEF stayPut, onlyTask
<1>1. PICK from \in Under, to \in Under : TaskAt(s, t, from, to)
  BY DEF leaveGate, Under
<1>2. UNCHANGED output
  BY DEF leaveGate
<1>3. UNCHANGED <<worker, activeProbeOutputs>>
  BY DEF leaveGate
<1>4. TasksInPhase' /\ OutputOfTask' /\ task' \in [Sessions -> [Tasks -> Places]] /\ output' \in [Sessions -> [Tasks -> OutputStates]]
  BY <1>1, <1>2, <1>3, TaskMoves, OutputMoves
<1>5. TaskTypes'
  BY <1>4 DEF IInv, TypeOK, TaskTypes, Places, Under, OutputStates, leaveGate
<1>. QED
  BY Frame, <1>3, <1>4, <1>5 DEF IInv, TypeOK, leaveGate

LEMMA startOutputSafe ==
    ASSUME IInv, NEW s \in Sessions, NEW t \in Tasks, startOutput(s, t)
    PROVE  IInv'
<1>. USE DEF stayPut, onlyTask
<1>1. PICK from \in Under, to \in Under : TaskAt(s, t, from, to)
  BY DEF startOutput, Under
<1>2. UNCHANGED output \/ \E x \in OutputStates : Becomes(s, t, x)
  BY DEF IInv, TypeOK, TaskTypes, OutputStates, Becomes, startOutput
<1>3. UNCHANGED <<worker, activeProbeOutputs>>
  BY DEF startOutput
<1>4. TasksInPhase' /\ OutputOfTask' /\ task' \in [Sessions -> [Tasks -> Places]] /\ output' \in [Sessions -> [Tasks -> OutputStates]]
  BY <1>1, <1>2, <1>3, TaskMoves, OutputMoves
<1>5. TaskTypes'
  BY <1>4 DEF IInv, TypeOK, TaskTypes, Places, Under, OutputStates, startOutput
<1>. QED
  BY Frame, <1>3, <1>4, <1>5 DEF IInv, TypeOK, startOutput

LEMMA connectedSafe ==
    ASSUME IInv, NEW s \in Sessions, NEW t \in Tasks, connected(s, t)
    PROVE  IInv'
<1>. USE DEF stayPut, onlyTask
<1>1. PICK from \in Under, to \in Under : TaskAt(s, t, from, to)
  BY DEF connected, Under
<1>2. UNCHANGED output
  BY DEF connected
<1>3. UNCHANGED <<worker, activeProbeOutputs>>
  BY DEF connected
<1>4. TasksInPhase' /\ OutputOfTask' /\ task' \in [Sessions -> [Tasks -> Places]] /\ output' \in [Sessions -> [Tasks -> OutputStates]]
  BY <1>1, <1>2, <1>3, TaskMoves, OutputMoves
<1>5. TaskTypes'
  BY <1>4 DEF IInv, TypeOK, TaskTypes, Places, Under, OutputStates, connected
<1>6. ConfirmTypes'
  BY DEF IInv, TypeOK, ConfirmTypes, NoTask, connected
<1>. QED
  BY Frame, <1>3, <1>4, <1>5, <1>6 DEF IInv, TypeOK, connected, pushEvents

LEMMA notConnectedSafe ==
    ASSUME IInv, NEW s \in Sessions, NEW t \in Tasks, notConnected(s, t)
    PROVE  IInv'
<1>. USE DEF stayPut, onlyTask
<1>1. PICK from \in Under, to \in Under : TaskAt(s, t, from, to)
  BY DEF notConnected, Under
<1>2. UNCHANGED output \/ \E x \in OutputStates : Becomes(s, t, x)
  BY DEF IInv, TypeOK, TaskTypes, OutputStates, Becomes, notConnected, ForcedStop
<1>3. UNCHANGED <<worker, activeProbeOutputs>>
  BY DEF notConnected
<1>4. TasksInPhase' /\ OutputOfTask' /\ task' \in [Sessions -> [Tasks -> Places]] /\ output' \in [Sessions -> [Tasks -> OutputStates]]
  BY <1>1, <1>2, <1>3, TaskMoves, OutputMoves
<1>5. TaskTypes'
  BY <1>4 DEF IInv, TypeOK, TaskTypes, Places, Under, OutputStates,
          notConnected
<1>. QED
  BY Frame, <1>3, <1>4, <1>5 DEF IInv, TypeOK, notConnected

LEMMA wokenForConfirmationSafe ==
    ASSUME IInv, NEW s \in Sessions, NEW t \in Tasks, wokenForConfirmation(s, t)
    PROVE  IInv'
<1>. USE DEF stayPut, onlyTask
<1>1. PICK from \in Under, to \in Under : TaskAt(s, t, from, to)
  BY DEF wokenForConfirmation, Under, Confirmed
<1>2. UNCHANGED output \/ \E x \in OutputStates : Becomes(s, t, x)
  BY DEF IInv, TypeOK, TaskTypes, OutputStates, Becomes, wokenForConfirmation, Confirmed,
          ForcedStop
<1>3. UNCHANGED <<worker, activeProbeOutputs>>
  BY DEF wokenForConfirmation
<1>4. TasksInPhase' /\ OutputOfTask' /\ task' \in [Sessions -> [Tasks -> Places]] /\ output' \in [Sessions -> [Tasks -> OutputStates]]
  BY <1>1, <1>2, <1>3, TaskMoves, OutputMoves
<1>5. TaskTypes'
  BY <1>4 DEF IInv, TypeOK, TaskTypes, Places, Under, OutputStates,
          wokenForConfirmation
<1>. QED
  BY Frame, <1>3, <1>4, <1>5 DEF IInv, TypeOK, wokenForConfirmation, Confirmed

LEMMA confirmationDeadlineSafe ==
    ASSUME IInv, NEW s \in Sessions, NEW t \in Tasks, confirmationDeadline(s, t)
    PROVE  IInv'
<1>. USE DEF stayPut, onlyTask
<1>1. PICK from \in Under, to \in Under : TaskAt(s, t, from, to)
  BY DEF confirmationDeadline, Under, Confirmed
<1>2. UNCHANGED output \/ \E x \in OutputStates : Becomes(s, t, x)
  BY DEF IInv, TypeOK, TaskTypes, OutputStates, Becomes, confirmationDeadline, Confirmed,
          ForcedStop
<1>3. UNCHANGED <<worker, activeProbeOutputs>>
  BY DEF confirmationDeadline
<1>4. TasksInPhase' /\ OutputOfTask' /\ task' \in [Sessions -> [Tasks -> Places]] /\ output' \in [Sessions -> [Tasks -> OutputStates]]
  BY <1>1, <1>2, <1>3, TaskMoves, OutputMoves
<1>5. TaskTypes'
  BY <1>4 DEF IInv, TypeOK, TaskTypes, Places, Under, OutputStates,
          confirmationDeadline
<1>. QED
  BY Frame, <1>3, <1>4, <1>5 DEF IInv, TypeOK, confirmationDeadline, Confirmed

LEMMA measureSafe ==
    ASSUME IInv, NEW s \in Sessions, NEW t \in Tasks, measure(s, t)
    PROVE  IInv'
<1>. USE DEF stayPut, onlyTask
<1>1. PICK from \in Under, to \in Under : TaskAt(s, t, from, to)
  BY DEF measure, Under
<1>2. UNCHANGED output \/ \E x \in OutputStates : Becomes(s, t, x)
  BY DEF IInv, TypeOK, TaskTypes, OutputStates, Becomes, measure, ForcedStop
<1>3. UNCHANGED <<worker, activeProbeOutputs>>
  BY DEF measure
<1>4. TasksInPhase' /\ OutputOfTask' /\ task' \in [Sessions -> [Tasks -> Places]] /\ output' \in [Sessions -> [Tasks -> OutputStates]]
  BY <1>1, <1>2, <1>3, TaskMoves, OutputMoves
<1>5. TaskTypes'
  BY <1>4 DEF IInv, TypeOK, TaskTypes, Places, Under, OutputStates, measure
<1>. QED
  BY Frame, <1>3, <1>4, <1>5 DEF IInv, TypeOK, measure

LEMMA drainedSafe ==
    ASSUME IInv, NEW s \in Sessions, NEW t \in Tasks, drained(s, t)
    PROVE  IInv'
<1>. USE DEF stayPut, onlyTask
<1>1. PICK from \in Under, to \in Under : TaskAt(s, t, from, to)
  BY DEF drained, Under
<1>2. UNCHANGED output
  BY DEF drained
<1>3. UNCHANGED <<worker, activeProbeOutputs>>
  BY DEF drained
<1>4. TasksInPhase' /\ OutputOfTask' /\ task' \in [Sessions -> [Tasks -> Places]] /\ output' \in [Sessions -> [Tasks -> OutputStates]]
  BY <1>1, <1>2, <1>3, TaskMoves, OutputMoves
<1>5. TaskTypes'
  BY <1>4 DEF IInv, TypeOK, TaskTypes, Places, Under, OutputStates, drained
<1>. QED
  BY Frame, <1>3, <1>4, <1>5 DEF IInv, TypeOK, drained

LEMMA forceInCleanupSafe ==
    ASSUME IInv, NEW s \in Sessions, NEW t \in Tasks, forceInCleanup(s, t)
    PROVE  IInv'
<1>. USE DEF forceInCleanup, TaskAt, stayPut, onlyTask, ForcedStop
<1>1. TaskTypes'
  BY DEF IInv, TypeOK, TaskTypes
<1>2. OutputOfTask'
  BY DEF IInv, TypeOK, OutputOfTask, TaskTypes, Resting
<1>. QED
  BY Frame, <1>1, <1>2 DEF IInv, TypeOK

LEMMA foundInactiveSafe ==
    ASSUME IInv, NEW s \in Sessions, NEW t \in Tasks, foundInactive(s, t)
    PROVE  IInv'
<1>. USE DEF stayPut, onlyTask
<1>1. PICK from \in Under, to \in Under : TaskAt(s, t, from, to)
  BY DEF foundInactive, Under
<1>2. UNCHANGED output
  BY DEF foundInactive
<1>3. UNCHANGED <<worker, activeProbeOutputs>>
  BY DEF foundInactive
<1>4. TasksInPhase' /\ OutputOfTask' /\ task' \in [Sessions -> [Tasks -> Places]] /\ output' \in [Sessions -> [Tasks -> OutputStates]]
  BY <1>1, <1>2, <1>3, TaskMoves, OutputMoves
<1>5. TaskTypes'
  BY <1>4 DEF IInv, TypeOK, TaskTypes, Places, Under, OutputStates,
          foundInactive
<1>. QED
  BY Frame, <1>3, <1>4, <1>5 DEF IInv, TypeOK, foundInactive

LEMMA releaseSafe ==
    ASSUME IInv, NEW s \in Sessions, NEW t \in Tasks, release(s, t)
    PROVE  IInv'
<1>. USE DEF release, TaskAt, stayPut, onlyTask
<1>1. TaskTypes'
  BY DEF IInv, TypeOK, TaskTypes
<1>2. TasksInPhase'
  BY DEF IInv, TypeOK, TasksInPhase, WorkerTypes, TaskTypes, Resting
<1>3. OutputOfTask'
  BY DEF IInv, TypeOK, OutputOfTask, TaskTypes, Resting
<1>4. BorrowedUnderLock'
  BY OptimizerAssumption DEF IInv, TypeOK, BorrowedUnderLock, TaskTypes, CallTypes, ServerTypes
<1>. QED
  BY Frame, <1>1, <1>2, <1>3, <1>4 DEF IInv, TypeOK

LEMMA outputConnectsSafe ==
    ASSUME IInv, NEW s \in Sessions, NEW t \in Tasks, outputConnects(s, t)
    PROVE  IInv'
<1>. USE DEF outputConnects, TaskAt, stayPut, onlyTask, Libobs
<1>1. TaskTypes'
  BY DEF IInv, TypeOK, TaskTypes
<1>2. OutputOfTask'
  BY DEF IInv, TypeOK, OutputOfTask, TaskTypes, Resting
<1>. QED
  BY Frame, <1>1, <1>2 DEF IInv, TypeOK

LEMMA outputDropsSafe ==
    ASSUME IInv, NEW s \in Sessions, NEW t \in Tasks, outputDrops(s, t)
    PROVE  IInv'
<1>. USE DEF outputDrops, TaskAt, stayPut, onlyTask, Libobs
<1>a. PICK from \in {"starting", "active"} : Libobs(s, t, from, "idle")
  OBVIOUS
<1>b. task[s][t] \in Under
  BY <1>a DEF IInv, TypeOK, TaskTypes, OutputOfTask, Resting, Under
<1>c. output' \in [Sessions -> [Tasks -> OutputStates]] /\ OutputOfTask'
  BY <1>a, <1>b, OutputMoves DEF OutputStates, Becomes
<1>1. TaskTypes'
  BY <1>c DEF IInv, TypeOK, TaskTypes, OutputStates
<1>2. OutputOfTask'
  BY <1>c
<1>. QED
  BY Frame, <1>1, <1>2 DEF IInv, TypeOK

LEMMA outputStopsSafe ==
    ASSUME IInv, NEW s \in Sessions, NEW t \in Tasks, outputStops(s, t)
    PROVE  IInv'
<1>. USE DEF outputStops, TaskAt, stayPut, onlyTask, Libobs
<1>1. TaskTypes'
  BY DEF IInv, TypeOK, TaskTypes
<1>2. OutputOfTask'
  BY DEF IInv, TypeOK, OutputOfTask, TaskTypes, Resting
<1>. QED
  BY Frame, <1>1, <1>2 DEF IInv, TypeOK

LEMMA QuerySessionSafe ==
    ASSUME IInv, NEW s \in Sessions, QuerySession(s)
    PROVE  IInv'
<1>. USE DEF QuerySession
<1>. QED
  BY Frame DEF IInv, TypeOK

LEMMA CreateSessionSafe ==
    ASSUME IInv, NEW c \in Callers, NEW s \in Sessions, CreateSession(c, s)
    PROVE  IInv'
<1>. USE DEF CreateSession, onlyCall, MakesCall, Idle
<1>1. SessionTypes'
  BY DEF IInv, TypeOK, SessionTypes, Outcomes
<1>2. ServerTypes'
  BY OptimizerAssumption DEF IInv, TypeOK, ServerTypes, CallTypes
<1>3. WorkerOfState'
  BY DEF IInv, TypeOK, WorkerOfState, SessionTypes, WorkerTypes, Live, Outcomes, CallTypes
<1>4. SettledBeforeState'
  BY DEF IInv, TypeOK, SettledBeforeState, SessionTypes, WorkerTypes, CallTypes, WorkerOfState
<1>5. ActiveOfState'
  BY OptimizerAssumption DEF IInv, TypeOK, ActiveOfState, SessionTypes, ServerTypes, Outcomes,
          CallTypes
<1>6. StateOfCall'
  BY DEF IInv, TypeOK, StateOfCall, SessionTypes, CallTypes
<1>7. ShuttingDown'
  BY DEF IInv, TypeOK, ShuttingDown, CallTypes, ServerTypes
<1>8. EndedIsSettled'
  BY DEF IInv, TypeOK, EndedIsSettled, SessionTypes, Outcomes, CallTypes
<1>9. EndedMeansEnded'
  BY DEF IInv, TypeOK, EndedMeansEnded, SessionTypes, WorkerTypes, ServerTypes, Joinable,
          Outcomes, CallTypes
<1>. QED
  BY Frame, <1>1, <1>2, <1>3, <1>4, <1>5, <1>6, <1>7, <1>8, <1>9 DEF IInv, TypeOK

LEMMA findSessionSafe ==
    ASSUME IInv, NEW c \in Callers, NEW o \in {"Start", "Confirm", "Cancel", "Close"}, findSession(c, o)
    PROVE  IInv'
<1>. USE DEF findSession, onlyCall, MakesCall, Begin, Idle
<1>1. CallTypes'
  BY DEF IInv, TypeOK, CallTypes, Enders, ServerTypes
<1>2. ServerTypes'
  BY OptimizerAssumption DEF IInv, TypeOK, ServerTypes, CallTypes
<1>3. BorrowedUnderLock'
  BY OptimizerAssumption DEF IInv, TypeOK, BorrowedUnderLock, TaskTypes, CallTypes, ServerTypes
<1>4. StateOfCall'
  BY DEF IInv, TypeOK, StateOfCall, SessionTypes, CallTypes, ServerTypes, ActiveOfState
<1>5. ShuttingDown'
  BY DEF IInv, TypeOK, ShuttingDown, CallTypes, ServerTypes
<1>. QED
  BY Frame, <1>1, <1>2, <1>3, <1>4, <1>5 DEF IInv, TypeOK

LEMMA StartSessionSafe ==
    ASSUME IInv, NEW c \in Callers, StartSession(c)
    PROVE  IInv'
<1>. USE DEF StartSession, onlyCall, Returns, completeUnstarted, pushEvents, WorkerAt
<1>1. SessionTypes'
  BY DEF IInv, TypeOK, SessionTypes, Outcomes
<1>2. WorkerTypes'
  BY DEF IInv, TypeOK, WorkerTypes, Live, Outcomes
<1>3. CallTypes'
  BY DEF IInv, TypeOK, CallTypes, Enders
<1>4. TasksInPhase'
  BY DEF IInv, TypeOK, TasksInPhase, WorkerTypes, TaskTypes, Resting, CallTypes
<1>5. BorrowedUnderLock'
  BY OptimizerAssumption, SMTT(60) DEF IInv, TypeOK, BorrowedUnderLock, TaskTypes, CallTypes,
          ServerTypes
<1>6. WorkerOfState'
  BY DEF IInv, TypeOK, WorkerOfState, SessionTypes, WorkerTypes, Live, Outcomes, CallTypes
<1>7. SettledBeforeState'
  BY DEF IInv, TypeOK, SettledBeforeState, SessionTypes, WorkerTypes, CallTypes, WorkerOfState
<1>8. ActiveOfState'
  BY DEF IInv, TypeOK, ActiveOfState, SessionTypes, ServerTypes, Outcomes, CallTypes
<1>9. StateOfCall'
  BY DEF IInv, TypeOK, StateOfCall, SessionTypes, CallTypes
<1>10. ShuttingDown'
  BY DEF IInv, TypeOK, ShuttingDown, CallTypes, ServerTypes
<1>11. EndedIsSettled'
  BY DEF IInv, TypeOK, EndedIsSettled, SessionTypes, Outcomes, CallTypes
<1>12. EndedMeansEnded'
  BY DEF IInv, TypeOK, EndedMeansEnded, SessionTypes, WorkerTypes, ServerTypes, Joinable,
          Outcomes, CallTypes
<1>. QED
  BY Frame, <1>1, <1>2, <1>3, <1>4, <1>5, <1>6, <1>7, <1>8, <1>9, <1>10, <1>11, <1>12 DEF IInv,
     TypeOK

LEMMA ConfirmProbeIngestSafe ==
    ASSUME IInv, NEW c \in Callers, NEW p \in Youtube, NEW received \in BOOLEAN, ConfirmProbeIngest(c, p, received)
    PROVE  IInv'
<1>. USE DEF ConfirmProbeIngest, onlyCall, Returns
<1>1. ConfirmTypes'
  BY DEF IInv, TypeOK, ConfirmTypes, NoTask
<1>2. CallTypes'
  BY DEF IInv, TypeOK, CallTypes, Enders
<1>3. BorrowedUnderLock'
  BY OptimizerAssumption DEF IInv, TypeOK, BorrowedUnderLock, TaskTypes, CallTypes, ServerTypes
<1>4. StateOfCall'
  BY DEF IInv, TypeOK, StateOfCall, SessionTypes, CallTypes
<1>5. ShuttingDown'
  BY DEF IInv, TypeOK, ShuttingDown, CallTypes, ServerTypes
<1>. QED
  BY Frame, <1>1, <1>2, <1>3, <1>4, <1>5 DEF IInv, TypeOK

LEMMA requestCancellationSafe ==
    ASSUME IInv, NEW c \in Callers, requestCancellation(c)
    PROVE  IInv'
<1>. USE DEF requestCancellation, onlyCall, Returns, CallAt, completeUnstarted, pushEvents
<1>1. SessionTypes'
  BY DEF IInv, TypeOK, SessionTypes, Outcomes
<1>2. CallTypes'
  BY DEF IInv, TypeOK, CallTypes, Enders
<1>3. ServerTypes'
  BY DEF IInv, TypeOK, ServerTypes, CallTypes
<1>4. BorrowedUnderLock'
  BY SMTT(30), OptimizerAssumption DEF IInv, TypeOK, BorrowedUnderLock, TaskTypes, CallTypes,
     ServerTypes
<1>5. WorkerOfState'
  BY DEF IInv, TypeOK, WorkerOfState, SessionTypes, WorkerTypes, Live, Outcomes, CallTypes
<1>6. SettledBeforeState'
  BY DEF IInv, TypeOK, SettledBeforeState, SessionTypes, WorkerTypes, CallTypes, WorkerOfState
<1>7. ActiveOfState'
  BY DEF IInv, TypeOK, ActiveOfState, SessionTypes, ServerTypes, Outcomes, CallTypes
<1>8. StateOfCall'
  BY DEF IInv, TypeOK, StateOfCall, SessionTypes, CallTypes
<1>9. ShuttingDown'
  BY DEF IInv, TypeOK, ShuttingDown, CallTypes, ServerTypes
<1>10. EndedIsSettled'
  BY DEF IInv, TypeOK, EndedIsSettled, SessionTypes, Outcomes, CallTypes
<1>11. EndedMeansEnded'
  BY DEF IInv, TypeOK, EndedMeansEnded, SessionTypes, WorkerTypes, ServerTypes, Joinable,
          Outcomes, CallTypes, WorkerOfState
<1>. QED
  BY Frame, <1>1, <1>2, <1>3, <1>4, <1>5, <1>6, <1>7, <1>8, <1>9, <1>10, <1>11 DEF IInv, TypeOK

LEMMA borrowOutputsSafe ==
    ASSUME IInv, NEW c \in Callers, borrowOutputs(c)
    PROVE  IInv'
<1>. USE DEF borrowOutputs, onlyCall
<1>1. CallTypes'
  BY DEF IInv, TypeOK, CallTypes, Enders, TaskTypes
<1>2. ServerTypes'
  BY DEF IInv, TypeOK, ServerTypes, CallTypes
<1>3. BorrowedUnderLock'
  BY OptimizerAssumption DEF IInv, TypeOK, BorrowedUnderLock, TaskTypes, CallTypes, ServerTypes
<1>4. StateOfCall'
  BY DEF IInv, TypeOK, StateOfCall, SessionTypes, CallTypes
<1>5. ShuttingDown'
  BY DEF IInv, TypeOK, ShuttingDown, CallTypes, ServerTypes
<1>. QED
  BY Frame, <1>1, <1>2, <1>3, <1>4, <1>5 DEF IInv, TypeOK

LEMMA forceStopBorrowedSafe ==
    ASSUME IInv, NEW c \in Callers, forceStopBorrowed(c)
    PROVE  IInv'
<1>. USE DEF forceStopBorrowed, onlyCall, ForcedStop
<1>1. TaskTypes'
  BY DEF IInv, TypeOK, TaskTypes
<1>2. CallTypes'
  BY DEF IInv, TypeOK, CallTypes, Enders
<1>3. ServerTypes'
  BY DEF IInv, TypeOK, ServerTypes, CallTypes
<1>4. OutputOfTask'
  BY DEF IInv, TypeOK, OutputOfTask, TaskTypes, Resting, CallTypes
<1>5. BorrowedUnderLock'
  BY OptimizerAssumption DEF IInv, TypeOK, BorrowedUnderLock, TaskTypes, CallTypes, ServerTypes
<1>6. StateOfCall'
  BY DEF IInv, TypeOK, StateOfCall, SessionTypes, CallTypes
<1>7. ShuttingDown'
  BY DEF IInv, TypeOK, ShuttingDown, CallTypes, ServerTypes
<1>. QED
  BY Frame, <1>1, <1>2, <1>3, <1>4, <1>5, <1>6, <1>7 DEF IInv, TypeOK

LEMMA joinedSafe ==
    ASSUME IInv, NEW c \in Callers, joined(c)
    PROVE  IInv'
<1>. USE DEF joined, onlyCall, Returns, CallAt, unlock
<1>a. target[c] \in Sessions /\ state[target[c]] \in Outcomes \cup {"closed"}
  BY DEF IInv, TypeOK, CallTypes, SessionTypes, WorkerTypes, StateOfCall, WorkerOfState, Joinable,
     Live
<1>1. SessionTypes'
  BY DEF IInv, TypeOK, SessionTypes, Outcomes
<1>2. CallTypes'
  BY DEF IInv, TypeOK, CallTypes, Enders
<1>3. ServerTypes'
  BY DEF IInv, TypeOK, ServerTypes, CallTypes
<1>4. BorrowedUnderLock'
  BY SMTT(30), OptimizerAssumption DEF IInv, TypeOK, BorrowedUnderLock, TaskTypes, CallTypes,
     ServerTypes
<1>5. WorkerOfState'
  BY DEF IInv, TypeOK, WorkerOfState, SessionTypes, WorkerTypes, Live, Outcomes, CallTypes,
          Joinable, StateOfCall
<1>6. SettledBeforeState'
  BY DEF IInv, TypeOK, SettledBeforeState, SessionTypes, WorkerTypes, CallTypes
<1>7. ActiveOfState'
  BY DEF IInv, TypeOK, ActiveOfState, SessionTypes, ServerTypes, Outcomes, CallTypes
<1>8. StateOfCall'
  BY DEF IInv, TypeOK, StateOfCall, SessionTypes, CallTypes
<1>9. ShuttingDown'
  BY DEF IInv, TypeOK, ShuttingDown, CallTypes, ServerTypes
<1>10. EndedIsSettled'
  BY <1>a DEF IInv, TypeOK, EndedIsSettled, SessionTypes, Outcomes
<1>11. EndedMeansEnded'
  BY DEF IInv, TypeOK, EndedMeansEnded, SessionTypes, WorkerTypes, ServerTypes, Joinable,
          Outcomes, CallTypes, StateOfCall, WorkerOfState, Live
<1>. QED
  BY Frame, <1>1, <1>2, <1>3, <1>4, <1>5, <1>6, <1>7, <1>8, <1>9, <1>10, <1>11 DEF IInv, TypeOK

LEMMA gaveUpWaitingSafe ==
    ASSUME IInv, NEW c \in Callers, gaveUpWaiting(c)
    PROVE  IInv'
<1>. USE DEF gaveUpWaiting, onlyCall, Returns, unlock, pushEvents
<1>1. CallTypes'
  BY DEF IInv, TypeOK, CallTypes, Enders
<1>2. ServerTypes'
  BY DEF IInv, TypeOK, ServerTypes, CallTypes
<1>3. BorrowedUnderLock'
  BY OptimizerAssumption DEF IInv, TypeOK, BorrowedUnderLock, TaskTypes, CallTypes, ServerTypes
<1>4. StateOfCall'
  BY DEF IInv, TypeOK, StateOfCall, SessionTypes, CallTypes
<1>5. ShuttingDown'
  BY DEF IInv, TypeOK, ShuttingDown, CallTypes, ServerTypes
<1>. QED
  BY Frame, <1>1, <1>2, <1>3, <1>4, <1>5 DEF IInv, TypeOK

LEMMA CloseSessionSafe ==
    ASSUME IInv, NEW c \in Callers, CloseSession(c)
    PROVE  IInv'
<1>. USE DEF CloseSession, onlyCall, Returns, CallAt
<1>1. SessionTypes'
  BY DEF IInv, TypeOK, SessionTypes, Outcomes
<1>2. CallTypes'
  BY ZenonT(30) DEF IInv, TypeOK, CallTypes, Enders
<1>3. BorrowedUnderLock'
  BY SMTT(30), OptimizerAssumption DEF IInv, TypeOK, BorrowedUnderLock, TaskTypes, CallTypes,
     ServerTypes
<1>4. WorkerOfState'
  BY DEF IInv, TypeOK, WorkerOfState, SessionTypes, WorkerTypes, Live, Outcomes, CallTypes,
          Joinable, StateOfCall
<1>5. SettledBeforeState'
  BY DEF IInv, TypeOK, SettledBeforeState, SessionTypes, WorkerTypes, CallTypes
<1>6. ActiveOfState'
  BY DEF IInv, TypeOK, ActiveOfState, SessionTypes, ServerTypes, Outcomes, CallTypes
<1>7. StateOfCall'
  BY DEF IInv, TypeOK, StateOfCall, SessionTypes, CallTypes
<1>8. ShuttingDown'
  BY DEF IInv, TypeOK, ShuttingDown, CallTypes, ServerTypes
<1>9. EndedIsSettled'
  BY DEF IInv, TypeOK, EndedIsSettled, SessionTypes, Outcomes, CallTypes, Joinable, StateOfCall,
          WorkerOfState, WorkerTypes, Live
<1>10. EndedMeansEnded'
  BY DEF IInv, TypeOK, EndedMeansEnded, SessionTypes, WorkerTypes, ServerTypes, Joinable,
          Outcomes, CallTypes
<1>. QED
  BY Frame, <1>1, <1>2, <1>3, <1>4, <1>5, <1>6, <1>7, <1>8, <1>9, <1>10 DEF IInv, TypeOK

LEMMA forgetSessionSafe ==
    ASSUME IInv, NEW c \in Callers, forgetSession(c)
    PROVE  IInv'
<1>. USE DEF forgetSession, onlyCall, Returns
<1>1. CallTypes'
  BY DEF IInv, TypeOK, CallTypes, Enders
<1>2. ServerTypes'
  BY DEF IInv, TypeOK, ServerTypes, CallTypes
<1>3. BorrowedUnderLock'
  BY OptimizerAssumption DEF IInv, TypeOK, BorrowedUnderLock, TaskTypes, CallTypes, ServerTypes
<1>4. ActiveOfState'
  BY OptimizerAssumption DEF IInv, TypeOK, ActiveOfState, SessionTypes, ServerTypes, Outcomes,
          CallTypes, StateOfCall
<1>5. StateOfCall'
  BY DEF IInv, TypeOK, StateOfCall, SessionTypes, CallTypes
<1>6. ShuttingDown'
  BY DEF IInv, TypeOK, ShuttingDown, CallTypes, ServerTypes
<1>7. EndedMeansEnded'
  BY DEF IInv, TypeOK, EndedMeansEnded, SessionTypes, WorkerTypes, ServerTypes, Joinable,
          Outcomes, CallTypes, StateOfCall, WorkerOfState, Live
<1>. QED
  BY Frame, <1>1, <1>2, <1>3, <1>4, <1>5, <1>6, <1>7 DEF IInv, TypeOK

LEMMA ShutdownSafe ==
    ASSUME IInv, NEW c \in Callers, Shutdown(c)
    PROVE  IInv'
<1>. USE DEF Shutdown, onlyCall, MakesCall, Begin, Idle
<1>1. CallTypes'
  BY DEF IInv, TypeOK, CallTypes, Enders
<1>2. ServerTypes'
  BY OptimizerAssumption DEF IInv, TypeOK, ServerTypes, CallTypes
<1>3. BorrowedUnderLock'
  BY OptimizerAssumption DEF IInv, TypeOK, BorrowedUnderLock, TaskTypes, CallTypes, ServerTypes
<1>4. StateOfCall'
  BY DEF IInv, TypeOK, StateOfCall, SessionTypes, CallTypes
<1>5. ShuttingDown'
  BY DEF IInv, TypeOK, ShuttingDown, CallTypes, ServerTypes
<1>. QED
  BY Frame, <1>1, <1>2, <1>3, <1>4, <1>5 DEF IInv, TypeOK

LEMMA lookForSessionSafe ==
    ASSUME IInv, NEW c \in Callers, lookForSession(c)
    PROVE  IInv'
<1>. USE DEF lookForSession, onlyCall, Returns
<1>1. CallTypes'
  BY ZenonT(30) DEF IInv, TypeOK, CallTypes, Enders, ServerTypes
<1>2. ServerTypes'
  BY DEF IInv, TypeOK, ServerTypes, CallTypes
<1>3. BorrowedUnderLock'
  BY OptimizerAssumption DEF IInv, TypeOK, BorrowedUnderLock, TaskTypes, CallTypes, ServerTypes
<1>4. StateOfCall'
  BY DEF IInv, TypeOK, StateOfCall, SessionTypes, CallTypes, ServerTypes, ActiveOfState
<1>5. ShuttingDown'
  BY DEF IInv, TypeOK, ShuttingDown, CallTypes, ServerTypes
<1>. QED
  BY Frame, <1>1, <1>2, <1>3, <1>4, <1>5 DEF IInv, TypeOK

-----------------------------------------------------------------------------
(* Every step, whatever thread takes it. *)

LEMMA InitSafe == Init => IInv
<1>. SUFFICES ASSUME Init PROVE IInv
  OBVIOUS
<1>. USE DEF Init
<1>0. SessionTypes
  BY DEF SessionTypes, Outcomes
<1>a. WorkerTypes
  BY DEF WorkerTypes, Outcomes, Live
<1>1. ServerTypes
  <2>1. callsLeft \in 0 .. MaxCalls
    BY OptimizerAssumption
  <2>2. lifecycleMutex \in [Sessions -> Callers \cup {Nobody}] /\ probeMutex \in [Sessions -> Callers \cup {Nobody}]
    OBVIOUS
  <2>3. activeSession \in Sessions \cup {NoSession} /\ shuttingDown \in BOOLEAN /\ ended \subseteq Sessions /\ tornDown \in BOOLEAN
    OBVIOUS
  <2>. QED
    BY <2>1, <2>2, <2>3 DEF ServerTypes
<1>2. TaskTypes
  BY DEF TaskTypes
<1>3. ConfirmTypes
  BY DEF ConfirmTypes, NoTask
<1>4. CallTypes
  BY DEF CallTypes, Enders
<1>5. TasksInPhase /\ OutputOfTask
  BY DEF TasksInPhase, OutputOfTask, Resting
<1>6. BorrowedUnderLock /\ StateOfCall /\ ShuttingDown
  BY DEF BorrowedUnderLock, StateOfCall, ShuttingDown
<1>7. WorkerOfState /\ SettledBeforeState
  BY DEF WorkerOfState, SettledBeforeState, Live
<1>8. ActiveOfState
  BY OptimizerAssumption DEF ActiveOfState, Outcomes
<1>9. EndedIsSettled /\ EndedMeansEnded
  BY DEF EndedIsSettled, EndedMeansEnded, Outcomes
<1>. QED
  BY <1>0, <1>a, <1>1, <1>2, <1>3, <1>4, <1>5, <1>6, <1>7, <1>8, <1>9 DEF IInv, TypeOK

LEMMA WorkerSafe == ASSUME IInv, NEW s \in Sessions, WorkerStep(s) PROVE IInv'
  BY PreflightSafe, hardwareAssessedSafe, startProbeSafe, endProbeSafe, leaveBandwidthSafe,
     storeResultSafe, storeStateSafe, announceSafe DEF WorkerStep

LEMMA TaskSafe == ASSUME IInv, NEW s \in Sessions, NEW t \in Tasks, TaskStep(s, t) PROVE IInv'
  BY createOutputSafe, beforeStartSafe, leaveGateSafe, startOutputSafe, connectedSafe,
     notConnectedSafe,
     confirmationDeadlineSafe, measureSafe, drainedSafe, forceInCleanupSafe, foundInactiveSafe,
     releaseSafe DEF TaskStep

LEMMA CallSafe == ASSUME IInv, NEW c \in Callers, NewCall(c) \/ CallStep(c) PROVE IInv'
  BY CreateSessionSafe, findSessionSafe, StartSessionSafe, ConfirmProbeIngestSafe,
     requestCancellationSafe, borrowOutputsSafe, forceStopBorrowedSafe, joinedSafe, gaveUpWaitingSafe,
     CloseSessionSafe, forgetSessionSafe, ShutdownSafe, lookForSessionSafe DEF NewCall, CallStep

LEMMA NextSafe == IInv /\ [Next]_vars => IInv'
<1>. SUFFICES ASSUME IInv, [Next]_vars PROVE IInv'
  OBVIOUS
<1>1. CASE UNCHANGED vars
  BY <1>1, Frame DEF vars, IInv, TypeOK
<1>2. ASSUME NEW c \in Callers, NewCall(c) \/ CallStep(c) PROVE IInv'
  BY <1>2, CallSafe
<1>3. ASSUME NEW s \in Sessions, WorkerStep(s) \/ QuerySession(s) PROVE IInv'
  BY <1>3, WorkerSafe, QuerySessionSafe
<1>4. ASSUME NEW s \in Sessions, NEW t \in Tasks,
             \/ TaskStep(s, t) \/ wokenForConfirmation(s, t)
             \/ outputConnects(s, t) \/ outputDrops(s, t) \/ outputStops(s, t)
      PROVE  IInv'
  BY <1>4, TaskSafe, wokenForConfirmationSafe, outputConnectsSafe, outputDropsSafe, outputStopsSafe
<1>. QED
  BY <1>1, <1>2, <1>3, <1>4 DEF Next

\* IInv holds of every reachable state.
THEOREM Invariance == Spec => []IInv
  BY InitSafe, NextSafe, PTL DEF Spec

\* Every variable keeps its type.
THEOREM TypeCorrect == Spec => []TypeOK
<1>1. IInv => TypeOK
  BY DEF IInv
<1>. QED
  BY <1>1, Invariance, PTL

\* No output a cancelling call has borrowed is released before it is given
\* back: it was published when it was borrowed and the lock is held since.
THEOREM BorrowedAlive == Spec => []BorrowedIsAlive
<1>1. IInv => BorrowedIsAlive
  BY DEF IInv, TypeOK, BorrowedIsAlive, BorrowedUnderLock, OutputOfTask, CallTypes
<1>. QED
  BY <1>1, Invariance, PTL

LEMMA LivesAlone == IInv => RunsAlone
<1>. SUFFICES ASSUME IInv, NEW s \in Sessions, worker[s] \in Live \/ \E t \in Tasks : output[s][t] # "none"
              PROVE  activeSession = s
  BY DEF RunsAlone
<1>1. worker[s] \in Live
  BY DEF IInv, OutputOfTask, TasksInPhase, Live, Resting
<1>. QED
  BY <1>1 DEF IInv, WorkerOfState, ActiveOfState, Outcomes

\* One session runs at a time: a worker or an output there is belongs to the
\* server's active session.
THEOREM RunAlone == Spec => []RunsAlone
  BY LivesAlone, Invariance, PTL

\* After Shutdown() no worker, output or credential is left.
THEOREM TornDownQuiet == Spec => []TornDownIsQuiet
<1>1. IInv => TornDownIsQuiet
  <2>. SUFFICES ASSUME IInv, tornDown, NEW s \in Sessions
                PROVE  /\ Joinable(s)
                       /\ state[s] \in {"none", "closed"}
                       /\ secrets[s] = {}
                       /\ \A t \in Tasks : output[s][t] = "none"
    BY DEF TornDownIsQuiet
  <2>1. activeSession = NoSession /\ NoSession # s
    BY OptimizerAssumption DEF IInv, ShuttingDown
  <2>2. worker[s] \notin Live /\ \A t \in Tasks : output[s][t] = "none"
    BY <2>1, LivesAlone DEF RunsAlone
  <2>3. Joinable(s)
    BY <2>2 DEF IInv, TypeOK, WorkerTypes, Joinable
  <2>4. state[s] \in {"none", "closed"}
    BY <2>1 DEF IInv, TypeOK, SessionTypes, ActiveOfState
  <2>5. secrets[s] = {}
    BY <2>4 DEF IInv, SettledBeforeState, EndedIsSettled
  <2>. QED
    BY <2>2, <2>3, <2>4, <2>5
<1>. QED
  BY <1>1, Invariance, PTL

\* A call that reports a session's end is right about it.
THEOREM EndedForGood == Spec => []EndedMeansEnded
<1>1. IInv => EndedMeansEnded
  BY DEF IInv
<1>. QED
  BY <1>1, Invariance, PTL

\* Whoever sees the state of a session that has ended finds its result.
THEOREM EndedSettled == Spec => []EndedIsSettled
<1>1. IInv => EndedIsSettled
  BY DEF IInv
<1>. QED
  BY <1>1, Invariance, PTL

\* The end of a session is complete for whoever asked for it and whoever sees it.
THEOREM EndComplete == Spec => []EndIsComplete
<1>1. EndedMeansEnded /\ EndedIsSettled => EndIsComplete
  BY DEF EndIsComplete
<1>. QED
  BY <1>1, EndedForGood, EndedSettled, PTL

-----------------------------------------------------------------------------
(* The calls implement the contract. *)

LEMMA InitContract == Init => Contract!Init
  BY DEF Init, Contract!Init

LEMMA StartContract == ASSUME IInv, NEW c \in Callers, StartSession(c) PROVE Contract!Next
                              \/ UNCHANGED <<state, activeSession>>
<1>. DEFINE s == target[c]
<1>1. s \in Sessions
  BY DEF IInv, TypeOK, CallTypes, StartSession
<1>2. \/ UNCHANGED state
      \/ Contract!Goto(s, "created", "running")
      \/ Contract!Goto(s, "created", "failed")
  BY DEF StartSession, completeUnstarted, Contract!Goto, sessionVars
<1>. QED
  BY <1>1, <1>2 DEF StartSession, Contract!Next, Contract!Run, Contract!Refuse

LEMMA CancelContract == ASSUME IInv, NEW c \in Callers, requestCancellation(c) PROVE Contract!Next
                              \/ UNCHANGED <<state, activeSession>>
<1>. DEFINE s == target[c]
<1>1. s \in Sessions
  BY DEF IInv, TypeOK, CallTypes, requestCancellation
<1>2. UNCHANGED state \/ Contract!Goto(s, "created", "cancelled")
  BY DEF requestCancellation, completeUnstarted, Contract!Goto, sessionVars
<1>. QED
  BY <1>1, <1>2 DEF requestCancellation, Contract!Next, Contract!Drop

LEMMA EndContract == ASSUME IInv, NEW s \in Sessions, storeState(s) PROVE Contract!Next
<1>1. state[s] = "running" /\ outcome[s] \in Contract!Outcomes
  BY DEF IInv, WorkerOfState, storeState, WorkerAt, Live, Outcomes, Contract!Outcomes
<1>2. Contract!End(s, outcome[s])
  BY <1>1 DEF storeState, Contract!End, Contract!Goto
<1>. QED
  BY <1>1, <1>2 DEF Contract!Next

\* Closing: of a session that has ended, or again of one that is closed.
LEMMA CloseContract ==
    ASSUME IInv, NEW s \in Sessions, worker[s] \notin Live \/ worker[s] = "announce",
           state[s] \notin {"none", "created"},
           state' = [state EXCEPT ![s] = "closed"], UNCHANGED activeSession
    PROVE  Contract!Next \/ UNCHANGED <<state, activeSession>>
<1>1. state[s] \in Outcomes \cup {"closed"}
  BY DEF IInv, TypeOK, SessionTypes, WorkerOfState, Live
<1>2. CASE state[s] = "closed"
  BY <1>2 DEF IInv, TypeOK, SessionTypes
<1>3. CASE state[s] \in Outcomes
  BY <1>3 DEF Contract!Next, Contract!Close, Contract!Goto, Contract!Outcomes, Outcomes
<1>. QED
  BY <1>1, <1>2, <1>3

LEMMA ClosingContract == ASSUME IInv, NEW c \in Callers, joined(c) \/ CloseSession(c)
                         PROVE  Contract!Next \/ UNCHANGED <<state, activeSession>>
<1>. DEFINE s == target[c]
<1>1. s \in Sessions /\ state[s] \notin {"none", "created"}
  BY DEF IInv, TypeOK, CallTypes, StateOfCall, joined, CloseSession
<1>2. UNCHANGED activeSession
  BY DEF joined, CloseSession
<1>3. UNCHANGED state \/ (Joinable(s) /\ state' = [state EXCEPT ![s] = "closed"])
  BY DEF joined, CloseSession
<1>4. Joinable(s) => worker[s] \notin Live
  BY DEF Joinable, Live
<1>. HIDE DEF s
<1>. QED
  BY <1>1, <1>2, <1>3, <1>4, CloseContract

LEMMA ForgetContract == ASSUME IInv, NEW c \in Callers, forgetSession(c) PROVE Contract!Next
                              \/ UNCHANGED <<state, activeSession>>
<1>1. target[c] \in Sessions /\ state[target[c]] = "closed"
  BY DEF IInv, TypeOK, CallTypes, StateOfCall, forgetSession, Returns
<1>. QED
  BY <1>1 DEF forgetSession, Contract!Next, Contract!Forget

LEMMA WorkerContract ==
    ASSUME IInv, NEW s \in Sessions, WorkerStep(s) \/ QuerySession(s)
    PROVE  Contract!Next \/ UNCHANGED <<state, activeSession>>
<1>1. ASSUME storeState(s) PROVE Contract!Next
  BY <1>1, EndContract
<1>2. ASSUME Preflight(s) \/ hardwareAssessed(s) \/ leaveBandwidth(s) \/ storeResult(s) \/ announce(s)
             \/ QuerySession(s)
      PROVE  UNCHANGED <<state, activeSession>>
  BY <1>2 DEF Preflight, hardwareAssessed, leaveBandwidth, storeResult, announce, QuerySession
<1>3. ASSUME NEW p \in Probes, startProbe(s, p) \/ endProbe(s, p)
      PROVE  UNCHANGED <<state, activeSession>>
  BY <1>3 DEF startProbe, endProbe
<1>. QED
  BY <1>1, <1>2, <1>3 DEF WorkerStep

LEMMA TaskContract ==
    ASSUME NEW s \in Sessions, NEW t \in Tasks,
           \/ TaskStep(s, t) \/ wokenForConfirmation(s, t)
           \/ outputConnects(s, t) \/ outputDrops(s, t) \/ outputStops(s, t)
    PROVE  UNCHANGED <<state, activeSession>>
  BY DEF TaskStep, createOutput, beforeStart, leaveGate, startOutput, connected, notConnected,
         confirmationDeadline, measure, drained, forceInCleanup, foundInactive, release,
         wokenForConfirmation, outputConnects, outputDrops, outputStops, Libobs, onlyTask

LEMMA CallContract ==
    ASSUME IInv, NEW c \in Callers, NewCall(c) \/ CallStep(c)
    PROVE  Contract!Next \/ UNCHANGED <<state, activeSession>>
<1>1. ASSUME NEW s \in Sessions, CreateSession(c, s) PROVE Contract!Next
  BY <1>1 DEF CreateSession, Contract!Next, Contract!Create, Contract!Goto
<1>2. ASSUME NEW o \in {"Start", "Confirm", "Cancel", "Close"}, findSession(c, o)
      PROVE  UNCHANGED <<state, activeSession>>
  BY <1>2 DEF findSession
<1>3. ASSUME NEW p \in Youtube, NEW received \in BOOLEAN, ConfirmProbeIngest(c, p, received)
      PROVE  UNCHANGED <<state, activeSession>>
  BY <1>3 DEF ConfirmProbeIngest
<1>4. ASSUME Shutdown(c) \/ borrowOutputs(c) \/ forceStopBorrowed(c) \/ gaveUpWaiting(c) \/ lookForSession(c)
      PROVE  UNCHANGED <<state, activeSession>>
  BY <1>4 DEF Shutdown, borrowOutputs, forceStopBorrowed, gaveUpWaiting, lookForSession
<1>. QED
  BY <1>1, <1>2, <1>3, <1>4, StartContract, CancelContract, ClosingContract, ForgetContract
     DEF NewCall, CallStep

\* The sessions implement SessionContract: one at a time, which ends once and
\* is closed when it has ended.
THEOREM Implements == Spec => ImplementsContract
<1>1. IInv /\ [Next]_vars => [Contract!Next]_Contract!vars
  <2>. SUFFICES ASSUME IInv, [Next]_vars PROVE Contract!Next \/ UNCHANGED <<state, activeSession>>
    BY DEF Contract!vars
  <2>1. CASE UNCHANGED vars
    BY <2>1 DEF vars
  <2>. QED
    BY <2>1, WorkerContract, TaskContract, CallContract DEF Next
<1>. QED
  BY <1>1, InitContract, Invariance, PTL DEF Spec, ImplementsContract, Contract!Spec
=============================================================================
