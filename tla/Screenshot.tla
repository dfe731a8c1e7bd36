----------------------------- MODULE Screenshot -----------------------------
(* ScreenshotManager (osn-screenshot.hpp, osn-screenshot.cpp): the IPC       *)
(* worker submits jobs and polls them, libobs' tick callback stages each job *)
(* on one frame and maps it on the next, and an encoder thread writes the    *)
(* files.  The tick and the encoder work without m_mutex in between, while a *)
(* poll may give a job up and shutdown may begin.                            *)
EXTENDS Naturals, Sequences, FiniteSets

CONSTANTS MaxActive,  \* kMaxActiveJobs
          MaxJobs     \* bound: jobs submitted in a behaviour

ASSUME ScreenshotAssumption == MaxActive \in Nat \ {0} /\ MaxJobs \in Nat

JobIds == 1..MaxJobs
NoJob == 0

VARIABLES
    jobs,       \* m_jobs: from the ids it holds to their jobs
    nextId,     \* m_nextJobId
    abandoned,  \* jobs with the flag of that name
    busy,       \* jobs with tickBusy
    held,       \* jobs with texrender and stagesurf
    inFlight,   \* m_encodesInFlight
    queue,      \* m_encodeQueue
    caller,     \* where the IPC worker stands in Submit() or Shutdown()
    registered, \* m_tickRegistered
    hooked,     \* libobs calls RunTick()
    tick,       \* where the tick stands, and its work vectors
    encoder,    \* "none", "waiting", "encoding": m_encoderThread
    encoding,   \* the task it has taken
    stop,       \* m_encoderStop
    gpu,        \* the GPU objects created for each job
    answer      \* the client's last answer for each job

jobVars     == <<jobs, nextId, abandoned, busy, held>>
encoderVars == <<encoder, encoding, stop>>
hookVars    == <<caller, registered, hooked>>
shotVars == <<jobVars, inFlight, queue, hookVars, tick, encoderVars, gpu, answer>>

IdleTick == [pc |-> "idle", doomed |-> {}, stage |-> {}, map |-> {}, done |-> {}]

ScreenshotInit ==
    /\ jobs = <<>> /\ nextId = 1
    /\ abandoned = {} /\ busy = {} /\ held = {}
    /\ inFlight = 0 /\ queue = <<>>
    /\ caller = "idle" /\ registered = FALSE /\ hooked = FALSE
    /\ tick = IdleTick
    /\ encoder = "none" /\ encoding = NoJob /\ stop = FALSE
    /\ gpu = [j \in JobIds |-> "none"]
    /\ answer = [j \in JobIds |-> "none"]

Known == DOMAIN jobs
Pending(j) == jobs[j].state = "Pending"
Without(S) == [j \in Known \ S |-> jobs[j]]

NewJob(first) == [state |-> "Pending", stage |-> "NotStarted", batch |-> first, age |-> "fresh"]

\* Jobs submitted together share a deadline.  A job is "late" after its
\* deadline and "stale" after the grace period, earlier batches before later.
Older == [age \in {"fresh", "late"} |-> IF age = "fresh" THEN "late" ELSE "stale"]

JobsAge(j) ==
    /\ jobs[j].age \in DOMAIN Older
    /\ \A k \in Known : k < jobs[j].batch => jobs[k].age # jobs[j].age
    /\ jobs' = [k \in Known |-> IF jobs[k].batch = jobs[j].batch
                                THEN [jobs[k] EXCEPT !.age = Older[jobs[j].age]] ELSE jobs[k]]
    /\ UNCHANGED <<nextId, abandoned, busy, held, inFlight, queue, hookVars, tick,
                   encoderVars, gpu, answer>>

-----------------------------------------------------------------------------
(* Submit() and Query() on the IPC worker. *)

Stale == {j \in Known : jobs[j].age = "stale"}
\* Mutant: only the flag counts.
InUseBusy == busy

\* Only the tick may free GPU objects, and it may be working on the job.
JobsInUse == held \cup busy

Pruned == [j \in Known \ (Stale \ JobsInUse) |->
              IF j \in Stale /\ Pending(j) THEN [jobs[j] EXCEPT !.state = "Failed"] ELSE jobs[j]]
AbandonedByPrune == (abandoned \cup Stale) \cap DOMAIN Pruned

\* What Submit() counts against the cap, once it has pruned.
ActiveJobs == {j \in DOMAIN Pruned : j \notin AbandonedByPrune /\ jobs[j].stage # "Handed"}

ActiveCount == inFlight + Cardinality(ActiveJobs)

SubmitRejected(n) ==
    /\ caller = "idle"
    /\ ActiveCount + n > MaxActive
    /\ jobs' = Pruned
    /\ abandoned' = AbandonedByPrune
    /\ UNCHANGED <<nextId, busy, held, inFlight, queue, hookVars, tick, encoderVars, gpu, answer>>

Submit(n) ==
    /\ caller = "idle"
    /\ ActiveCount + n <= MaxActive
    /\ nextId + n - 1 <= MaxJobs
    /\ LET batch == nextId..(nextId + n - 1)
       IN  /\ jobs' = [j \in batch \cup DOMAIN Pruned |->
                          IF j \in batch THEN NewJob(nextId) ELSE Pruned[j]]
           /\ answer' = [j \in JobIds |-> IF j \in batch THEN "Pending" ELSE answer[j]]
    /\ nextId' = nextId + n
    /\ abandoned' = AbandonedByPrune
    /\ caller' = IF registered THEN "idle" ELSE "hook"
    /\ registered' = TRUE
    /\ IF encoder = "none"
       THEN encoder' = "waiting" /\ stop' = FALSE
       ELSE UNCHANGED <<encoder, stop>>
    /\ UNCHANGED <<busy, held, inFlight, queue, hooked, tick, encoding, gpu>>

Hook ==
    /\ caller = "hook"
    /\ hooked' = TRUE
    /\ caller' = "idle"
    /\ UNCHANGED <<jobVars, inFlight, queue, registered, tick, encoderVars, gpu, answer>>

QueryUnknown(j) ==
    /\ j \notin Known
    /\ answer' = [answer EXCEPT ![j] = "Failed"]
    /\ UNCHANGED <<jobs, abandoned>>

\* Mutant: no deadline.
QueryPatiently(j) ==
    /\ j \in Known
    /\ answer' = [answer EXCEPT ![j] = jobs[j].state]
    /\ IF ~Pending(j) /\ j \notin JobsInUse
       THEN jobs' = Without({j}) /\ abandoned' = abandoned \ {j}
       ELSE UNCHANGED <<jobs, abandoned>>

\* Past the deadline a pending job is given up.
QueryKnown(j) ==
    LET timedOut == Pending(j) /\ jobs[j].age # "fresh"
        state == IF timedOut THEN "Failed" ELSE jobs[j].state
    IN  /\ j \in Known
        /\ answer' = [answer EXCEPT ![j] = state]
        /\ IF state # "Pending" /\ j \notin JobsInUse
           THEN /\ jobs' = Without({j})
                /\ abandoned' = abandoned \ {j}
           ELSE /\ jobs' = [jobs EXCEPT ![j].state = state]
                /\ abandoned' = IF timedOut THEN abandoned \cup {j} ELSE abandoned

\* ScreenshotWaitWorker polls a job until its answer is final.
Query(j) ==
    /\ caller = "idle"
    /\ answer[j] = "Pending"
    /\ QueryUnknown(j) \/ QueryKnown(j)
    /\ UNCHANGED <<nextId, busy, held, inFlight, queue, hookVars, tick, encoderVars, gpu>>

-----------------------------------------------------------------------------
(* RunTick() on libobs' graphics thread. *)

\* A second destruction of the same objects would show as "twice".
Destroyed(S) == [j \in JobIds |-> IF j \notin S THEN gpu[j]
                               ELSE IF gpu[j] = "live" THEN "gone" ELSE "twice"]

ToStage == {j \in Known \ abandoned : Pending(j) /\ jobs[j].stage = "NotStarted"}
ToMap == {j \in Known \ abandoned : Pending(j) /\ jobs[j].stage = "Staged"}

TickCollects ==
    /\ hooked
    /\ tick.pc = "idle"
    /\ abandoned \cup ToStage \cup ToMap # {}
    /\ LET doomed == abandoned \cap held
       IN  tick' = [pc |-> IF doomed \cup ToStage \cup ToMap = {} THEN "idle" ELSE "render",
                    doomed |-> doomed, stage |-> ToStage, map |-> ToMap, done |-> {}]
    /\ busy' = busy \cup ToStage \cup ToMap
    /\ jobs' = Without(abandoned)
    /\ abandoned' = {}
    /\ held' = held \ abandoned
    /\ UNCHANGED <<nextId, inFlight, queue, hookVars, encoderVars, gpu, answer>>

\* In graphics, without m_mutex: staging and mapping may each fail.
TickRenders ==
    /\ tick.pc = "render"
    /\ \E done \in SUBSET (tick.stage \cup tick.map) :
          /\ tick' = [tick EXCEPT !.pc = "commit", !.done = done]
          /\ gpu' = [j \in JobIds |-> IF j \in tick.stage \cap done THEN "live"
                                   ELSE Destroyed(tick.doomed \cup tick.map)[j]]
    /\ UNCHANGED <<jobVars, inFlight, queue, hookVars, encoderVars, answer>>

\* What the tick finds erased or given up goes; the rest moves on a stage.
Dropped == {j \in tick.stage \cup tick.map : j \notin Known \/ j \in abandoned}
Advanced == tick.done \ Dropped
Broken == (tick.stage \cup tick.map) \ (tick.done \cup Dropped)

Committed(j) ==
    [jobs[j] EXCEPT !.state = IF j \in Broken THEN "Failed" ELSE @,
                    !.stage = IF j \in tick.map THEN "Handed"
                              ELSE IF j \in Advanced THEN "Staged" ELSE @]

\* m_jobs is walked by ascending ids.
InOrder(S) == {q \in [1..Cardinality(S) -> S] : \A i, k \in DOMAIN q : i < k => q[i] < q[k]}

TickCommits ==
    /\ tick.pc = "commit"
    /\ jobs' = [j \in Known \ Dropped |->
                   IF j \in Advanced \cup Broken THEN Committed(j) ELSE jobs[j]]
    /\ abandoned' = abandoned \ Dropped
    /\ busy' = busy \ (tick.stage \cup tick.map)
    /\ held' = (held \ tick.map) \cup (tick.stage \cap Advanced)
    /\ LET tasks == tick.map \cap Advanced
       IN  /\ inFlight' = inFlight + Cardinality(tasks)
           /\ \E ordered \in InOrder(tasks) : queue' = queue \o ordered
    /\ gpu' = Destroyed(tick.stage \cap tick.done \cap Dropped)
    /\ tick' = IdleTick
    /\ UNCHANGED <<nextId, hookVars, encoderVars, answer>>

RunTick == TickCollects \/ TickRenders \/ TickCommits

-----------------------------------------------------------------------------
(* EncoderThreadMain(). *)

EncodeTake ==
    /\ encoder = "waiting"
    /\ ~stop
    /\ queue # <<>>
    /\ encoding' = Head(queue)
    /\ queue' = Tail(queue)
    /\ encoder' = "encoding"
    /\ UNCHANGED <<jobVars, inFlight, hookVars, tick, stop, gpu, answer>>

\* The file is written or not; a job that is still known learns of it.
EncodeDone ==
    /\ encoder = "encoding"
    /\ \E state \in {"Done", "Failed"} :
          jobs' = IF encoding \in Known THEN [jobs EXCEPT ![encoding].state = state] ELSE jobs
    /\ inFlight' = inFlight - 1
    /\ encoder' = "waiting"
    /\ encoding' = NoJob
    /\ UNCHANGED <<nextId, abandoned, busy, held, queue, hookVars, tick, stop, gpu, answer>>

EncoderExits ==
    /\ encoder = "waiting"
    /\ stop
    /\ encoder' = "none"
    /\ UNCHANGED <<jobVars, inFlight, queue, hookVars, tick, encoding, stop, gpu, answer>>

Encoder == EncodeTake \/ EncodeDone \/ EncoderExits

-----------------------------------------------------------------------------
(* Shutdown(), on the IPC worker or, after it has ended, on the main thread. *)

ShutdownBegins ==
    /\ caller = "idle"
    /\ registered
    /\ registered' = FALSE
    /\ caller' = "unhook"
    /\ UNCHANGED <<jobVars, inFlight, queue, hooked, tick, encoderVars, gpu, answer>>

\* Mutant: a tick in progress is not waited for.
UnhookEarly ==
    /\ caller = "unhook"
    /\ hooked' = FALSE
    /\ caller' = "stop"
    /\ UNCHANGED <<jobVars, inFlight, queue, registered, tick, encoderVars, gpu, answer>>

\* obs_remove_tick_callback() waits for a tick in progress.
Unhook ==
    /\ caller = "unhook"
    /\ tick.pc = "idle"
    /\ hooked' = FALSE
    /\ caller' = "stop"
    /\ UNCHANGED <<jobVars, inFlight, queue, registered, tick, encoderVars, gpu, answer>>

StopEncoder ==
    /\ caller = "stop"
    /\ stop' = TRUE
    /\ caller' = "join"
    /\ UNCHANGED <<jobVars, inFlight, queue, registered, hooked, tick, encoder, encoding,
                   gpu, answer>>

Clear ==
    /\ caller = "join"
    /\ encoder = "none"
    /\ queue' = <<>>
    /\ inFlight' = 0
    /\ jobs' = <<>>
    /\ abandoned' = {} /\ busy' = {} /\ held' = {}
    /\ gpu' = Destroyed(held)
    /\ caller' = "idle"
    /\ UNCHANGED <<nextId, registered, hooked, tick, encoderVars, answer>>

Shutdown == ShutdownBegins \/ Unhook \/ StopEncoder \/ Clear

-----------------------------------------------------------------------------
ScreenshotNext ==
    \/ \E n \in 1..MaxActive : Submit(n) \/ SubmitRejected(n)
    \/ Hook
    \/ \E j \in Known : JobsAge(j)
    \/ \E j \in JobIds : Query(j)
    \/ RunTick \/ Encoder \/ Shutdown

ScreenshotSpec == ScreenshotInit /\ [][ScreenshotNext]_shotVars

\* The clock runs, the client polls until its answer is final and the encoder
\* runs.  Frames may stop, and nobody has to submit again.
ScreenshotFairness ==
    /\ \A j \in JobIds : WF_shotVars(Query(j)) /\ WF_shotVars(j \in Known /\ JobsAge(j))
    /\ WF_shotVars(Hook) /\ WF_shotVars(Encoder) /\ WF_shotVars(caller # "idle" /\ Shutdown)
    /\ WF_shotVars(tick.pc # "idle" /\ RunTick)

-----------------------------------------------------------------------------
Jobs == [state : {"Pending", "Done", "Failed"}, stage : {"NotStarted", "Staged", "Handed"},
         batch : JobIds, age : {"fresh", "late", "stale"}]

JobTypeOK ==
    /\ nextId \in 1..(MaxJobs + 1)
    /\ Known \subseteq 1..(nextId - 1) /\ jobs \in [Known -> Jobs]
    /\ abandoned \subseteq Known /\ busy \subseteq JobIds /\ held \subseteq JobIds
    /\ inFlight \in 0..MaxActive
    /\ queue \in Seq(JobIds) /\ encoding \in JobIds \cup {NoJob}
    /\ caller \in {"idle", "hook", "unhook", "stop", "join"}
    /\ encoder \in {"none", "waiting", "encoding"}
    /\ registered \in BOOLEAN /\ hooked \in BOOLEAN /\ stop \in BOOLEAN
    /\ tick \in [pc : {"idle", "render", "commit"}, doomed : SUBSET JobIds, stage : SUBSET JobIds,
                  map : SUBSET JobIds, done : SUBSET JobIds]
    /\ gpu \in [JobIds -> {"none", "live", "gone", "twice"}]
    /\ answer \in [JobIds -> {"none", "Pending", "Done", "Failed"}]

(* GPU objects are destroyed once, and until then somebody is going to: the  *)
(* job that owns them, or the tick that took them over.                      *)
DestroyedOnce ==
    \A j \in JobIds :
        /\ gpu[j] # "twice"
        /\ gpu[j] = "live" => j \in (held \cap Known) \cup tick.doomed \cup (tick.stage \cap tick.done)
        /\ j \in held /\ tick.pc # "commit" => gpu[j] = "live"

(* Once the tick callback is removed nothing is left behind: no job, no task,*)
(* no encoder thread and no GPU object.                                      *)
UnhookedIsClean ==
    caller = "idle" /\ ~hooked =>
        /\ Known = {} /\ queue = <<>> /\ inFlight = 0 /\ encoder = "none"
        /\ \A j \in JobIds : gpu[j] # "live"

(* Both hold whatever the tick, the encoder, a deadline and a shutdown do in *)
(* between.                                                                  *)
GpuOwned == DestroyedOnce /\ UnhookedIsClean

(* Who polls a job is answered, though frames may have stopped and the       *)
(* encoder may be slow.                                                      *)
PollsEnd == \A j \in JobIds : answer[j] = "Pending" ~> answer[j] # "Pending"
=============================================================================
