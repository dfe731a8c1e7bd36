--------------------------- MODULE GraphicsProofs ---------------------------
(* Proofs about what the server's calls share with the graphics thread.       *)
(*                                                                            *)
(* Screenshot: GPU objects are destroyed exactly once and nothing is left     *)
(* once the tick callback is gone, for any cap and number of jobs.            *)
(*                                                                            *)
(* DisplayCanvas: no display, frame or call outlives what it uses, and        *)
(* settings are skipped only on a canvas that runs with them, for any number  *)
(* of callers, keys, displays, canvases and addresses.                        *)
EXTENDS Screenshot, DisplayCanvas, FiniteSetTheorems, TLAPS

-----------------------------------------------------------------------------
(* Screenshots.                                                               *)

\* Objects are held for jobs that have been staged and may yet be mapped.
HeldIsStaged ==
    /\ held \subseteq 1..(nextId - 1)
    /\ \A j \in Known : /\ jobs[j].stage = "NotStarted" => j \notin held
                        /\ jobs[j].stage = "Staged" /\ Pending(j) => j \in held

\* What a tick works on: new jobs, held ones, and the objects it took over.
TickIsApart ==
    /\ tick.pc = "idle" => tick = IdleTick
    /\ tick.stage \cap (tick.map \cup tick.doomed \cup held) = {}
    /\ tick.doomed \cap held = {}
    /\ tick.map \subseteq held
    /\ tick.done \subseteq tick.stage \cup tick.map
    /\ tick.pc = "render" => tick.done = {}
    /\ tick.stage \subseteq 1..(nextId - 1)
    /\ \A j \in tick.stage \cap Known : jobs[j].stage = "NotStarted"
    /\ \A j \in tick.map \cap Known : jobs[j].stage = "Staged"

\* What it is going to destroy exists before the rendering and not after; what
\* it has staged, and all else that is held, exists.
GpuOfTick ==
    /\ tick.pc = "render" => \A j \in tick.doomed \cup tick.map : gpu[j] = "live"
    /\ tick.pc = "commit" =>
          /\ \A j \in tick.doomed \cup tick.map : gpu[j] # "live"
          /\ \A j \in (tick.stage \cap tick.done) \cup (held \ tick.map) : gpu[j] = "live"

\* The callback is hooked by the call that registers it, and no tick runs
\* without it.
HookOfCaller ==
    /\ ~hooked => tick.pc = "idle"
    /\ caller \in {"stop", "join"} => ~hooked
    /\ registered => hooked \/ caller = "hook"
    /\ caller \in {"unhook", "stop", "join"} => ~registered

\* Tasks in flight are queued or being encoded.
InFlightIsQueued ==
    /\ encoder = "encoding" <=> encoding # NoJob
    /\ inFlight = Len(queue) + IF encoding = NoJob THEN 0 ELSE 1

\* With those, the jobs that may still be handed over fit the cap.
Unhanded == {j \in Known \ abandoned : jobs[j].stage # "Handed"}
WithinCap == inFlight + Cardinality(Unhanded) <= MaxActive

JobsInv ==
    /\ JobTypeOK /\ HeldIsStaged /\ TickIsApart /\ GpuOfTick /\ DestroyedOnce
    /\ HookOfCaller /\ UnhookedIsClean /\ InFlightIsQueued /\ WithinCap

-----------------------------------------------------------------------------
(* Jobs are finitely many. *)
LEMMA UnhandedIsFinite ==
    ASSUME JobsInv
    PROVE  /\ IsFiniteSet(Known)
           /\ IsFiniteSet(Unhanded) /\ Cardinality(Unhanded) \in Nat
<1>1. nextId - 1 \in Int
  BY DEF JobsInv, JobTypeOK
<1>2. IsFiniteSet(1..(nextId - 1))
  BY <1>1, FS_Interval
<1>3. IsFiniteSet(Known) /\ Unhanded \subseteq Known
  BY <1>2, FS_Subset DEF JobsInv, JobTypeOK, Unhanded
<1>. QED
  BY <1>3, FS_Subset, FS_CardinalityType

(* What a change of jobs keeps that takes none to another stage, makes none   *)
(* pending, and forgets none that holds objects.                             *)
LEMMA SameStages ==
    ASSUME ScreenshotAssumption, JobsInv, UNCHANGED <<nextId, held, tick, gpu, inFlight>>,
           Known' \subseteq Known,
           Known \cap held \subseteq Known',
           Known' \cap abandoned \subseteq abandoned',
           \A j \in Known' : jobs'[j].stage = jobs[j].stage /\ (Pending(j)' => Pending(j))
    PROVE  HeldIsStaged' /\ TickIsApart' /\ GpuOfTick' /\ DestroyedOnce' /\ WithinCap'
<1>1. HeldIsStaged'
  BY DEF JobsInv, HeldIsStaged
<1>2. TickIsApart' /\ GpuOfTick' /\ DestroyedOnce'
  BY DEF JobsInv, TickIsApart, GpuOfTick, DestroyedOnce, IdleTick
<1>3. WithinCap'
  <2>1. Unhanded' \subseteq Unhanded
    BY DEF Unhanded
  <2>2. Cardinality(Unhanded') <= Cardinality(Unhanded) /\ Cardinality(Unhanded') \in Nat
    BY <2>1, UnhandedIsFinite, FS_Subset, FS_CardinalityType
  <2>. QED
    BY <2>2, UnhandedIsFinite DEF JobsInv, JobTypeOK, WithinCap, ScreenshotAssumption
<1>. QED
  BY <1>1, <1>2, <1>3

(* What keeps its value when no job, tick or object changes. *)
LEMMA SameJobs ==
    ASSUME ScreenshotAssumption, JobsInv, UNCHANGED <<nextId, held, tick, gpu, inFlight, jobs, abandoned>>
    PROVE  HeldIsStaged' /\ TickIsApart' /\ GpuOfTick' /\ DestroyedOnce' /\ WithinCap'
  BY SameStages DEF Pending, Known

-----------------------------------------------------------------------------
(* Time passes for the jobs of a batch. *)
LEMMA TimePassesKeeps ==
    ASSUME ScreenshotAssumption, JobsInv, NEW j \in Known, JobsAge(j)
    PROVE  JobsInv'
<1>. USE DEF JobsAge, hookVars, encoderVars
<1>1. /\ Known' = Known
      /\ jobs' \in [Known -> Jobs]
      /\ \A k \in Known : jobs'[k].stage = jobs[k].stage /\ jobs'[k].state = jobs[k].state
  <2>1. Known' = Known
    BY DEF Known
  <2>2. j \in Known /\ jobs[j].age \in {"fresh", "late"}
    BY DEF Older
  <2>3. ASSUME NEW k \in Known
        PROVE  jobs'[k] \in Jobs /\ jobs'[k].stage = jobs[k].stage /\ jobs'[k].state = jobs[k].state
    <3>1. jobs[k] \in Jobs
      BY DEF JobsInv, JobTypeOK
    <3>2. CASE jobs[k].batch = jobs[j].batch
      <4>1. jobs'[k] = [jobs[k] EXCEPT !.age = Older[jobs[j].age]]
        BY <3>2
      <4>2. Older[jobs[j].age] \in {"late", "stale"}
        BY <2>2 DEF Older
      <4>. QED
        BY <3>1, <4>1, <4>2 DEF Jobs
    <3>3. CASE jobs[k].batch # jobs[j].batch
      BY <3>1, <3>3
    <3>. QED
      BY <3>2, <3>3
  <2>4. jobs' \in [Known -> Jobs]
    BY <2>3
  <2>. QED
    BY <2>1, <2>3, <2>4
<1>2. JobTypeOK'
  BY <1>1 DEF JobsInv, JobTypeOK
<1>3. HeldIsStaged' /\ TickIsApart' /\ GpuOfTick' /\ DestroyedOnce' /\ WithinCap'
  BY <1>1, SameStages DEF Pending
<1>4. HookOfCaller' /\ UnhookedIsClean' /\ InFlightIsQueued'
  BY <1>1 DEF JobsInv, HookOfCaller, UnhookedIsClean, InFlightIsQueued
<1>. QED
  BY <1>2, <1>3, <1>4 DEF JobsInv

(* What pruning leaves. *)
LEMMA PrunedJobs ==
    ASSUME JobsInv
    PROVE  /\ DOMAIN Pruned \subseteq Known
           /\ Known \cap held \subseteq DOMAIN Pruned
           /\ Pruned \in [DOMAIN Pruned -> Jobs]
           /\ DOMAIN Pruned \cap abandoned \subseteq AbandonedByPrune
           /\ AbandonedByPrune \subseteq DOMAIN Pruned
           /\ \A j \in DOMAIN Pruned :
                 /\ Pruned[j].stage = jobs[j].stage
                 /\ Pruned[j].state = "Pending" => Pending(j)
<1>1. DOMAIN Pruned = Known \ (Stale \ JobsInUse)
  BY DEF Pruned
<1>2. \A j \in DOMAIN Pruned :
        /\ Pruned[j] = IF j \in Stale /\ Pending(j) THEN [jobs[j] EXCEPT !.state = "Failed"] ELSE jobs[j]
        /\ jobs[j] \in Jobs
  BY DEF JobsInv, JobTypeOK, Pruned
<1>3. \A j \in DOMAIN Pruned :
        /\ Pruned[j] \in Jobs
        /\ Pruned[j].stage = jobs[j].stage
        /\ Pruned[j].state = "Pending" => Pending(j)
  BY <1>2 DEF Jobs, Pending
<1>4. Pruned \in [DOMAIN Pruned -> Jobs]
  BY <1>1, <1>3 DEF Pruned
<1>. QED
  BY <1>1, <1>3, <1>4 DEF AbandonedByPrune, JobsInUse

(* A submission is refused, after pruning. *)
LEMMA SubmitRejectedKeeps ==
    ASSUME ScreenshotAssumption, JobsInv, NEW n \in 1..MaxActive, SubmitRejected(n)
    PROVE  JobsInv'
<1>. USE DEF SubmitRejected, hookVars, encoderVars
<1>1. JobTypeOK'
  BY PrunedJobs DEF JobsInv, JobTypeOK, Known
<1>2. HeldIsStaged' /\ TickIsApart' /\ GpuOfTick' /\ DestroyedOnce' /\ WithinCap'
  BY PrunedJobs, SameStages DEF Pending, Known
<1>3. UnhookedIsClean'
  BY PrunedJobs DEF JobsInv, UnhookedIsClean, Known
<1>4. HookOfCaller' /\ InFlightIsQueued'
  BY DEF JobsInv, HookOfCaller, InFlightIsQueued
<1>. QED
  BY <1>1, <1>2, <1>3, <1>4 DEF JobsInv

(* Jobs are submitted: their ids are new, and the cap has room for them. *)
LEMMA SubmitKeeps ==
    ASSUME ScreenshotAssumption, JobsInv, NEW n \in 1..MaxActive, Submit(n)
    PROVE  JobsInv'
<1>. DEFINE batch == nextId..(nextId + n - 1)
<1>0. /\ n \in Nat /\ nextId \in Nat /\ nextId + n - 1 <= MaxJobs /\ MaxJobs \in Nat
      /\ Known \cap batch = {} /\ held \cap batch = {} /\ batch \subseteq JobIds
  BY DEF JobsInv, JobTypeOK, Submit, ScreenshotAssumption, HeldIsStaged, JobIds
<1>1. /\ Known' = batch \cup DOMAIN Pruned
      /\ \A j \in batch : jobs'[j] = NewJob(nextId)
      /\ \A j \in DOMAIN Pruned : jobs'[j] = Pruned[j]
      /\ abandoned' = AbandonedByPrune
  BY <1>0, PrunedJobs DEF Submit, Known
<1>2. UNCHANGED <<busy, held, inFlight, queue, hooked, tick, encoding, gpu>> /\ nextId' = nextId + n
  BY DEF Submit
<1>3. NewJob(nextId) \in Jobs /\ NewJob(nextId).stage = "NotStarted"
  BY <1>0 DEF NewJob, Jobs, JobIds
<1>4. jobs' \in [batch \cup DOMAIN Pruned -> Jobs]
  <2>1. \A j \in batch \cup DOMAIN Pruned : jobs'[j] \in Jobs
    BY <1>1, <1>3, PrunedJobs
  <2>. QED
    BY <2>1 DEF Submit
<1>5. JobTypeOK'
  <2>1. nextId' \in 1..(MaxJobs + 1) /\ Known' \subseteq 1..(nextId' - 1)
    BY SMTT(30), <1>0, <1>1, <1>2, PrunedJobs DEF JobsInv, JobTypeOK
  <2>2. abandoned' \subseteq Known'
    BY <1>1, PrunedJobs
  <2>3. /\ answer' \in [JobIds -> {"none", "Pending", "Done", "Failed"}]
        /\ caller' \in {"idle", "hook"} /\ registered' \in BOOLEAN
        /\ encoder' \in {"none", "waiting", "encoding"}
    BY <1>0 DEF JobsInv, JobTypeOK, Submit
  <2>4. stop' \in BOOLEAN
    BY Zenon DEF JobsInv, JobTypeOK, Submit
  <2>. QED
    BY <1>1, <1>2, <1>4, <2>1, <2>2, <2>3, <2>4 DEF JobsInv, JobTypeOK
<1>6. HeldIsStaged'
  <2>1. held \subseteq 1..(nextId' - 1)
    BY <1>0, <1>2 DEF JobsInv, HeldIsStaged
  <2>2. ASSUME NEW j \in Known'
        PROVE  /\ jobs'[j].stage = "NotStarted" => j \notin held
               /\ jobs'[j].stage = "Staged" /\ jobs'[j].state = "Pending" => j \in held
    BY <1>0, <1>1, <1>3, PrunedJobs DEF JobsInv, HeldIsStaged
  <2>. QED
    BY <1>2, <2>1, <2>2 DEF HeldIsStaged, Pending
<1>7. TickIsApart'
  BY <1>0, <1>1, <1>2, PrunedJobs DEF JobsInv, TickIsApart, IdleTick
<1>8. GpuOfTick' /\ DestroyedOnce'
  BY <1>1, <1>2, PrunedJobs DEF JobsInv, GpuOfTick, DestroyedOnce
<1>9. WithinCap'
  <2>1. ActiveJobs \subseteq Known /\ IsFiniteSet(ActiveJobs) /\ Cardinality(ActiveJobs) \in Nat
    BY PrunedJobs, UnhandedIsFinite, FS_Subset, FS_CardinalityType DEF ActiveJobs
  <2>2. IsFiniteSet(batch) /\ Cardinality(batch) = n
    BY <1>0, FS_Interval
  <2>3. Unhanded' \subseteq ActiveJobs \cup batch
    BY <1>1, PrunedJobs DEF Unhanded, ActiveJobs
  <2>4. /\ IsFiniteSet(ActiveJobs \cup batch)
        /\ Cardinality(ActiveJobs \cup batch) <= Cardinality(ActiveJobs) + n
    <3>1. ActiveJobs \cap batch = {}
      BY <1>0, <2>1
    <3>2. /\ IsFiniteSet(ActiveJobs \cup batch)
          /\ Cardinality(ActiveJobs \cup batch)
                = Cardinality(ActiveJobs) + Cardinality(batch) - Cardinality(ActiveJobs \cap batch)
      BY <2>1, <2>2, FS_Union
    <3>3. Cardinality(ActiveJobs \cap batch) = 0
      BY <3>1, FS_EmptySet
    <3>. QED
      BY <1>0, <2>1, <2>2, <3>2, <3>3
  <2>5. Cardinality(Unhanded') <= Cardinality(ActiveJobs) + n /\ Cardinality(Unhanded') \in Nat
    BY <1>0, <2>1, <2>3, <2>4, FS_Subset, FS_CardinalityType
  <2>. QED
    BY <1>0, <1>2, <2>1, <2>5 DEF JobsInv, JobTypeOK, Submit, ActiveCount, WithinCap,
       ScreenshotAssumption
<1>10. HookOfCaller'
  BY DEF JobsInv, JobTypeOK, HookOfCaller, Submit
<1>11. UnhookedIsClean'
  BY <1>2 DEF JobsInv, HookOfCaller, UnhookedIsClean, Submit
<1>12. InFlightIsQueued'
  BY <1>2 DEF JobsInv, JobTypeOK, InFlightIsQueued, Submit
<1>. QED
  BY <1>5, <1>6, <1>7, <1>8, <1>9, <1>10, <1>11, <1>12 DEF JobsInv

(* The callback is hooked. *)
LEMMA HookKeeps ==
    ASSUME ScreenshotAssumption, JobsInv, Hook
    PROVE  JobsInv'
<1>. USE DEF Hook, jobVars, encoderVars
<1>1. JobTypeOK'
  BY DEF JobsInv, JobTypeOK, Known
<1>2. HeldIsStaged' /\ TickIsApart' /\ GpuOfTick' /\ DestroyedOnce' /\ WithinCap'
  BY SameJobs
<1>3. HookOfCaller' /\ UnhookedIsClean' /\ InFlightIsQueued'
  BY DEF JobsInv, HookOfCaller, UnhookedIsClean, InFlightIsQueued
<1>. QED
  BY <1>1, <1>2, <1>3 DEF JobsInv

(* A poll of a job: past the deadline it is given up, and an answered job is  *)
(* forgotten unless the tick has to do with it.                              *)
LEMMA QueryKeeps ==
    ASSUME ScreenshotAssumption, JobsInv, NEW j \in JobIds, Query(j)
    PROVE  JobsInv'
<1>. USE DEF hookVars, encoderVars
<1>1. /\ UNCHANGED <<nextId, busy, held, inFlight, queue, hookVars, tick, encoderVars, gpu>>
      /\ caller = "idle"
  BY DEF Query
<1>2. /\ Known' \subseteq Known /\ Known \cap held \subseteq Known'
      /\ jobs' \in [Known' -> Jobs]
      /\ abandoned' \subseteq Known' /\ Known' \cap abandoned \subseteq abandoned'
      /\ answer' \in [JobIds -> {"none", "Pending", "Done", "Failed"}]
      /\ \A k \in Known' : /\ jobs'[k].stage = jobs[k].stage
                           /\ jobs'[k].state = "Pending" => jobs[k].state = "Pending"
  <2>1. CASE QueryUnknown(j)
    BY <2>1 DEF JobsInv, JobTypeOK, QueryUnknown, Known
  <2>2. CASE QueryKnown(j)
    <3>. DEFINE timedOut == Pending(j) /\ jobs[j].age # "fresh"
                state == IF timedOut THEN "Failed" ELSE jobs[j].state
    <3>1. /\ j \in Known /\ jobs[j] \in Jobs
          /\ state \in {"Pending", "Done", "Failed"}
          /\ state = "Pending" => jobs[j].state = "Pending"
      BY <2>2 DEF JobsInv, JobTypeOK, QueryKnown, Jobs
    <3>2. answer' \in [JobIds -> {"none", "Pending", "Done", "Failed"}]
      BY <2>2, <3>1 DEF JobsInv, JobTypeOK, QueryKnown
    <3>3. CASE state # "Pending" /\ j \notin JobsInUse
      <4>1. jobs' = Without({j}) /\ abandoned' = abandoned \ {j}
        BY <2>2, <3>3 DEF QueryKnown
      <4>. QED
        BY <3>2, <3>3, <4>1 DEF JobsInv, JobTypeOK, Without, JobsInUse, Known
    <3>4. CASE ~(state # "Pending" /\ j \notin JobsInUse)
      <4>1. /\ jobs' = [jobs EXCEPT ![j].state = state]
            /\ abandoned' = IF timedOut THEN abandoned \cup {j} ELSE abandoned
        BY <2>2, <3>4 DEF QueryKnown
      <4>2. /\ Known' = Known
            /\ jobs'[j] = [jobs[j] EXCEPT !.state = state]
            /\ \A k \in Known \ {j} : jobs'[k] = jobs[k]
        BY <3>1, <4>1 DEF JobsInv, JobTypeOK, Known
      <4>3. jobs'[j] \in Jobs /\ jobs'[j].stage = jobs[j].stage /\ jobs'[j].state = state
        BY <3>1, <4>2 DEF Jobs
      <4>4. jobs' \in [Known -> Jobs]
        BY <4>1, <4>2, <4>3 DEF JobsInv, JobTypeOK
      <4>. QED
        BY <3>1, <3>2, <4>1, <4>2, <4>3, <4>4 DEF JobsInv, JobTypeOK
    <3>. QED
      BY <3>3, <3>4
  <2>. QED
    BY <2>1, <2>2 DEF Query
<1>3. JobTypeOK'
  BY <1>1, <1>2 DEF JobsInv, JobTypeOK
<1>4. HeldIsStaged' /\ TickIsApart' /\ GpuOfTick' /\ DestroyedOnce' /\ WithinCap'
  BY <1>1, <1>2, SameStages DEF Pending
<1>5. HookOfCaller' /\ UnhookedIsClean' /\ InFlightIsQueued'
  BY <1>1, <1>2 DEF JobsInv, HookOfCaller, UnhookedIsClean, InFlightIsQueued
<1>. QED
  BY <1>3, <1>4, <1>5 DEF JobsInv

(* The tick collects its work and takes the given up jobs' objects over. *)
LEMMA TickCollectsKeeps ==
    ASSUME ScreenshotAssumption, JobsInv, TickCollects
    PROVE  JobsInv'
<1>. DEFINE doomed == abandoned \cap held
<1>1. /\ hooked /\ tick.pc = "idle" /\ tick = IdleTick
      /\ tick' = [pc |-> IF doomed \cup ToStage \cup ToMap = {} THEN "idle" ELSE "render",
                  doomed |-> doomed, stage |-> ToStage, map |-> ToMap, done |-> {}]
      /\ held' = held \ abandoned
      /\ abandoned' = {}
      /\ busy' = busy \cup ToStage \cup ToMap
      /\ UNCHANGED <<nextId, inFlight, queue, hookVars, encoderVars, gpu, answer>>
  BY DEF TickCollects, JobsInv, TickIsApart
<1>2. /\ Known' = Known \ abandoned
      /\ \A j \in Known' : jobs'[j] = jobs[j]
      /\ jobs' \in [Known' -> Jobs]
  BY DEF TickCollects, Without, Known, JobsInv, JobTypeOK
<1>3. /\ ToStage \subseteq Known' /\ ToMap \subseteq Known' /\ Known \subseteq JobIds
      /\ \A j \in ToStage : jobs[j].stage = "NotStarted" /\ j \notin held
      /\ \A j \in ToMap : jobs[j].stage = "Staged" /\ j \in held /\ j \notin abandoned
  <2>1. Known \subseteq JobIds
    BY DEF ScreenshotAssumption, JobsInv, JobTypeOK, JobIds
  <2>2. ToStage \subseteq Known \ abandoned /\ ToMap \subseteq Known \ abandoned
    BY DEF ToStage, ToMap
  <2>3. \A j \in ToStage : jobs[j].stage = "NotStarted" /\ j \notin held
    BY DEF ToStage, JobsInv, HeldIsStaged
  <2>4. \A j \in ToMap : jobs[j].stage = "Staged" /\ j \in held
    BY DEF ToMap, JobsInv, HeldIsStaged
  <2>. QED
    BY <1>2, <2>1, <2>2, <2>3, <2>4
<1>4. JobTypeOK'
  <2>1. /\ tick' \in [pc : {"idle", "render", "commit"}, doomed : SUBSET JobIds, stage : SUBSET JobIds,
                      map : SUBSET JobIds, done : SUBSET JobIds]
        /\ busy' \subseteq JobIds /\ held' \subseteq JobIds
    BY <1>1, <1>2, <1>3 DEF JobsInv, JobTypeOK
  <2>. QED
    BY <1>1, <1>2, <2>1 DEF JobsInv, JobTypeOK, hookVars, encoderVars
<1>5. HeldIsStaged'
  BY <1>1, <1>2 DEF JobsInv, HeldIsStaged, Pending
<1>6. TickIsApart'
  <2>1. tick'.pc = "idle" => tick' = IdleTick
    BY <1>1 DEF IdleTick
  <2>2. /\ tick'.stage = ToStage /\ tick'.map = ToMap /\ tick'.doomed = doomed /\ tick'.done = {}
    BY <1>1
  <2>3. ToStage \cap (ToMap \cup doomed \cup held') = {}
    BY <1>1, <1>3
  <2>4. doomed \cap held' = {} /\ ToMap \subseteq held'
    BY <1>1, <1>3
  <2>5. /\ \A j \in ToStage \cap Known' : jobs'[j].stage = "NotStarted"
        /\ \A j \in ToMap \cap Known' : jobs'[j].stage = "Staged"
        /\ ToStage \subseteq 1..(nextId' - 1)
    BY <1>1, <1>2, <1>3 DEF JobsInv, JobTypeOK
  <2>. QED
    BY <2>1, <2>2, <2>3, <2>4, <2>5 DEF TickIsApart, IdleTick
<1>7. GpuOfTick'
  BY <1>1, <1>3 DEF JobsInv, GpuOfTick, DestroyedOnce, JobIds, JobTypeOK
<1>8. DestroyedOnce'
  BY <1>1, <1>2 DEF JobsInv, DestroyedOnce, IdleTick
<1>9. WithinCap'
  <2>1. Unhanded' = Unhanded
    BY <1>1, <1>2 DEF Unhanded
  <2>. QED
    BY <1>1, <2>1 DEF JobsInv, WithinCap
<1>10. HookOfCaller' /\ UnhookedIsClean' /\ InFlightIsQueued'
  BY <1>1 DEF JobsInv, HookOfCaller, UnhookedIsClean, InFlightIsQueued, hookVars, encoderVars
<1>. QED
  BY <1>4, <1>5, <1>6, <1>7, <1>8, <1>9, <1>10 DEF JobsInv

(* Rendering stages new jobs and destroys what was mapped or taken over. *)
LEMMA TickRendersKeeps ==
    ASSUME ScreenshotAssumption, JobsInv, TickRenders
    PROVE  JobsInv'
<1>. USE DEF jobVars, hookVars, encoderVars
<1>1. PICK done \in SUBSET (tick.stage \cup tick.map) :
          /\ tick' = [tick EXCEPT !.pc = "commit", !.done = done]
          /\ gpu' = [j \in JobIds |-> IF j \in tick.stage \cap done THEN "live"
                                   ELSE Destroyed(tick.doomed \cup tick.map)[j]]
  BY DEF TickRenders
<1>2. tick.pc = "render" /\ UNCHANGED <<jobVars, inFlight, queue, hookVars, encoderVars, answer>>
  BY DEF TickRenders
<1>3. /\ tick'.pc = "commit" /\ tick'.done = done
      /\ tick'.doomed = tick.doomed /\ tick'.stage = tick.stage /\ tick'.map = tick.map
      /\ tick' \in [pc : {"idle", "render", "commit"}, doomed : SUBSET JobIds, stage : SUBSET JobIds,
                    map : SUBSET JobIds, done : SUBSET JobIds]
  BY <1>1 DEF JobsInv, JobTypeOK
<1>4. \A j \in JobIds : gpu'[j] = IF j \in tick.stage \cap done THEN "live"
                               ELSE IF j \in tick.doomed \cup tick.map THEN "gone" ELSE gpu[j]
  BY <1>1, <1>2 DEF Destroyed, JobsInv, GpuOfTick
<1>5. JobTypeOK'
  <2>1. gpu' \in [JobIds -> {"none", "live", "gone", "twice"}]
    BY <1>1, <1>4 DEF JobsInv, JobTypeOK
  <2>. QED
    BY <1>2, <1>3, <2>1 DEF JobsInv, JobTypeOK, Known
<1>6. HeldIsStaged' /\ InFlightIsQueued' /\ WithinCap'
  BY <1>2 DEF JobsInv, HeldIsStaged, InFlightIsQueued, WithinCap, Unhanded, Known, Pending
<1>7. TickIsApart'
  BY <1>1, <1>2, <1>3 DEF JobsInv, TickIsApart, Known
<1>8. GpuOfTick' /\ DestroyedOnce'
  <2>1. /\ tick.doomed \subseteq JobIds /\ tick.stage \subseteq JobIds /\ tick.map \subseteq JobIds
        /\ held \subseteq JobIds /\ UNCHANGED <<held, Known>>
        /\ tick.stage \cap (tick.map \cup tick.doomed \cup held) = {} /\ tick.doomed \cap held = {}
    BY <1>2 DEF JobsInv, JobTypeOK, TickIsApart, Known
  <2>2. \A j \in held : gpu[j] = "live"
    BY <1>2, <2>1 DEF JobsInv, DestroyedOnce
  <2>3. GpuOfTick'
    BY <1>3, <1>4, <2>1, <2>2 DEF GpuOfTick
  <2>4. ASSUME NEW j \in JobIds
        PROVE  /\ gpu'[j] # "twice"
               /\ gpu'[j] = "live" => j \in (held \cap Known) \cup (tick.stage \cap done)
    <3>1. /\ gpu[j] # "twice"
          /\ gpu[j] = "live" => j \in (held \cap Known) \cup tick.doomed \cup (tick.stage \cap tick.done)
      BY DEF JobsInv, DestroyedOnce
    <3>2. tick.stage \cap tick.done = {}
      BY <1>2 DEF JobsInv, TickIsApart
    <3>. QED
      BY <1>4, <3>1, <3>2
  <2>. QED
    BY <1>3, <2>1, <2>3, <2>4 DEF DestroyedOnce
<1>9. HookOfCaller' /\ UnhookedIsClean'
  BY <1>2 DEF JobsInv, HookOfCaller, UnhookedIsClean
<1>. QED
  BY <1>5, <1>6, <1>7, <1>8, <1>9 DEF JobsInv

(* An ascending sequence of a finite set is as long as the set is large. *)
LEMMA InOrderLength ==
    ASSUME NEW S \in SUBSET JobIds, IsFiniteSet(S), NEW q \in InOrder(S)
    PROVE  q \in Seq(JobIds) /\ Len(q) = Cardinality(S)
  BY FS_CardinalityType DEF InOrder

(* The tick commits: what was given up is dropped with its objects, staged    *)
(* jobs hold theirs, and mapped ones become tasks of the encoder.            *)
LEMMA TickCommitsKeeps ==
    ASSUME ScreenshotAssumption, JobsInv, TickCommits
    PROVE  JobsInv'
<1>. DEFINE tasks == tick.map \cap Advanced
<1>1. /\ tick.pc = "commit" /\ hooked /\ tick' = IdleTick
      /\ abandoned' = abandoned \ Dropped
      /\ busy' = busy \ (tick.stage \cup tick.map)
      /\ held' = (held \ tick.map) \cup (tick.stage \cap Advanced)
      /\ inFlight' = inFlight + Cardinality(tasks)
      /\ gpu' = Destroyed(tick.stage \cap tick.done \cap Dropped)
      /\ UNCHANGED <<nextId, hookVars, encoderVars, answer>>
  BY DEF TickCommits, JobsInv, HookOfCaller
<1>2. PICK ordered \in InOrder(tasks) : queue' = queue \o ordered
  BY DEF TickCommits
<1>3. /\ Known' = Known \ Dropped
      /\ \A j \in Known' : jobs'[j] = IF j \in Advanced \cup Broken THEN Committed(j) ELSE jobs[j]
  BY DEF TickCommits, Known
<1>4. /\ Advanced \subseteq Known \ abandoned /\ Advanced \cap Dropped = {}
      /\ Advanced \subseteq tick.stage \cup tick.map /\ Broken \cap tick.done = {}
      /\ \A j \in Known' : j \in tick.stage \cup tick.map => j \in Advanced \cup Broken
  BY <1>3 DEF Advanced, Dropped, Broken, JobsInv, TickIsApart
<1>5. ASSUME NEW j \in Known'
      PROVE  /\ jobs'[j] \in Jobs
             /\ jobs'[j].state = "Pending" => Pending(j) /\ j \notin Broken
             /\ jobs'[j].stage = IF j \in tick.map THEN "Handed"
                                 ELSE IF j \in Advanced THEN "Staged" ELSE jobs[j].stage
  <2>1. jobs[j] \in Jobs
    BY <1>3 DEF JobsInv, JobTypeOK
  <2>2. CASE j \in Advanced \cup Broken
    <3>1. jobs'[j] = Committed(j)
      BY <1>3, <2>2
    <3>. QED
      BY <2>1, <3>1 DEF Committed, Jobs, Pending
  <2>3. CASE j \notin Advanced \cup Broken
    BY <1>3, <1>4, <2>1, <2>3 DEF Pending
  <2>. QED
    BY <2>2, <2>3
<1>6. /\ tasks \in SUBSET JobIds /\ IsFiniteSet(tasks) /\ Cardinality(tasks) \in Nat
      /\ ordered \in Seq(JobIds) /\ Len(ordered) = Cardinality(tasks)
  <2>1. tasks \in SUBSET JobIds /\ IsFiniteSet(tasks)
    BY <1>4, UnhandedIsFinite, FS_Subset DEF JobsInv, JobTypeOK
  <2>. QED
    BY <1>2, <2>1, FS_CardinalityType, InOrderLength
<1>7. WithinCap'
  <2>1. tasks \subseteq Unhanded
    BY <1>4 DEF Unhanded, JobsInv, TickIsApart
  <2>2. Unhanded' \subseteq Unhanded \ tasks
    <3>1. ASSUME NEW j \in Unhanded' PROVE j \in Unhanded /\ j \notin tick.map
      <4>1. j \in Known' /\ j \in Known \ abandoned /\ jobs'[j].stage # "Handed"
        BY <1>1, <1>3, <3>1 DEF Unhanded
      <4>2. j \in Advanced => j \in tick.map \/ jobs[j].stage = "NotStarted"
        BY <1>4, <4>1 DEF JobsInv, TickIsApart
      <4>. QED
        BY <1>5, <4>1, <4>2 DEF Unhanded
    <3>. QED
      BY <3>1
  <2>3. /\ IsFiniteSet(Unhanded \ tasks)
        /\ Cardinality(Unhanded \ tasks) = Cardinality(Unhanded) - Cardinality(tasks)
    <3>1. Unhanded \cap tasks = tasks
      BY <2>1
    <3>2. /\ IsFiniteSet(Unhanded \ tasks)
          /\ Cardinality(Unhanded \ tasks) = Cardinality(Unhanded) - Cardinality(Unhanded \cap tasks)
      BY UnhandedIsFinite, FS_Difference
    <3>. QED
      BY <3>1, <3>2
  <2>4. Cardinality(Unhanded') <= Cardinality(Unhanded) - Cardinality(tasks)
    BY <2>2, <2>3, FS_Subset
  <2>5. Cardinality(Unhanded') \in Nat
    BY <2>2, <2>3, FS_Subset, FS_CardinalityType
  <2>. QED
    BY <1>1, <1>6, <2>4, <2>5, UnhandedIsFinite DEF JobsInv, JobTypeOK, WithinCap,
       ScreenshotAssumption
<1>8. JobTypeOK'
  <2>1. inFlight' \in 0..MaxActive
    <3>1. Cardinality(Unhanded)' \in Nat
      BY <1>3, UnhandedIsFinite, FS_Subset, FS_CardinalityType DEF Unhanded
    <3>. QED
      BY <1>1, <1>6, <1>7, <3>1 DEF JobsInv, JobTypeOK, WithinCap, ScreenshotAssumption
  <2>2. jobs' \in [Known' -> Jobs]
    BY <1>3, <1>5 DEF TickCommits, Known
  <2>3. queue' \in Seq(JobIds)
    <3>1. queue \in Seq(JobIds)
      BY DEF JobsInv, JobTypeOK
    <3>. QED
      BY <1>2, <1>6, <3>1
  <2>4. gpu' \in [JobIds -> {"none", "live", "gone", "twice"}]
    BY <1>1 DEF Destroyed, JobsInv, JobTypeOK
  <2>5. /\ tick' \in [pc : {"idle", "render", "commit"}, doomed : SUBSET JobIds, stage : SUBSET JobIds,
                      map : SUBSET JobIds, done : SUBSET JobIds]
    BY <1>1 DEF IdleTick
  <2>6. /\ Known' \subseteq 1..(nextId - 1) /\ abandoned' \subseteq Known'
        /\ busy' \subseteq JobIds /\ held' \subseteq JobIds
    BY <1>1, <1>3 DEF JobsInv, JobTypeOK
  <2>. QED
    BY <1>1, <2>1, <2>2, <2>3, <2>4, <2>5, <2>6 DEF JobsInv, JobTypeOK, hookVars, encoderVars
<1>9. HeldIsStaged'
  <2>1. held' \subseteq 1..(nextId' - 1)
    BY <1>1, <1>4 DEF JobsInv, JobTypeOK, HeldIsStaged
  <2>2. ASSUME NEW j \in Known'
        PROVE  /\ jobs'[j].stage = "NotStarted" => j \notin held'
               /\ jobs'[j].stage = "Staged" /\ jobs'[j].state = "Pending" => j \in held'
    BY <1>1, <1>3, <1>4, <1>5 DEF JobsInv, HeldIsStaged, TickIsApart
  <2>. QED
    BY <2>1, <2>2 DEF HeldIsStaged, Pending
<1>10. TickIsApart' /\ GpuOfTick'
  BY <1>1 DEF TickIsApart, GpuOfTick, IdleTick
<1>11. DestroyedOnce'
  <2>1. \A j \in tick.stage \cap tick.done : gpu[j] = "live"
    BY <1>1 DEF JobsInv, GpuOfTick
  <2>2. \A j \in JobIds : gpu'[j] = IF j \in tick.stage \cap tick.done \cap Dropped THEN "gone" ELSE gpu[j]
    BY <1>1, <2>1 DEF Destroyed
  <2>3. ASSUME NEW j \in JobIds, gpu'[j] = "live" PROVE j \in held' \cap Known'
    <3>1. gpu[j] = "live" /\ j \notin tick.doomed \cup tick.map
      BY <1>1, <2>2, <2>3 DEF JobsInv, GpuOfTick
    <3>2. j \in (held \cap Known) \cup (tick.stage \cap tick.done)
      BY <3>1 DEF JobsInv, DestroyedOnce
    <3>3. CASE j \in tick.stage \cap tick.done
      BY <1>1, <1>3, <2>2, <2>3, <3>3 DEF Advanced, Dropped
    <3>4. CASE j \in held \cap Known
      BY <1>1, <1>3, <3>1, <3>4 DEF Dropped, JobsInv, TickIsApart
    <3>. QED
      BY <3>2, <3>3, <3>4
  <2>4. ASSUME NEW j \in held' PROVE gpu'[j] = "live"
    BY <1>1, <1>4, <2>1, <2>2 DEF JobsInv, JobTypeOK, GpuOfTick, TickIsApart, Advanced
  <2>5. \A j \in JobIds : gpu'[j] # "twice"
    BY <2>2 DEF JobsInv, DestroyedOnce
  <2>. QED
    BY <1>1, <2>3, <2>4, <2>5 DEF DestroyedOnce, IdleTick
<1>12. HookOfCaller' /\ UnhookedIsClean'
  BY <1>1 DEF JobsInv, HookOfCaller, UnhookedIsClean, IdleTick, hookVars
<1>13. InFlightIsQueued'
  <2>1. Len(queue') = Len(queue) + Len(ordered)
    <3>1. queue \in Seq(JobIds) /\ ordered \in Seq(JobIds)
      BY <1>6 DEF JobsInv, JobTypeOK
    <3>2. queue' = queue \o ordered
      BY <1>2
    <3>. QED
      BY <3>1, <3>2
  <2>2. Len(queue) \in Nat
    BY DEF JobsInv, JobTypeOK
  <2>. QED
    BY <1>1, <1>6, <2>1, <2>2 DEF JobsInv, InFlightIsQueued, encoderVars
<1>. QED
  BY <1>7, <1>8, <1>9, <1>10, <1>11, <1>12, <1>13 DEF JobsInv

(* The encoder thread takes a task. *)
LEMMA EncodeTakeKeeps ==
    ASSUME ScreenshotAssumption, JobsInv, EncodeTake
    PROVE  JobsInv'
<1>. USE DEF EncodeTake, jobVars, hookVars
<1>1. /\ queue \in Seq(JobIds) /\ queue # <<>>
      /\ encoding' = Head(queue) /\ queue' = Tail(queue)
  BY DEF JobsInv, JobTypeOK
<1>2. /\ Head(queue) \in JobIds /\ Tail(queue) \in Seq(JobIds)
      /\ Len(queue) \in Nat /\ Len(Tail(queue)) = Len(queue) - 1
  BY <1>1
<1>3. JobTypeOK'
  BY <1>1, <1>2 DEF JobsInv, JobTypeOK, Known
<1>4. HeldIsStaged' /\ TickIsApart' /\ GpuOfTick' /\ DestroyedOnce' /\ WithinCap'
  BY SameJobs
<1>5. HookOfCaller' /\ UnhookedIsClean'
  BY DEF JobsInv, HookOfCaller, UnhookedIsClean
<1>6. InFlightIsQueued'
  BY <1>1, <1>2 DEF JobsInv, InFlightIsQueued, NoJob, JobIds
<1>. QED
  BY <1>3, <1>4, <1>5, <1>6 DEF JobsInv

(* The file is written, or not. *)
LEMMA EncodeDoneKeeps ==
    ASSUME ScreenshotAssumption, JobsInv, EncodeDone
    PROVE  JobsInv'
<1>. USE DEF EncodeDone, hookVars
<1>1. /\ encoder = "encoding" /\ encoding # NoJob
      /\ inFlight' = inFlight - 1 /\ inFlight - 1 \in 0..MaxActive
      /\ encoding' = NoJob
  BY DEF JobsInv, JobTypeOK, InFlightIsQueued, ScreenshotAssumption
<1>2. /\ Known' = Known /\ jobs' \in [Known -> Jobs]
      /\ \A j \in Known : /\ jobs'[j].stage = jobs[j].stage
                           /\ jobs'[j].state = "Pending" => jobs[j].state = "Pending"
  <2>1. PICK state \in {"Done", "Failed"} :
           jobs' = IF encoding \in Known THEN [jobs EXCEPT ![encoding].state = state] ELSE jobs
    OBVIOUS
  <2>2. Known' = Known
    BY <2>1 DEF Known, JobsInv, JobTypeOK
  <2>3. ASSUME NEW j \in Known
        PROVE  /\ jobs'[j] \in Jobs /\ jobs'[j].stage = jobs[j].stage
               /\ jobs'[j].state = "Pending" => jobs[j].state = "Pending"
    <3>1. jobs[j] \in Jobs
      BY DEF JobsInv, JobTypeOK
    <3>2. jobs'[j] = IF j = encoding THEN [jobs[j] EXCEPT !.state = state] ELSE jobs[j]
      BY <2>1 DEF JobsInv, JobTypeOK
    <3>. QED
      BY <3>1, <3>2 DEF Jobs
  <2>4. jobs' \in [Known -> Jobs]
    BY <2>1, <2>3 DEF JobsInv, JobTypeOK
  <2>. QED
    BY <2>2, <2>3, <2>4
<1>3. JobTypeOK'
  BY <1>1, <1>2 DEF JobsInv, JobTypeOK
<1>4. HeldIsStaged' /\ TickIsApart' /\ GpuOfTick' /\ DestroyedOnce'
  BY <1>2 DEF JobsInv, HeldIsStaged, TickIsApart, GpuOfTick, DestroyedOnce, Pending
<1>5. WithinCap'
  <2>1. Unhanded' = Unhanded
    BY <1>2 DEF Unhanded
  <2>. QED
    BY <1>1, <2>1, UnhandedIsFinite DEF JobsInv, JobTypeOK, WithinCap, ScreenshotAssumption
<1>6. HookOfCaller' /\ UnhookedIsClean'
  BY <1>2 DEF JobsInv, HookOfCaller, UnhookedIsClean
<1>7. InFlightIsQueued'
  BY <1>1 DEF JobsInv, JobTypeOK, InFlightIsQueued
<1>. QED
  BY <1>3, <1>4, <1>5, <1>6, <1>7 DEF JobsInv

(* Steps that change neither jobs nor objects. *)
LEMMA OtherStepsKeep ==
    ASSUME ScreenshotAssumption, JobsInv, EncoderExits \/ ShutdownBegins \/ Unhook \/ StopEncoder
    PROVE  JobsInv'
<1>. USE DEF EncoderExits, ShutdownBegins, Unhook, StopEncoder, jobVars, hookVars, encoderVars
<1>1. JobTypeOK'
  BY DEF JobsInv, JobTypeOK, Known
<1>2. HeldIsStaged' /\ TickIsApart' /\ GpuOfTick' /\ DestroyedOnce' /\ WithinCap'
  BY SameJobs
<1>3. HookOfCaller' /\ UnhookedIsClean'
  BY DEF JobsInv, HookOfCaller, UnhookedIsClean
<1>4. InFlightIsQueued'
  BY DEF JobsInv, InFlightIsQueued
<1>. QED
  BY <1>1, <1>2, <1>3, <1>4 DEF JobsInv

(* The shutdown forgets the jobs and destroys what they held. *)
LEMMA ClearKeeps ==
    ASSUME ScreenshotAssumption, JobsInv, Clear
    PROVE  JobsInv'
<1>1. /\ caller = "join" /\ encoder = "none" /\ ~hooked /\ tick = IdleTick /\ ~registered
      /\ queue' = <<>> /\ inFlight' = 0 /\ jobs' = <<>>
      /\ abandoned' = {} /\ busy' = {} /\ held' = {}
      /\ gpu' = Destroyed(held) /\ caller' = "idle"
      /\ UNCHANGED <<nextId, registered, hooked, tick, encoderVars, answer>>
  BY DEF Clear, JobsInv, HookOfCaller, TickIsApart
<1>2. Known' = {} /\ jobs' \in [{} -> Jobs]
  BY <1>1 DEF Known
<1>3. \A j \in JobIds : gpu'[j] = IF j \in held THEN "gone" ELSE gpu[j]
  BY <1>1 DEF Destroyed, JobsInv, DestroyedOnce, IdleTick
<1>4. JobTypeOK'
  <2>1. gpu' \in [JobIds -> {"none", "live", "gone", "twice"}]
    BY <1>1, <1>3 DEF Destroyed, JobsInv, JobTypeOK
  <2>. QED
    BY <1>1, <1>2, <2>1 DEF JobsInv, JobTypeOK, encoderVars, ScreenshotAssumption
<1>5. HeldIsStaged' /\ TickIsApart' /\ GpuOfTick'
  BY <1>1, <1>2 DEF JobsInv, HeldIsStaged, TickIsApart, GpuOfTick, IdleTick
<1>6. \A j \in JobIds : gpu'[j] # "live" /\ gpu'[j] # "twice"
  BY <1>1, <1>3 DEF JobsInv, DestroyedOnce, IdleTick
<1>7. DestroyedOnce' /\ UnhookedIsClean' /\ HookOfCaller'
  BY <1>1, <1>2, <1>6 DEF JobsInv, DestroyedOnce, UnhookedIsClean, HookOfCaller, encoderVars
<1>8. InFlightIsQueued'
  BY <1>1 DEF JobsInv, InFlightIsQueued, encoderVars
<1>9. WithinCap'
  <2>1. Unhanded' = {}
    BY <1>2 DEF Unhanded
  <2>. QED
    BY <1>1, <2>1, FS_EmptySet DEF WithinCap, ScreenshotAssumption
<1>. QED
  BY <1>4, <1>5, <1>7, <1>8, <1>9 DEF JobsInv

-----------------------------------------------------------------------------
LEMMA JobsInvInit == ScreenshotAssumption /\ ScreenshotInit => JobsInv
<1>. SUFFICES ASSUME ScreenshotAssumption, ScreenshotInit PROVE JobsInv
  OBVIOUS
<1>. USE DEF ScreenshotInit
<1>1. Known = {} /\ jobs \in [{} -> Jobs]
  BY DEF Known
<1>2. JobTypeOK
  <2>1. tick \in [pc : {"idle", "render", "commit"}, doomed : SUBSET JobIds, stage : SUBSET JobIds,
                  map : SUBSET JobIds, done : SUBSET JobIds]
    BY DEF IdleTick
  <2>2. queue \in Seq(JobIds)
    OBVIOUS
  <2>3. nextId \in 1..(MaxJobs + 1) /\ inFlight \in 0..MaxActive
    BY DEF ScreenshotAssumption
  <2>4. /\ gpu \in [JobIds -> {"none", "live", "gone", "twice"}]
        /\ answer \in [JobIds -> {"none", "Pending", "Done", "Failed"}]
    OBVIOUS
  <2>. QED
    BY <1>1, <2>1, <2>2, <2>3, <2>4 DEF JobTypeOK, NoJob
<1>3. HeldIsStaged /\ TickIsApart /\ GpuOfTick /\ DestroyedOnce
  BY <1>1 DEF HeldIsStaged, TickIsApart, GpuOfTick, DestroyedOnce, IdleTick
<1>4. HookOfCaller /\ UnhookedIsClean /\ InFlightIsQueued
  BY <1>1 DEF HookOfCaller, UnhookedIsClean, InFlightIsQueued, IdleTick
<1>5. WithinCap
  <2>1. Unhanded = {}
    BY <1>1 DEF Unhanded
  <2>. QED
    BY <2>1, FS_EmptySet DEF WithinCap, ScreenshotAssumption
<1>. QED
  BY <1>2, <1>3, <1>4, <1>5 DEF JobsInv

LEMMA JobsInvStep == ScreenshotAssumption /\ JobsInv /\ [ScreenshotNext]_shotVars => JobsInv'
<1>. SUFFICES ASSUME ScreenshotAssumption, JobsInv, [ScreenshotNext]_shotVars PROVE JobsInv'
  OBVIOUS
<1>1. CASE \E n \in 1..MaxActive : Submit(n) \/ SubmitRejected(n)
  BY <1>1, SubmitKeeps, SubmitRejectedKeeps
<1>2. CASE Hook \/ (\E j \in Known : JobsAge(j)) \/ (\E j \in JobIds : Query(j))
  BY <1>2, HookKeeps, TimePassesKeeps, QueryKeeps
<1>3. CASE RunTick
  BY <1>3, TickCollectsKeeps, TickRendersKeeps, TickCommitsKeeps DEF RunTick
<1>4. CASE Encoder \/ Shutdown
  BY <1>4, EncodeTakeKeeps, EncodeDoneKeeps, OtherStepsKeep, ClearKeeps DEF Encoder, Shutdown
<1>5. CASE UNCHANGED shotVars
  <2>. USE <1>5 DEF shotVars, jobVars, hookVars, encoderVars
  <2>1. JobTypeOK'
    BY DEF JobsInv, JobTypeOK, Known
  <2>2. HeldIsStaged' /\ TickIsApart' /\ GpuOfTick' /\ DestroyedOnce' /\ WithinCap'
    BY SameJobs
  <2>3. HookOfCaller' /\ UnhookedIsClean' /\ InFlightIsQueued'
    BY DEF JobsInv, HookOfCaller, UnhookedIsClean, InFlightIsQueued, Known
  <2>. QED
    BY <2>1, <2>2, <2>3 DEF JobsInv
<1>. QED
  BY <1>1, <1>2, <1>3, <1>4, <1>5 DEF ScreenshotNext

LEMMA JobsInvariance == ScreenshotSpec => []JobsInv
<1>1. ScreenshotInit => JobsInv
  BY JobsInvInit, ScreenshotAssumption
<1>2. JobsInv /\ [ScreenshotNext]_shotVars => JobsInv'
  BY JobsInvStep, ScreenshotAssumption
<1>. QED
  BY <1>1, <1>2, PTL DEF ScreenshotSpec

-----------------------------------------------------------------------------
(* The manager's variables have their types; the encodes in flight never      *)
(* exceed the cap and never go below zero.                                   *)
THEOREM ScreenshotTypes == ScreenshotSpec => []JobTypeOK
  BY JobsInvariance, PTL DEF JobsInv

(* Whatever the tick, the encoder, deadlines and a shutdown do in between,    *)
(* GPU objects are destroyed exactly once, somebody is going to destroy those *)
(* that live, and nothing is left when the callback is gone.                 *)
THEOREM GpuObjectsOwned == ScreenshotSpec => []GpuOwned
  BY JobsInvariance, PTL DEF JobsInv, GpuOwned

(* Encodes in flight and jobs that may still be handed to the encoder never   *)
(* exceed kMaxActiveJobs together, however jobs are given up and pruned.      *)
THEOREM CapKept == ScreenshotSpec => []WithinCap
  BY JobsInvariance, PTL DEF JobsInv

-----------------------------------------------------------------------------
(* Displays and the canvases they show.                                       *)

Displays == 1..MaxDisplays

Steps == {"idle", "use", "detach", "delete", "remove", "record", "end", "set", "skip"}
Results == {"none", "removed", "reinitialization_failed", "refused", "failed"}

Objects == [state : {"new", "alive", "deleted"}, canvas : SUBSET Pointers, hooked : BOOLEAN]
Calls == [at : Steps, id : SUBSET Ids, canvas : SUBSET Pointers, video : SUBSET Videos,
          doomed : SUBSET Displays, used : SUBSET Displays, result : Results]

TypeOK ==
    /\ displays \in [Keys -> Displays \cup {0}]
    /\ object \in [Displays -> Objects]
    /\ contexts \in [Ids -> SUBSET Pointers]
    /\ live \in SUBSET Pointers
    /\ running \in [Pointers -> SUBSET Videos]
    /\ lastApplied \in [Pointers -> SUBSET Videos]
    /\ removing \in BOOLEAN /\ detaching \in BOOLEAN /\ shuttingDown \in BOOLEAN
    /\ call \in [Callers -> Calls]
    /\ drawn \in Displays \cup {0}

At(c, steps) == call[c].at \in steps

\* Displays are made in the order of their numbers.
MadeInOrder == \E n \in 0..MaxDisplays : \A d \in Displays : object[d].state = "new" <=> d > n

\* What the three flags say of the calls.
FlagOfCall ==
    /\ \A c \in Callers : At(c, {"remove", "record", "end"}) => removing /\ ~detaching
    /\ \A c \in Callers : At(c, {"detach", "delete"}) => detaching
    /\ detaching => shuttingDown /\ ~removing

\* One call removes a canvas or changes its settings; one detaches displays;
\* none uses a display then.
OneAtATime ==
    /\ \A c, b \in Callers :
          At(c, {"remove", "record", "end", "set", "skip"}) /\ At(b, {"remove", "record", "end", "set", "skip"})
          => c = b
    /\ \A c, b \in Callers : At(c, {"detach", "delete"}) /\ At(b, {"detach", "delete"}) => c = b
    /\ \A c \in Callers : At(c, {"use"}) => ~detaching

\* What a call holds belongs to its step.
HeldInStep ==
    \A c \in Callers :
        /\ call[c].doomed # {} => At(c, {"detach", "delete"})
        /\ call[c].doomed \subseteq Alive
        /\ call[c].used # {} => At(c, {"use"})
        /\ call[c].used \subseteq Alive

\* A display is alive with its callback, or has neither canvas nor callback.
ObjectIsWhole ==
    \A d \in Displays : object[d].state # "alive" => object[d].canvas = {} /\ ~object[d].hooked

\* Registered displays are alive, under one key; the others alive are being deleted.
Registered ==
    /\ \A k \in Keys : displays[k] # 0 => displays[k] \in Alive
    /\ \A j, k \in Keys : displays[j] = displays[k] /\ displays[j] # 0 => j = k
    /\ \A d \in Alive : \/ \E k \in Keys : displays[k] = d
                        \/ \E c \in Callers : At(c, {"delete"}) /\ d \in call[c].doomed
    /\ \A c \in Callers, k \in Keys : At(c, {"delete"}) => displays[k] \notin call[c].doomed

Gone == {"removed", "reinitialization_failed"}

\* A canvas has one id, and libobs knows it until it is removed.
ManagedIsLive ==
    /\ \A i \in Ids : \A p, q \in contexts[i] : p = q
    /\ \A i, j \in Ids : contexts[i] \cap contexts[j] # {} => i = j
    /\ \A i \in Ids : \A p \in contexts[i] \ live :
          \E c \in Callers : At(c, {"record"}) /\ call[c].result \in Gone /\ call[c].canvas = {p}

\* What is removed is the canvas of the id, and no display draws it.
RemovedIsUnused ==
    \A c \in Callers : At(c, {"remove", "record"}) =>
        /\ \E i \in Ids : call[c].id = {i} /\ call[c].canvas = contexts[i] /\ contexts[i] # {}
        /\ \A d \in Alive : object[d].canvas \cap call[c].canvas = {}

\* What was applied last runs, unless a removal that failed is about to say so;
\* an address nobody manages has been forgotten.
AppliedRuns ==
    /\ \A p \in Pointers : lastApplied[p] # {} =>
          \/ running[p] = lastApplied[p]
          \/ \E c \in Callers : At(c, {"record"}) /\ call[c].result \in {"reinitialization_failed", "failed"}
    /\ \A p \in Pointers : lastApplied[p] # {} => \E i \in Ids : p \in contexts[i]
    /\ \A c \in Callers : At(c, {"set", "skip"}) => \A p \in call[c].canvas : \E i \in Ids : p \in contexts[i]

FrameIsAlive == drawn # 0 => drawn \in Alive /\ object[drawn].hooked

CanvasIsLive == \A d \in Alive : object[d].canvas \subseteq live

\* A display draws at most one canvas.
OneCanvas == \A d \in Displays : \A p, q \in object[d].canvas : p = q

DisplayInv ==
    /\ TypeOK
    /\ MadeInOrder /\ FlagOfCall /\ OneAtATime /\ HeldInStep
    /\ ObjectIsWhole /\ Registered /\ ManagedIsLive /\ RemovedIsUnused
    /\ AppliedRuns /\ FrameIsAlive /\ CanvasIsLive /\ OneCanvas /\ SkippedIsApplied

Others(c) == \A b \in Callers \ {c} : call'[b] = call[b]

-----------------------------------------------------------------------------
(* What a step leaves alone keeps the parts that speak of nothing else. *)
LEMMA Frames ==
    ASSUME DisplayInv
    PROVE  /\ UNCHANGED object => MadeInOrder' /\ ObjectIsWhole' /\ OneCanvas'
           /\ UNCHANGED <<object, drawn>> => FrameIsAlive'
           /\ UNCHANGED <<object, live>> => CanvasIsLive'
           /\ UNCHANGED <<call, gateVars>> => FlagOfCall' /\ OneAtATime'
           /\ UNCHANGED <<call, object>> => HeldInStep'
           /\ UNCHANGED <<displays, object, call>> => Registered'
           /\ UNCHANGED <<contexts, live, call>> => ManagedIsLive'
           /\ UNCHANGED <<call, contexts, object>> => RemovedIsUnused'
           /\ UNCHANGED <<call, canvasVars>> => AppliedRuns' /\ SkippedIsApplied'
<1>. USE DEF DisplayInv, At, Alive
<1>1. UNCHANGED object => MadeInOrder' /\ ObjectIsWhole' /\ OneCanvas'
  BY DEF MadeInOrder, ObjectIsWhole, OneCanvas
<1>2. UNCHANGED <<object, drawn>> => FrameIsAlive'
  BY DEF FrameIsAlive
<1>3. UNCHANGED <<object, live>> => CanvasIsLive'
  BY DEF CanvasIsLive
<1>4. UNCHANGED <<call, gateVars>> => FlagOfCall' /\ OneAtATime'
  BY DEF FlagOfCall, OneAtATime, gateVars
<1>5. UNCHANGED <<call, object>> => HeldInStep'
  BY DEF HeldInStep
<1>6. UNCHANGED <<displays, object, call>> => Registered'
  BY DEF Registered
<1>7. UNCHANGED <<contexts, live, call>> => ManagedIsLive'
  BY DEF ManagedIsLive
<1>8. UNCHANGED <<call, contexts, object>> => RemovedIsUnused'
  BY DEF RemovedIsUnused
<1>9. UNCHANGED <<call, canvasVars>> => AppliedRuns' /\ SkippedIsApplied'
  BY DEF AppliedRuns, SkippedIsApplied, canvasVars
<1>. QED
  BY <1>1, <1>2, <1>3, <1>4, <1>5, <1>6, <1>7, <1>8, <1>9

(* What a call that returns leaves behind. *)
LEMMA CallReturns ==
    ASSUME DisplayInv, NEW c \in Callers, Returns(c)
    PROVE  /\ call' \in [Callers -> Calls]
           /\ (detaching' => detaching) => OneAtATime'
           /\ UNCHANGED object => HeldInStep'
           /\ UNCHANGED <<displays, object>> /\ call[c].doomed = {} => Registered'
           /\ UNCHANGED <<contexts, live>> /\ ~At(c, {"record"}) => ManagedIsLive'
           /\ UNCHANGED <<contexts, object>> => RemovedIsUnused'
           /\ UNCHANGED canvasVars /\ ~At(c, {"record"}) => AppliedRuns' /\ SkippedIsApplied'
<1>1. call \in [Callers -> Calls]
  BY DEF DisplayInv, TypeOK
<1>2. IdleCall \in Calls
  BY DEF IdleCall, Calls, Steps, Results
<1>3. call' \in [Callers -> Calls]
  BY <1>1, <1>2 DEF Returns
<1>4. /\ call'[c].at = "idle" /\ call'[c].doomed = {} /\ call'[c].used = {}
      /\ Others(c)
  BY <1>1 DEF Returns, Others, IdleCall
<1>5. (detaching' => detaching) => OneAtATime'
  BY <1>4 DEF DisplayInv, OneAtATime, At, Others
<1>6. UNCHANGED object => HeldInStep'
  BY <1>4 DEF DisplayInv, HeldInStep, At, Others, Alive
<1>7. UNCHANGED <<displays, object>> /\ call[c].doomed = {} => Registered'
  BY <1>4 DEF DisplayInv, Registered, At, Others, Alive
<1>8. UNCHANGED <<contexts, live>> /\ ~At(c, {"record"}) => ManagedIsLive'
  BY <1>4 DEF DisplayInv, ManagedIsLive, At, Others
<1>9. UNCHANGED <<contexts, object>> => RemovedIsUnused'
  BY <1>4 DEF DisplayInv, RemovedIsUnused, At, Others, Alive
<1>10. UNCHANGED canvasVars /\ ~At(c, {"record"}) => AppliedRuns' /\ SkippedIsApplied'
  BY <1>4 DEF DisplayInv, AppliedRuns, SkippedIsApplied, At, Others, canvasVars
<1>. QED
  BY <1>3, <1>5, <1>6, <1>7, <1>8, <1>9, <1>10

(* A call is done with a display. *)
LEMMA EndUseKeeps ==
    ASSUME DisplayInv, NEW c \in Callers, EndUse(c)
    PROVE  DisplayInv'
<1>1. UNCHANGED <<displayVars, canvasVars, gateVars>> /\ Returns(c) /\ At(c, {"use"})
  BY DEF EndUse, At
<1>2. call[c].doomed = {} /\ ~At(c, {"record"})
  BY <1>1 DEF DisplayInv, HeldInStep, At
<1>3. TypeOK'
  BY <1>1, CallReturns DEF DisplayInv, TypeOK, displayVars, canvasVars, gateVars
<1>4. MadeInOrder' /\ ObjectIsWhole' /\ FrameIsAlive' /\ CanvasIsLive' /\ OneCanvas'
  BY <1>1, Frames DEF displayVars, canvasVars
<1>5. FlagOfCall'
  BY <1>1 DEF DisplayInv, TypeOK, FlagOfCall, At, Returns, IdleCall, gateVars
<1>6. /\ OneAtATime' /\ HeldInStep' /\ Registered' /\ ManagedIsLive'
      /\ RemovedIsUnused' /\ AppliedRuns' /\ SkippedIsApplied'
  BY <1>1, <1>2, CallReturns DEF displayVars, canvasVars, gateVars
<1>. QED
  BY <1>3, <1>4, <1>5, <1>6 DEF DisplayInv

(* Settings are not applied again. *)
LEMMA SkipVideoKeeps ==
    ASSUME DisplayInv, NEW c \in Callers, SkipVideo(c)
    PROVE  DisplayInv'
<1>1. UNCHANGED <<displayVars, canvasVars, gateVars>> /\ Returns(c) /\ At(c, {"skip"})
  BY DEF SkipVideo, At
<1>2. call[c].doomed = {} /\ ~At(c, {"record"})
  BY <1>1 DEF DisplayInv, HeldInStep, At
<1>3. TypeOK'
  BY <1>1, CallReturns DEF DisplayInv, TypeOK, displayVars, canvasVars, gateVars
<1>4. MadeInOrder' /\ ObjectIsWhole' /\ FrameIsAlive' /\ CanvasIsLive' /\ OneCanvas'
  BY <1>1, Frames DEF displayVars, canvasVars
<1>5. FlagOfCall'
  BY <1>1 DEF DisplayInv, TypeOK, FlagOfCall, At, Returns, IdleCall, gateVars
<1>6. /\ OneAtATime' /\ HeldInStep' /\ Registered' /\ ManagedIsLive'
      /\ RemovedIsUnused' /\ AppliedRuns' /\ SkippedIsApplied'
  BY <1>1, <1>2, CallReturns DEF displayVars, canvasVars, gateVars
<1>. QED
  BY <1>3, <1>4, <1>5, <1>6 DEF DisplayInv

(* Displays have been detached or deleted. *)
LEMMA EndDetachKeeps ==
    ASSUME DisplayInv, NEW c \in Callers, EndDetach(c)
    PROVE  DisplayInv'
<1>1. /\ UNCHANGED <<displayVars, canvasVars, removing, shuttingDown>> /\ detaching' = FALSE
      /\ Returns(c) /\ At(c, {"detach", "delete"}) /\ call[c].doomed = {}
  BY DEF EndDetach, At
<1>2. TypeOK'
  BY <1>1, CallReturns DEF DisplayInv, TypeOK, displayVars, canvasVars
<1>3. MadeInOrder' /\ ObjectIsWhole' /\ FrameIsAlive' /\ CanvasIsLive' /\ OneCanvas'
  BY <1>1, Frames DEF displayVars, canvasVars
<1>4. FlagOfCall'
  BY <1>1 DEF DisplayInv, TypeOK, FlagOfCall, OneAtATime, At, Returns, IdleCall
<1>5. /\ OneAtATime' /\ HeldInStep' /\ Registered' /\ ManagedIsLive'
      /\ RemovedIsUnused' /\ AppliedRuns' /\ SkippedIsApplied'
  BY <1>1, CallReturns DEF displayVars, canvasVars, At
<1>. QED
  BY <1>2, <1>3, <1>4, <1>5 DEF DisplayInv

(* A canvas has been removed or has not. *)
LEMMA EndVideoContextRemovalKeeps ==
    ASSUME DisplayInv, NEW c \in Callers, EndVideoContextRemoval(c)
    PROVE  DisplayInv'
<1>1. /\ UNCHANGED <<displayVars, canvasVars, detaching, shuttingDown>> /\ removing' = FALSE
      /\ Returns(c) /\ At(c, {"end"})
  BY DEF EndVideoContextRemoval, At
<1>2. call[c].doomed = {}
  BY <1>1 DEF DisplayInv, HeldInStep, At
<1>3. TypeOK'
  BY <1>1, CallReturns DEF DisplayInv, TypeOK, displayVars, canvasVars
<1>4. MadeInOrder' /\ ObjectIsWhole' /\ FrameIsAlive' /\ CanvasIsLive' /\ OneCanvas'
  BY <1>1, Frames DEF displayVars, canvasVars
<1>5. FlagOfCall'
  BY <1>1 DEF DisplayInv, TypeOK, FlagOfCall, OneAtATime, At, Returns, IdleCall
<1>6. /\ OneAtATime' /\ HeldInStep' /\ Registered' /\ ManagedIsLive'
      /\ RemovedIsUnused' /\ AppliedRuns' /\ SkippedIsApplied'
  BY <1>1, <1>2, CallReturns DEF displayVars, canvasVars, At
<1>. QED
  BY <1>3, <1>4, <1>5, <1>6 DEF DisplayInv

(* A call takes a display under the mutex. *)
LEMMA BeginUseKeeps ==
    ASSUME DisplayInv, NEW c \in Callers, NEW k \in Keys, BeginUse(c, k)
    PROVE  DisplayInv'
<1>1. /\ UNCHANGED <<displayVars, canvasVars, gateVars>>
      /\ At(c, {"idle"}) /\ ~detaching
      /\ displays[k] \in Alive
  BY DEF BeginUse, Locks, Begins, AcceptsCalls, At, DisplayInv, FlagOfCall, Registered
<1>2. displays[k] \in Displays
  BY <1>1 DEF DisplayInv, TypeOK, Alive
<1>3. call' \in [Callers -> Calls]
  BY <1>2 DEF BeginUse, DisplayInv, TypeOK, Calls, IdleCall, Steps, Results
<1>4. /\ call'[c].at = "use" /\ call'[c].doomed = {} /\ call'[c].used = {displays[k]}
      /\ Others(c)
  BY DEF BeginUse, Others, IdleCall, DisplayInv, TypeOK
<1>5. TypeOK'
  BY <1>1, <1>3 DEF DisplayInv, TypeOK, displayVars, canvasVars, gateVars
<1>6. MadeInOrder' /\ ObjectIsWhole' /\ FrameIsAlive' /\ CanvasIsLive' /\ OneCanvas'
  BY <1>1, Frames DEF displayVars, canvasVars
<1>7. FlagOfCall'
  BY <1>1, <1>4 DEF DisplayInv, FlagOfCall, At, Others, gateVars
<1>8. OneAtATime'
  BY <1>1, <1>4 DEF DisplayInv, OneAtATime, At, Others, gateVars
<1>9. HeldInStep'
  BY <1>1, <1>4 DEF DisplayInv, HeldInStep, At, Others, Alive, displayVars
<1>10. Registered'
  BY <1>1, <1>4 DEF DisplayInv, Registered, At, Others, Alive, displayVars
<1>11. ManagedIsLive'
  BY <1>1, <1>4 DEF DisplayInv, ManagedIsLive, At, Others, canvasVars
<1>12. RemovedIsUnused'
  BY <1>1, <1>4 DEF DisplayInv, RemovedIsUnused, At, Others, Alive, displayVars, canvasVars
<1>13. AppliedRuns' /\ SkippedIsApplied'
  BY <1>1, <1>4 DEF DisplayInv, AppliedRuns, SkippedIsApplied, At, Others, canvasVars
<1>. QED
  BY <1>5, <1>6, <1>7, <1>8, <1>9, <1>10, <1>11, <1>12, <1>13 DEF DisplayInv

(* The displays that are alive are going to be detached. *)
LEMMA BeginDetachKeeps ==
    ASSUME DisplayInv, NEW c \in Callers, BeginDetach(c)
    PROVE  DisplayInv'
<1>1. /\ UNCHANGED <<displayVars, canvasVars, removing>> /\ shuttingDown' = TRUE /\ detaching' = TRUE
      /\ At(c, {"idle"}) /\ ~detaching /\ ~removing
      /\ \A b \in Callers : ~At(b, {"use"})
  BY DEF BeginDetach, Locks, Begins, Unlocked, GatesOpen, At
<1>2. Alive \subseteq Displays
  BY DEF DisplayInv, TypeOK, Alive
<1>3. call' \in [Callers -> Calls]
  BY <1>2 DEF BeginDetach, DisplayInv, TypeOK, Calls, IdleCall, Steps, Results
<1>4. /\ call'[c].at = "detach" /\ call'[c].doomed = Alive /\ call'[c].used = {}
      /\ Others(c)
  BY DEF BeginDetach, Others, IdleCall, DisplayInv, TypeOK
<1>5. TypeOK'
  BY <1>1, <1>3 DEF DisplayInv, TypeOK, displayVars, canvasVars
<1>6. MadeInOrder' /\ ObjectIsWhole' /\ FrameIsAlive' /\ CanvasIsLive' /\ OneCanvas'
  BY <1>1, Frames DEF displayVars, canvasVars
<1>7. FlagOfCall'
  BY <1>1, <1>4 DEF DisplayInv, FlagOfCall, At, Others
<1>8. OneAtATime'
  BY <1>1, <1>4 DEF DisplayInv, FlagOfCall, OneAtATime, At, Others
<1>9. HeldInStep'
  BY <1>1, <1>4 DEF DisplayInv, HeldInStep, At, Others, Alive, displayVars
<1>10. Registered'
  BY <1>1, <1>4 DEF DisplayInv, Registered, At, Others, Alive, displayVars
<1>11. ManagedIsLive'
  BY <1>1, <1>4 DEF DisplayInv, ManagedIsLive, At, Others, canvasVars
<1>12. RemovedIsUnused'
  BY <1>1, <1>4 DEF DisplayInv, RemovedIsUnused, At, Others, Alive, displayVars, canvasVars
<1>13. AppliedRuns' /\ SkippedIsApplied'
  BY <1>1, <1>4 DEF DisplayInv, AppliedRuns, SkippedIsApplied, At, Others, canvasVars
<1>. QED
  BY <1>5, <1>6, <1>7, <1>8, <1>9, <1>10, <1>11, <1>12, <1>13 DEF DisplayInv

(* The displays that are alive are going to be deleted. *)
LEMMA BeginShutdownKeeps ==
    ASSUME DisplayInv, NEW c \in Callers, BeginShutdown(c)
    PROVE  DisplayInv'
<1>1. /\ UNCHANGED <<object, drawn, canvasVars, removing>> /\ shuttingDown' = TRUE /\ detaching' = TRUE
      /\ displays' = [k \in Keys |-> 0]
      /\ At(c, {"idle"}) /\ ~detaching /\ ~removing
      /\ \A b \in Callers : ~At(b, {"use"})
  BY DEF BeginShutdown, Locks, Begins, Unlocked, GatesOpen, At
<1>2. Alive \subseteq Displays
  BY DEF DisplayInv, TypeOK, Alive
<1>3. call' \in [Callers -> Calls]
  BY <1>2 DEF BeginShutdown, DisplayInv, TypeOK, Calls, IdleCall, Steps, Results
<1>4. /\ call'[c].at = "delete" /\ call'[c].doomed = Alive /\ call'[c].used = {}
      /\ Others(c)
  BY DEF BeginShutdown, Others, IdleCall, DisplayInv, TypeOK
<1>5. TypeOK'
  BY <1>1, <1>3 DEF DisplayInv, TypeOK, canvasVars
<1>6. MadeInOrder' /\ ObjectIsWhole' /\ FrameIsAlive' /\ CanvasIsLive' /\ OneCanvas'
  BY <1>1, Frames DEF canvasVars
<1>7. FlagOfCall'
  BY <1>1, <1>4 DEF DisplayInv, FlagOfCall, At, Others
<1>8. OneAtATime'
  BY <1>1, <1>4 DEF DisplayInv, FlagOfCall, OneAtATime, At, Others
<1>9. HeldInStep'
  BY <1>1, <1>4 DEF DisplayInv, HeldInStep, At, Others, Alive
<1>10. Registered'
  <2>1. Alive' = Alive /\ \A k \in Keys : displays'[k] = 0
    BY <1>1 DEF Alive
  <2>2. \A b \in Callers : At(b, {"delete"})' => b = c
    BY <1>1, <1>4 DEF DisplayInv, FlagOfCall, At, Others
  <2>3. 0 \notin Alive /\ At(c, {"delete"})'
    BY <1>2, <1>4 DEF Displays, At
  <2>. QED
    BY <1>4, <2>1, <2>2, <2>3 DEF Registered
<1>11. ManagedIsLive'
  BY <1>1, <1>4 DEF DisplayInv, ManagedIsLive, At, Others, canvasVars
<1>12. RemovedIsUnused'
  BY <1>1, <1>4 DEF DisplayInv, RemovedIsUnused, At, Others, Alive, canvasVars
<1>13. AppliedRuns' /\ SkippedIsApplied'
  BY <1>1, <1>4 DEF DisplayInv, AppliedRuns, SkippedIsApplied, At, Others, canvasVars
<1>. QED
  BY <1>5, <1>6, <1>7, <1>8, <1>9, <1>10, <1>11, <1>12, <1>13 DEF DisplayInv

(* A canvas that no display draws is going to be removed. *)
LEMMA BeginRemovalKeeps ==
    ASSUME DisplayInv, NEW c \in Callers, NEW i \in Ids, BeginRemoval(c, i)
    PROVE  DisplayInv'
<1>1. /\ UNCHANGED <<displayVars, canvasVars, detaching, shuttingDown>> /\ removing' = TRUE
      /\ At(c, {"idle"}) /\ ~detaching /\ ~removing
      /\ \A b \in Callers : ~At(b, {"set", "skip"})
  BY DEF BeginRemoval, Locks, Begins, GatesOpen, NoSetter, At
<1>2. PICK p \in contexts[i] :
            /\ ~InUse(p)
            /\ call' = [call EXCEPT
                            ![c] = [IdleCall EXCEPT !.at = "remove", !.id = {i}, !.canvas = {p}]]
  BY DEF BeginRemoval
<1>3. p \in Pointers /\ contexts[i] = {p}
  BY DEF DisplayInv, TypeOK, ManagedIsLive
<1>4. call' \in [Callers -> Calls]
  BY <1>2, <1>3 DEF DisplayInv, TypeOK, Calls, IdleCall, Steps, Results
<1>5. /\ call'[c].at = "remove" /\ call'[c].id = {i} /\ call'[c].canvas = {p}
      /\ call'[c].doomed = {} /\ call'[c].used = {}
      /\ Others(c)
  BY <1>2 DEF Others, IdleCall, DisplayInv, TypeOK
<1>6. \A d \in Alive : object[d].canvas \cap {p} = {}
  <2>1. SUFFICES ASSUME NEW d \in Alive, p \in object[d].canvas
                 PROVE  FALSE
    OBVIOUS
  <2>2. PICK k \in Keys : displays[k] = d
    BY <1>1 DEF DisplayInv, Registered, FlagOfCall, At
  <2>3. d \in Displays /\ object[d].canvas \subseteq live
    BY DEF DisplayInv, TypeOK, Alive, CanvasIsLive
  <2>4. object[d].canvas = {p}
    BY <2>1, <2>3 DEF DisplayInv, OneCanvas
  <2>. QED
    BY <1>2, <2>2, <2>3, <2>4 DEF InUse, Displays
<1>7. TypeOK'
  BY <1>1, <1>4 DEF DisplayInv, TypeOK, displayVars, canvasVars
<1>8. MadeInOrder' /\ ObjectIsWhole' /\ FrameIsAlive' /\ CanvasIsLive' /\ OneCanvas'
  BY <1>1, Frames DEF displayVars, canvasVars
<1>9. FlagOfCall'
  BY <1>1, <1>5 DEF DisplayInv, FlagOfCall, At, Others
<1>10. OneAtATime'
  BY <1>1, <1>5 DEF DisplayInv, FlagOfCall, OneAtATime, At, Others
<1>11. HeldInStep'
  BY <1>1, <1>5 DEF DisplayInv, HeldInStep, At, Others, Alive, displayVars
<1>12. Registered'
  BY <1>1, <1>5 DEF DisplayInv, Registered, At, Others, Alive, displayVars
<1>13. ManagedIsLive'
  BY <1>1, <1>5 DEF DisplayInv, ManagedIsLive, At, Others, canvasVars
<1>14. RemovedIsUnused'
  <2>1. Alive' = Alive /\ object' = object /\ contexts' = contexts
    BY <1>1 DEF Alive, displayVars, canvasVars
  <2>2. ASSUME NEW b \in Callers, At(b, {"remove", "record"})'
        PROVE  /\ \E j \in Ids : call'[b].id = {j} /\ call'[b].canvas = contexts[j] /\ contexts[j] # {}
               /\ \A d \in Alive : object[d].canvas \cap call'[b].canvas = {}
    <3>1. CASE b = c
      BY <1>3, <1>5, <1>6, <3>1
    <3>2. CASE b # c
      BY <1>5, <2>2, <3>2 DEF DisplayInv, RemovedIsUnused, At, Others
    <3>. QED
      BY <3>1, <3>2
  <2>. QED
    BY <2>1, <2>2 DEF RemovedIsUnused
<1>15. AppliedRuns' /\ SkippedIsApplied'
  BY <1>1, <1>5 DEF DisplayInv, AppliedRuns, SkippedIsApplied, At, Others, canvasVars
<1>. QED
  BY <1>7, <1>8, <1>9, <1>10, <1>11, <1>12, <1>13, <1>14, <1>15 DEF DisplayInv

(* Settings are going to be applied, or are the ones applied last. *)
LEMMA SetVideoContextKeeps ==
    ASSUME DisplayInv, NEW c \in Callers, NEW i \in Ids, NEW v \in Videos, SetVideoContext(c, i, v)
    PROVE  DisplayInv'
<1>1. /\ UNCHANGED <<displayVars, canvasVars, gateVars>>
      /\ At(c, {"idle"})
      /\ \A b \in Callers : At(b, {"idle", "detach", "delete", "use"})
  BY DEF SetVideoContext, Begins, Quiet, At
<1>2. PICK p \in contexts[i] :
         call' = [call EXCEPT ![c] = [IdleCall EXCEPT !.at = IF VideoInfoUnchanged(p, v) THEN "skip" ELSE "set",
                                                  !.canvas = {p}, !.video = {v}]]
  BY DEF SetVideoContext
<1>3. p \in Pointers
  BY DEF DisplayInv, TypeOK
<1>4. call' \in [Callers -> Calls]
  BY ZenonT(30), <1>2, <1>3 DEF DisplayInv, TypeOK, Calls, IdleCall, Steps, Results
<1>5. /\ call'[c].at = (IF VideoInfoUnchanged(p, v) THEN "skip" ELSE "set")
      /\ call'[c].canvas = {p} /\ call'[c].video = {v}
      /\ call'[c].doomed = {} /\ call'[c].used = {}
      /\ Others(c)
  BY <1>2 DEF Others, IdleCall, DisplayInv, TypeOK
<1>6. At(c, {"set", "skip"})'
  BY <1>5 DEF At
<1>7. TypeOK'
  BY <1>1, <1>4 DEF DisplayInv, TypeOK, displayVars, canvasVars, gateVars
<1>8. MadeInOrder' /\ ObjectIsWhole' /\ FrameIsAlive' /\ CanvasIsLive' /\ OneCanvas'
  BY <1>1, Frames DEF displayVars, canvasVars
<1>9. FlagOfCall'
  BY <1>1, <1>5, <1>6 DEF DisplayInv, FlagOfCall, At, Others, gateVars
<1>10. OneAtATime'
  BY <1>1, <1>5, <1>6 DEF DisplayInv, OneAtATime, At, Others, gateVars
<1>11. HeldInStep'
  BY <1>1, <1>5, <1>6 DEF DisplayInv, HeldInStep, At, Others, Alive, displayVars
<1>12. Registered'
  BY <1>1, <1>5, <1>6 DEF DisplayInv, Registered, At, Others, Alive, displayVars
<1>13. ManagedIsLive' /\ RemovedIsUnused'
  BY <1>1, <1>5, <1>6 DEF DisplayInv, ManagedIsLive, RemovedIsUnused, At, Others, Alive,
     displayVars,
     canvasVars
<1>14. AppliedRuns'
  BY <1>1, <1>2, <1>5, <1>6 DEF DisplayInv, AppliedRuns, At, Others, canvasVars
<1>15. SkippedIsApplied'
  <2>1. running' = running
    BY <1>1 DEF canvasVars
  <2>2. ASSUME At(c, {"skip"})' PROVE running[p] = {v}
    <3>1. lastApplied[p] = {v}
      BY <1>5, <2>2 DEF VideoInfoUnchanged, At
    <3>. QED
      BY <1>1, <1>3, <3>1 DEF DisplayInv, AppliedRuns, At
  <2>. QED
    BY ZenonT(30), <1>5, <2>1, <2>2 DEF DisplayInv, SkippedIsApplied, At, Others
<1>. QED
  BY <1>7, <1>8, <1>9, <1>10, <1>11, <1>12, <1>13, <1>14, <1>15 DEF DisplayInv
(* One object changes: what the others keep. *)
SameBut(d) == \A e \in Displays \ {d} : object'[e] = object[e]

(* A display is made. *)
LEMMA CreateDisplayKeeps ==
    ASSUME MaxDisplays \in Nat, DisplayInv, NEW c \in Callers, NEW k \in Keys,
           NEW i \in {{}} \cup {{j} : j \in Ids}, createDisplay(c, k, i)
    PROVE  DisplayInv'
<1>1. /\ UNCHANGED <<drawn, canvasVars, gateVars, call>>
      /\ ~removing /\ ~shuttingDown /\ displays[k] = 0 /\ Made < MaxDisplays
  BY DEF createDisplay, MayCreate
<1>2. PICK n \in 0..MaxDisplays : \A d \in Displays : object[d].state = "new" <=> d > n
  BY DEF DisplayInv, MadeInOrder
<1>3. Made = n
  <2>1. {d \in DOMAIN object : object[d].state # "new"} = 1..n
    BY <1>2 DEF DisplayInv, TypeOK, Displays
  <2>. QED
    <3>1. Cardinality(1..n) = n
      <4>1. n \in Nat
        BY <1>2
      <4>2. Cardinality(1..n) = IF 1 > n THEN 0 ELSE n - 1 + 1
        BY ONLY <4>1, FS_Interval
      <4>. QED
        BY ONLY <4>1, <4>2
    <3>. QED
      BY <2>1, <3>1 DEF Made
<1>4. n + 1 \in Displays /\ object[n + 1].state = "new"
  BY <1>1, <1>2, <1>3 DEF Displays
<1>5. PICK canvas \in (IF i = {} THEN {{}} ELSE {contexts[j] : j \in i} \ {{}}) :
         object' = [object EXCEPT ![n + 1] = [state |-> "alive", canvas |-> canvas, hooked |-> TRUE]]
  BY <1>3 DEF createDisplay
<1>6. canvas = {} \/ \E j \in Ids : canvas = contexts[j]
  BY <1>5
<1>7. \A j \in Ids : contexts[j] \subseteq live
  BY <1>1 DEF DisplayInv, ManagedIsLive, FlagOfCall, At
<1>8. canvas \in SUBSET Pointers /\ canvas \subseteq live /\ \A p, q \in canvas : p = q
  BY <1>6, <1>7 DEF DisplayInv, TypeOK, ManagedIsLive
<1>9. object' \in [Displays -> Objects]
  BY <1>4, <1>5, <1>8 DEF DisplayInv, TypeOK, Objects
<1>10. /\ object'[n + 1].state = "alive" /\ object'[n + 1].canvas = canvas /\ object'[n + 1].hooked
       /\ SameBut(n + 1)
  BY <1>4, <1>5 DEF DisplayInv, TypeOK, SameBut
<1>11. n + 1 \notin Alive /\ Alive' = Alive \cup {n + 1}
  BY <1>4, <1>9, <1>10 DEF DisplayInv, TypeOK, Alive, SameBut
<1>12. displays' = [displays EXCEPT ![k] = n + 1]
  BY <1>3 DEF createDisplay
<1>13. displays'[k] = n + 1 /\ \A j \in Keys \ {k} : displays'[j] = displays[j]
  BY <1>12 DEF DisplayInv, TypeOK
<1>14. TypeOK'
  BY <1>1, <1>4, <1>9, <1>12 DEF DisplayInv, TypeOK, canvasVars, gateVars
<1>15. MadeInOrder'
  <2>1. n + 1 \in 0..MaxDisplays
    BY <1>4 DEF Displays
  <2>2. \A d \in Displays : object'[d].state = "new" <=> d > n + 1
    BY <1>2, <1>10 DEF SameBut, Displays
  <2>. QED
    BY <2>1, <2>2 DEF MadeInOrder
<1>16. FlagOfCall' /\ OneAtATime' /\ ManagedIsLive'
  BY <1>1, Frames DEF canvasVars
<1>17. HeldInStep'
  BY <1>1, <1>11 DEF DisplayInv, HeldInStep, At
<1>18. ObjectIsWhole' /\ OneCanvas'
  BY <1>8, <1>10 DEF DisplayInv, ObjectIsWhole, OneCanvas, SameBut
<1>19. Registered'
  <2>1. \A j \in Keys : displays[j] # n + 1
    BY <1>4, <1>11 DEF DisplayInv, Registered, Displays
  <2>2. \A j \in Keys : displays'[j] # 0 => displays'[j] \in Alive'
    BY <1>11, <1>13 DEF DisplayInv, Registered
  <2>3. \A j, m \in Keys : displays'[j] = displays'[m] /\ displays'[j] # 0 => j = m
    BY <1>13, <2>1 DEF DisplayInv, Registered
  <2>4. \A d \in Alive' : \/ \E j \in Keys : displays'[j] = d
                          \/ \E b \in Callers : At(b, {"delete"})' /\ d \in call'[b].doomed
    <3>1. ASSUME NEW d \in Alive, NEW j \in Keys, displays[j] = d PROVE displays'[j] = d
      BY <1>1, <1>13, <3>1, <1>4 DEF DisplayInv, Alive, TypeOK, Displays
    <3>. QED
      BY <1>1, <1>11, <1>13, <3>1 DEF DisplayInv, Registered, At
  <2>5. \A b \in Callers : ~At(b, {"delete"})
    BY <1>1 DEF DisplayInv, FlagOfCall, At
  <2>. QED
    BY <1>1, <2>2, <2>3, <2>4, <2>5 DEF Registered, At
<1>20. RemovedIsUnused'
  BY <1>1 DEF DisplayInv, RemovedIsUnused, FlagOfCall, At
<1>21. AppliedRuns' /\ SkippedIsApplied'
  BY <1>1, Frames
<1>22. FrameIsAlive'
  BY <1>1, <1>10, <1>11 DEF DisplayInv, TypeOK, FrameIsAlive, SameBut, Alive
<1>23. CanvasIsLive'
  BY <1>1, <1>8, <1>10, <1>11 DEF DisplayInv, TypeOK, CanvasIsLive, SameBut, Alive, canvasVars
<1>. QED
  BY <1>14, <1>15, <1>16, <1>17, <1>18, <1>19, <1>20, <1>21, <1>22, <1>23 DEF DisplayInv

(* A display that no frame draws loses its canvas and its callback: what that *)
(* leaves of the parts that speak of displays.                               *)
LEMMA ObjectLoses ==
    ASSUME DisplayInv, NEW d \in Displays, d \in Alive, drawn # d, UNCHANGED <<drawn, live>>,
           object' = [object EXCEPT ![d] = Detached(@)] \/ object' = [object EXCEPT ![d] = Deleted(@)]
    PROVE  /\ object' \in [Displays -> Objects]
           /\ object'[d].canvas = {} /\ SameBut(d)
           /\ Alive' = Alive \/ Alive' = Alive \ {d}
           /\ (object' = [object EXCEPT ![d] = Detached(@)]) => Alive' = Alive
           /\ MadeInOrder' /\ ObjectIsWhole' /\ FrameIsAlive' /\ CanvasIsLive' /\ OneCanvas'
<1>1. /\ Detached(object[d]) \in Objects /\ Deleted(object[d]) \in Objects
      /\ Detached(object[d]).canvas = {} /\ Deleted(object[d]).canvas = {}
      /\ Detached(object[d]).hooked = FALSE /\ Deleted(object[d]).hooked = FALSE
      /\ Detached(object[d]).state = object[d].state /\ Deleted(object[d]).state = "deleted"
  <2>1. object[d] \in Objects
    BY DEF DisplayInv, TypeOK
  <2>2. Detached(object[d]) \in Objects
    BY <2>1 DEF Objects, Detached
  <2>3. /\ Detached(object[d]).state = object[d].state
        /\ Detached(object[d]).canvas = {}
        /\ Detached(object[d]).hooked = FALSE
    BY <2>1 DEF Objects, Detached
  <2>4. /\ Deleted(object[d]) \in Objects /\ Deleted(object[d]).state = "deleted"
        /\ Deleted(object[d]).canvas = Detached(object[d]).canvas
        /\ Deleted(object[d]).hooked = Detached(object[d]).hooked
    BY <2>2 DEF Objects, Deleted
  <2>. QED
    BY <2>2, <2>3, <2>4
<1>2. object' \in [Displays -> Objects]
  BY <1>1 DEF DisplayInv, TypeOK
<1>3. object[d].state = "alive" /\ object[d] \in Objects
  BY DEF DisplayInv, TypeOK, Alive
<1>4. /\ SameBut(d) /\ object'[d].canvas = {} /\ ~object'[d].hooked
      /\ object'[d].state \in {"alive", "deleted"}
      /\ (object' = [object EXCEPT ![d] = Detached(@)]) => object'[d].state = "alive"
  BY <1>1, <1>3 DEF DisplayInv, TypeOK, SameBut
<1>5. /\ Alive' = Alive \/ Alive' = Alive \ {d}
      /\ object'[d].state = "alive" => Alive' = Alive
  BY <1>2, <1>4 DEF DisplayInv, TypeOK, Alive, SameBut
<1>6. MadeInOrder'
  BY <1>3, <1>4 DEF DisplayInv, MadeInOrder, SameBut
<1>7. ObjectIsWhole' /\ OneCanvas'
  BY <1>4 DEF DisplayInv, ObjectIsWhole, OneCanvas, SameBut
<1>8. FrameIsAlive'
  BY <1>4, <1>5 DEF DisplayInv, TypeOK, FrameIsAlive, SameBut
<1>9. CanvasIsLive'
  BY <1>4, <1>5 DEF DisplayInv, TypeOK, CanvasIsLive, SameBut, Alive
<1>. QED
  BY <1>2, <1>4, <1>5, <1>6, <1>7, <1>8, <1>9

(* A display is destroyed: no call uses, detaches or deletes it. *)
LEMMA DestroyDisplayKeeps ==
    ASSUME DisplayInv, NEW c \in Callers, NEW k \in Keys, destroyDisplay(c, k)
    PROVE  DisplayInv'
<1>. DEFINE d == displays[k]
<1>1. /\ UNCHANGED <<drawn, canvasVars, gateVars, call>>
      /\ \A b \in Callers : ~At(b, {"use"})
      /\ ~shuttingDown /\ d # 0 /\ drawn # d
  BY DEF destroyDisplay, Locks, Unlocked, AcceptsCalls, CallbackDone, At
<1>2. d \in Displays /\ d \in Alive
  BY <1>1 DEF DisplayInv, TypeOK, Registered
<1>3. object' = [object EXCEPT ![d] = Deleted(@)]
  BY DEF destroyDisplay
<1>4. /\ object' \in [Displays -> Objects]
      /\ object'[d].canvas = {} /\ SameBut(d)
      /\ Alive' = Alive \/ Alive' = Alive \ {d}
      /\ MadeInOrder' /\ ObjectIsWhole' /\ FrameIsAlive' /\ CanvasIsLive' /\ OneCanvas'
  BY <1>1, <1>2, <1>3, ObjectLoses DEF canvasVars
<1>5. object'[d].state = "deleted"
  BY <1>2, <1>3 DEF DisplayInv, TypeOK, Objects, Deleted, Detached
<1>6. Alive' = Alive \ {d}
  BY <1>4, <1>5 DEF Alive
<1>7. displays'[k] = 0 /\ \A j \in Keys \ {k} : displays'[j] = displays[j]
  BY DEF destroyDisplay, DisplayInv, TypeOK
<1>8. \A b \in Callers : call[b].doomed = {} /\ call[b].used = {}
  BY <1>1 DEF DisplayInv, HeldInStep, FlagOfCall, At
<1>9. TypeOK'
  BY <1>1, <1>4 DEF DisplayInv, TypeOK, destroyDisplay, canvasVars, gateVars
<1>10. FlagOfCall' /\ OneAtATime' /\ ManagedIsLive' /\ AppliedRuns' /\ SkippedIsApplied'
  BY <1>1, Frames DEF canvasVars
<1>11. HeldInStep'
  BY <1>1, <1>8 DEF DisplayInv, HeldInStep, At
<1>12. Registered'
  BY <1>1, <1>6, <1>7, <1>8 DEF DisplayInv, Registered, At
<1>13. RemovedIsUnused'
  BY <1>1, <1>4, <1>6 DEF DisplayInv, TypeOK, RemovedIsUnused, At, SameBut, canvasVars, Alive
<1>. QED
  BY <1>4, <1>9, <1>10, <1>11, <1>12, <1>13 DEF DisplayInv

(* One of the displays to detach loses its canvas and its callback. *)
LEMMA DetachCanvasKeeps ==
    ASSUME DisplayInv, NEW c \in Callers, NEW d \in Displays, DetachCanvas(c, d)
    PROVE  DisplayInv'
<1>1. /\ UNCHANGED <<displays, drawn, canvasVars, gateVars>>
      /\ At(c, {"detach"}) /\ d \in call[c].doomed /\ drawn # d
      /\ object' = [object EXCEPT ![d] = Detached(@)]
      /\ call' = [call EXCEPT ![c].doomed = @ \ {d}]
  BY DEF DetachCanvas, CallbackDone, At
<1>2. d \in Alive
  BY <1>1 DEF DisplayInv, HeldInStep
<1>3. /\ object' \in [Displays -> Objects]
      /\ object'[d].canvas = {} /\ SameBut(d) /\ Alive' = Alive
      /\ MadeInOrder' /\ ObjectIsWhole' /\ FrameIsAlive' /\ CanvasIsLive' /\ OneCanvas'
  BY <1>1, <1>2, ObjectLoses DEF canvasVars
<1>4. call' \in [Callers -> Calls]
  BY SMTT(30), <1>1 DEF DisplayInv, TypeOK, Calls
<1>5. /\ call'[c].at = call[c].at /\ call'[c].used = call[c].used
      /\ call'[c].doomed = call[c].doomed \ {d} /\ Others(c)
  BY <1>1 DEF DisplayInv, TypeOK, Calls, Others
<1>6. TypeOK'
  BY <1>1, <1>3, <1>4 DEF DisplayInv, TypeOK, canvasVars, gateVars
<1>7. FlagOfCall' /\ OneAtATime'
  BY <1>1, <1>5 DEF DisplayInv, FlagOfCall, OneAtATime, At, Others, gateVars
<1>8. HeldInStep'
  BY <1>3, <1>5 DEF DisplayInv, HeldInStep, At, Others
<1>9. Registered'
  BY <1>1, <1>3, <1>5 DEF DisplayInv, Registered, At, Others
<1>10. ManagedIsLive'
  <2>1. \A b \in Callers : At(b, {"record"}) => call'[b] = call[b]
    BY <1>1, <1>5 DEF At, Others
  <2>2. ASSUME NEW i \in Ids, NEW p \in contexts[i] \ live
        PROVE  \E b \in Callers : At(b, {"record"})' /\ call'[b].result \in Gone /\ call'[b].canvas = {p}
    <3>1. PICK b \in Callers : At(b, {"record"}) /\ call[b].result \in Gone /\ call[b].canvas = {p}
      BY DEF DisplayInv, ManagedIsLive
    <3>2. call'[b] = call[b]
      BY <2>1, <3>1
    <3>. QED
      BY <3>1, <3>2 DEF At
  <2>. QED
    BY <1>1, <2>2 DEF DisplayInv, ManagedIsLive, canvasVars
<1>11. RemovedIsUnused'
  BY <1>1, <1>3, <1>5 DEF DisplayInv, RemovedIsUnused, FlagOfCall, At, Others
<1>12. AppliedRuns' /\ SkippedIsApplied'
  BY <1>1, <1>5 DEF DisplayInv, AppliedRuns, SkippedIsApplied, At, Others, canvasVars
<1>. QED
  BY <1>3, <1>6, <1>7, <1>8, <1>9, <1>10, <1>11, <1>12 DEF DisplayInv

(* One of the displays to delete, which are registered no longer, is deleted. *)
LEMMA DeleteDisplayKeeps ==
    ASSUME DisplayInv, NEW c \in Callers, NEW d \in Displays, DeleteDisplay(c, d)
    PROVE  DisplayInv'
<1>1. /\ UNCHANGED <<displays, drawn, canvasVars, gateVars>>
      /\ At(c, {"delete"}) /\ d \in call[c].doomed /\ drawn # d
      /\ object' = [object EXCEPT ![d] = Deleted(@)]
      /\ call' = [call EXCEPT ![c].doomed = @ \ {d}]
  BY DEF DeleteDisplay, CallbackDone, At
<1>2. d \in Alive
  BY <1>1 DEF DisplayInv, HeldInStep
<1>3. /\ object' \in [Displays -> Objects]
      /\ object'[d].canvas = {} /\ SameBut(d)
      /\ Alive' = Alive \/ Alive' = Alive \ {d}
      /\ MadeInOrder' /\ ObjectIsWhole' /\ FrameIsAlive' /\ CanvasIsLive' /\ OneCanvas'
  BY <1>1, <1>2, ObjectLoses DEF canvasVars
<1>4. object'[d].state = "deleted"
  BY <1>1 DEF DisplayInv, TypeOK, Objects, Deleted, Detached
<1>5. Alive' = Alive \ {d}
  BY <1>3, <1>4 DEF Alive
<1>6. call' \in [Callers -> Calls]
  BY SMTT(30), <1>1 DEF DisplayInv, TypeOK, Calls
<1>7. /\ call'[c].at = call[c].at /\ call'[c].used = call[c].used
      /\ call'[c].doomed = call[c].doomed \ {d} /\ Others(c)
  BY <1>1 DEF DisplayInv, TypeOK, Calls, Others
<1>8. /\ \A b \in Callers \ {c} : call[b].doomed = {}
      /\ \A b \in Callers : call[b].used = {}
  BY <1>1 DEF DisplayInv, HeldInStep, OneAtATime, FlagOfCall, At
<1>9. \A k \in Keys : displays[k] # d
  BY <1>1 DEF DisplayInv, Registered
<1>10. TypeOK'
  BY <1>1, <1>3, <1>6 DEF DisplayInv, TypeOK, canvasVars, gateVars
<1>11. FlagOfCall' /\ OneAtATime'
  BY <1>1, <1>7 DEF DisplayInv, FlagOfCall, OneAtATime, At, Others, gateVars
<1>12. HeldInStep'
  BY <1>5, <1>7, <1>8 DEF DisplayInv, HeldInStep, At, Others
<1>13. Registered'
  BY <1>1, <1>5, <1>7, <1>9 DEF DisplayInv, Registered, At, Others
<1>14. ManagedIsLive'
  <2>1. \A b \in Callers : At(b, {"record"}) => call'[b] = call[b]
    BY <1>1, <1>7 DEF At, Others
  <2>2. ASSUME NEW i \in Ids, NEW p \in contexts[i] \ live
        PROVE  \E b \in Callers : At(b, {"record"})' /\ call'[b].result \in Gone /\ call'[b].canvas = {p}
    <3>1. PICK b \in Callers : At(b, {"record"}) /\ call[b].result \in Gone /\ call[b].canvas = {p}
      BY DEF DisplayInv, ManagedIsLive
    <3>2. call'[b] = call[b]
      BY <2>1, <3>1
    <3>. QED
      BY <3>1, <3>2 DEF At
  <2>. QED
    BY <1>1, <2>2 DEF DisplayInv, ManagedIsLive, canvasVars
<1>15. RemovedIsUnused'
  BY <1>1, <1>5, <1>7 DEF DisplayInv, RemovedIsUnused, FlagOfCall, At, Others
<1>16. AppliedRuns' /\ SkippedIsApplied'
  BY <1>1, <1>7 DEF DisplayInv, AppliedRuns, SkippedIsApplied, At, Others, canvasVars
<1>. QED
  BY <1>3, <1>10, <1>11, <1>12, <1>13, <1>14, <1>15, <1>16 DEF DisplayInv

(* The flag of the shutdown is taken back once no display is registered. *)
LEMMA ResetDisplayShutdownStateKeeps ==
    ASSUME DisplayInv, NEW c \in Callers, resetDisplayShutdownState(c)
    PROVE  DisplayInv'
<1>1. /\ UNCHANGED <<displayVars, canvasVars, removing, detaching, call>>
      /\ ~detaching /\ ~removing /\ shuttingDown' \in BOOLEAN
  BY DEF resetDisplayShutdownState, GatesOpen, DisplayInv, TypeOK
<1>2. TypeOK'
  BY <1>1 DEF DisplayInv, TypeOK, displayVars, canvasVars
<1>3. MadeInOrder' /\ ObjectIsWhole' /\ FrameIsAlive' /\ CanvasIsLive' /\ OneCanvas'
  BY <1>1, Frames DEF displayVars, canvasVars
<1>4. FlagOfCall' /\ OneAtATime'
  BY <1>1 DEF DisplayInv, FlagOfCall, OneAtATime, At
<1>5. /\ HeldInStep' /\ Registered' /\ ManagedIsLive' /\ RemovedIsUnused'
      /\ AppliedRuns' /\ SkippedIsApplied'
  BY <1>1, Frames DEF displayVars, canvasVars
<1>. QED
  BY <1>2, <1>3, <1>4, <1>5 DEF DisplayInv

(* A frame of a display begins, or ends. *)
LEMMA DrawKeeps ==
    ASSUME DisplayInv, (\E d \in Displays : BeginDraw(d)) \/ EndDraw
    PROVE  DisplayInv'
<1>1. /\ UNCHANGED <<displays, object, canvasVars, gateVars, call>>
      /\ drawn' = 0 \/ (drawn' \in Displays /\ object[drawn'].hooked)
  BY DEF BeginDraw, EndDraw
<1>2. TypeOK'
  BY <1>1 DEF DisplayInv, TypeOK, canvasVars, gateVars
<1>3. MadeInOrder' /\ ObjectIsWhole' /\ OneCanvas' /\ CanvasIsLive'
  BY <1>1, Frames DEF canvasVars
<1>4. FrameIsAlive'
  BY <1>1 DEF DisplayInv, TypeOK, ObjectIsWhole, FrameIsAlive, Alive
<1>5. /\ FlagOfCall' /\ OneAtATime' /\ HeldInStep' /\ Registered' /\ ManagedIsLive' /\ RemovedIsUnused'
      /\ AppliedRuns' /\ SkippedIsApplied'
  BY <1>1, Frames DEF canvasVars
<1>. QED
  BY <1>2, <1>3, <1>4, <1>5 DEF DisplayInv

(* A canvas is made at an address that is free and that no id has. *)
LEMMA AddVideoContextKeeps ==
    ASSUME DisplayInv, NEW c \in Callers, addVideoContext(c)
    PROVE  DisplayInv'
<1>1. UNCHANGED <<displayVars, lastApplied, gateVars, call>>
  BY DEF addVideoContext
<1>2. PICK p \in Pointers \ live, i \in Ids :
        /\ contexts[i] = {} /\ \A j \in Ids : p \notin contexts[j]
        /\ contexts' = [contexts EXCEPT ![i] = {p}]
        /\ live' = live \cup {p}
        /\ running' = [running EXCEPT ![p] = {}]
  BY DEF addVideoContext
<1>3. contexts'[i] = {p} /\ \A j \in Ids \ {i} : contexts'[j] = contexts[j]
  BY <1>2 DEF DisplayInv, TypeOK
<1>4. running'[p] = {} /\ \A q \in Pointers \ {p} : running'[q] = running[q]
  BY <1>2 DEF DisplayInv, TypeOK
<1>5. TypeOK'
  BY <1>1, <1>2 DEF DisplayInv, TypeOK, displayVars, gateVars
<1>6. /\ MadeInOrder' /\ ObjectIsWhole' /\ FrameIsAlive' /\ OneCanvas'
      /\ FlagOfCall' /\ OneAtATime' /\ HeldInStep' /\ Registered'
  BY <1>1, Frames DEF displayVars
<1>7. CanvasIsLive'
  BY <1>1, <1>2 DEF DisplayInv, CanvasIsLive, Alive, displayVars
<1>8. ManagedIsLive'
  <2>1. \A j \in Ids : \A q, r \in contexts'[j] : q = r
    BY <1>3 DEF DisplayInv, ManagedIsLive
  <2>2. \A j, m \in Ids : contexts'[j] \cap contexts'[m] # {} => j = m
    BY <1>2, <1>3 DEF DisplayInv, ManagedIsLive
  <2>3. \A j \in Ids : \A q \in contexts'[j] \ live' : q \in contexts[j] \ live
    BY <1>2, <1>3
  <2>4. \A j \in Ids : \A q \in contexts'[j] \ live' :
           \E b \in Callers : At(b, {"record"})' /\ call'[b].result \in Gone /\ call'[b].canvas = {q}
    BY <1>1, <2>3 DEF DisplayInv, ManagedIsLive, At
  <2>. QED
    BY <2>1, <2>2, <2>4 DEF ManagedIsLive
<1>9. RemovedIsUnused'
  <2>1. ASSUME NEW b \in Callers, At(b, {"remove", "record"})
        PROVE  \E j \in Ids : call[b].id = {j} /\ call[b].canvas = contexts'[j] /\ contexts'[j] # {}
    BY <1>2, <1>3, <2>1 DEF DisplayInv, RemovedIsUnused
  <2>. QED
    BY <1>1, <2>1 DEF DisplayInv, RemovedIsUnused, At, Alive, displayVars
<1>10. \A q \in Pointers : (\E j \in Ids : q \in contexts[j]) => (\E j \in Ids : q \in contexts'[j])
  BY <1>2, <1>3
<1>11. lastApplied[p] = {}
  BY <1>2 DEF DisplayInv, AppliedRuns
<1>12. AppliedRuns'
  <2>1. \A q \in Pointers : lastApplied[q] # {} =>
          \/ running'[q] = lastApplied[q]
          \/ \E b \in Callers : At(b, {"record"}) /\ call[b].result \in {"reinitialization_failed", "failed"}
    BY <1>4, <1>11 DEF DisplayInv, AppliedRuns
  <2>2. \A q \in Pointers : lastApplied[q] # {} => \E j \in Ids : q \in contexts'[j]
    BY <1>10 DEF DisplayInv, AppliedRuns
  <2>3. \A b \in Callers : At(b, {"set", "skip"}) => \A q \in call[b].canvas : \E j \in Ids : q \in contexts'[j]
    BY <1>2, <1>3 DEF DisplayInv, AppliedRuns
  <2>. QED
    BY <1>1, <2>1, <2>2, <2>3 DEF AppliedRuns, At
<1>13. SkippedIsApplied'
  <2>1. ASSUME NEW b \in Callers, call[b].at = "skip", NEW q \in call[b].canvas
        PROVE  q # p /\ q \in Pointers
    BY <1>2, <2>1 DEF DisplayInv, TypeOK, AppliedRuns, At
  <2>. QED
    BY <1>1, <1>4, <2>1 DEF DisplayInv, SkippedIsApplied
<1>. QED
  BY <1>5, <1>6, <1>7, <1>8, <1>9, <1>12, <1>13 DEF DisplayInv

(* libobs removes the canvas, refuses to, or fails. *)
LEMMA RemoveFromLibobsKeeps ==
    ASSUME DisplayInv, NEW c \in Callers, RemoveFromLibobs(c)
    PROVE  DisplayInv'
<1>1. /\ UNCHANGED <<displayVars, contexts, lastApplied, gateVars>> /\ At(c, {"remove"})
  BY DEF RemoveFromLibobs, At
<1>2. PICK result \in {"removed", "reinitialization_failed", "refused", "failed"} :
        /\ call' = [call EXCEPT ![c].at = "record", ![c].result = result]
        /\ live' = IF result \in {"removed", "reinitialization_failed"} THEN live \ call[c].canvas ELSE live
        /\ running' = IF result \in {"reinitialization_failed", "failed"} THEN TornDown ELSE running
  BY DEF RemoveFromLibobs
<1>3. call' \in [Callers -> Calls]
  <2>1. call[c] \in Calls /\ result \in Results /\ "record" \in Steps
    BY DEF DisplayInv, TypeOK, Results, Steps
  <2>2. [call[c] EXCEPT !.at = "record", !.result = result] \in Calls
    BY <2>1 DEF Calls
  <2>3. call' = [call EXCEPT ![c] = [call[c] EXCEPT !.at = "record", !.result = result]]
    BY <1>2 DEF DisplayInv, TypeOK
  <2>. QED
    BY <2>2, <2>3 DEF DisplayInv, TypeOK
<1>4. /\ call'[c].at = "record" /\ call'[c].result = result
      /\ call'[c].id = call[c].id /\ call'[c].canvas = call[c].canvas
      /\ call'[c].doomed = call[c].doomed /\ call'[c].used = call[c].used
      /\ Others(c)
  BY <1>2 DEF DisplayInv, TypeOK, Calls, Others
<1>5. TornDown \in [Pointers -> SUBSET Videos]
  BY DEF TornDown
<1>6. live' \in SUBSET Pointers /\ running' \in [Pointers -> SUBSET Videos]
  BY <1>2, <1>5 DEF DisplayInv, TypeOK
<1>7. TypeOK'
  BY <1>1, <1>3, <1>6 DEF DisplayInv, TypeOK, displayVars, gateVars
<1>8. MadeInOrder' /\ ObjectIsWhole' /\ FrameIsAlive' /\ OneCanvas'
  BY <1>1, Frames DEF displayVars
<1>9. FlagOfCall' /\ OneAtATime'
  BY <1>1, <1>4 DEF DisplayInv, FlagOfCall, OneAtATime, At, Others, gateVars
<1>10. HeldInStep'
  BY <1>1, <1>4 DEF DisplayInv, HeldInStep, At, Others, Alive, displayVars
<1>11. Registered'
  BY <1>1, <1>4 DEF DisplayInv, Registered, At, Others, Alive, displayVars
<1>12. PICK i \in Ids : call[c].id = {i} /\ call[c].canvas = contexts[i] /\ contexts[i] # {}
  BY <1>1 DEF DisplayInv, RemovedIsUnused, At
<1>13. \A b \in Callers \ {c} : ~At(b, {"record", "remove", "set", "skip"})
  BY <1>1 DEF DisplayInv, OneAtATime, At
<1>14. ManagedIsLive'
  <2>1. \A j \in Ids : contexts[j] \subseteq live
    BY <1>1, <1>13 DEF DisplayInv, ManagedIsLive, At
  <2>2. ASSUME NEW j \in Ids, NEW p \in contexts[j] \ live'
        PROVE  result \in Gone /\ call'[c].canvas = {p}
    <3>1. result \in Gone /\ p \in contexts[i]
      BY <1>2, <1>12, <2>1, <2>2 DEF Gone
    <3>. QED
      BY <1>4, <1>12, <3>1 DEF DisplayInv, ManagedIsLive
  <2>. QED
    BY <1>1, <1>4, <2>2 DEF DisplayInv, ManagedIsLive, At
<1>15. RemovedIsUnused'
  BY <1>1, <1>4 DEF DisplayInv, RemovedIsUnused, At, Others, Alive, displayVars
<1>16. CanvasIsLive'
  BY <1>1, <1>2 DEF DisplayInv, CanvasIsLive, RemovedIsUnused, At, Alive, displayVars
<1>17. AppliedRuns'
  <2>1. \A q \in Pointers : lastApplied[q] # {} =>
          \/ running'[q] = lastApplied[q]
          \/ result \in {"reinitialization_failed", "failed"}
    BY <1>1, <1>2, <1>13 DEF DisplayInv, AppliedRuns, At
  <2>2. \A b \in Callers : ~At(b, {"set", "skip"})'
    BY <1>4, <1>13 DEF At, Others
  <2>. QED
    BY <1>1, <1>4, <2>1, <2>2 DEF DisplayInv, AppliedRuns, At
<1>18. SkippedIsApplied'
  BY <1>4, <1>13 DEF SkippedIsApplied, At, Others
<1>. QED
  BY <1>7, <1>8, <1>9, <1>10, <1>11, <1>14, <1>15, <1>16, <1>17, <1>18 DEF DisplayInv

(* The manager and what was applied last learn what became of the canvas. *)
LEMMA RecordRemovalKeeps ==
    ASSUME DisplayInv, NEW c \in Callers, RecordRemoval(c)
    PROVE  DisplayInv'
<1>. DEFINE result == call[c].result
<1>1. /\ UNCHANGED <<displayVars, live, running, gateVars>> /\ At(c, {"record"})
      /\ call' = [call EXCEPT ![c].at = "end"]
      /\ contexts' = IF result \in Gone
                    THEN [i \in Ids |-> IF i \in call[c].id THEN {} ELSE contexts[i]] ELSE contexts
  BY DEF RecordRemoval, Goes, At, Gone
<1>2. lastApplied' = CASE result = "removed" -> Forget(call[c].canvas)
                       [] result = "refused" -> lastApplied
                       [] OTHER -> InvalidateAppliedVideoInfo
  BY DEF RecordRemoval
<1>3. call' \in [Callers -> Calls]
  <2>1. call \in [Callers -> Calls] /\ "end" \in Steps
    BY DEF DisplayInv, TypeOK, Steps
  <2>2. [call[c] EXCEPT !.at = "end"] \in Calls
    BY <2>1 DEF Calls
  <2>. QED
    BY <1>1, <2>1, <2>2
<1>4. /\ call'[c].at = "end" /\ call'[c].doomed = call[c].doomed /\ call'[c].used = call[c].used
      /\ Others(c)
  BY <1>1 DEF DisplayInv, TypeOK, Calls, Others
<1>5. PICK i \in Ids : call[c].id = {i} /\ call[c].canvas = contexts[i] /\ contexts[i] # {}
  BY <1>1 DEF DisplayInv, RemovedIsUnused, At
<1>6. \A j \in Ids : contexts'[j] = IF result \in Gone /\ j = i THEN {} ELSE contexts[j]
  BY <1>1, <1>5 DEF DisplayInv, TypeOK
<1>7. \A p \in Pointers :
        \/ lastApplied'[p] = {}
        \/ /\ lastApplied'[p] = lastApplied[p]
           /\ result \in {"removed", "refused"}
           /\ result = "removed" => p \notin call[c].canvas
  BY <1>2 DEF Forget, InvalidateAppliedVideoInfo
<1>8. contexts' \in [Ids -> SUBSET Pointers]
  BY <1>1 DEF DisplayInv, TypeOK
<1>9. lastApplied' \in [Pointers -> SUBSET Videos]
  BY <1>2 DEF DisplayInv, TypeOK, Forget, InvalidateAppliedVideoInfo
<1>10. TypeOK'
  BY <1>1, <1>3, <1>8, <1>9 DEF DisplayInv, TypeOK, displayVars, gateVars
<1>11. MadeInOrder' /\ ObjectIsWhole' /\ FrameIsAlive' /\ CanvasIsLive' /\ OneCanvas'
  BY <1>1, Frames DEF displayVars
<1>12. FlagOfCall' /\ OneAtATime'
  BY <1>1, <1>4 DEF DisplayInv, FlagOfCall, OneAtATime, At, Others, gateVars
<1>13. HeldInStep'
  BY <1>1, <1>4 DEF DisplayInv, HeldInStep, At, Others, Alive, displayVars
<1>14. Registered'
  BY <1>1, <1>4 DEF DisplayInv, Registered, At, Others, Alive, displayVars
<1>15. \A b \in Callers \ {c} : ~At(b, {"record", "remove", "set", "skip"})
  BY <1>1 DEF DisplayInv, OneAtATime, At
<1>16. \A b \in Callers : ~At(b, {"record", "remove", "set", "skip"})'
  BY <1>4, <1>15 DEF At, Others
<1>17. ManagedIsLive'
  <2>1. ASSUME NEW j \in Ids, NEW p \in contexts[j] \ live
        PROVE  result \in Gone /\ p \in contexts[i]
    BY <1>5, <1>15 DEF DisplayInv, ManagedIsLive, At
  <2>2. \A j \in Ids : contexts'[j] \subseteq live'
    BY <1>1, <1>6, <2>1 DEF DisplayInv, ManagedIsLive
  <2>. QED
    BY <1>6, <2>2 DEF DisplayInv, ManagedIsLive
<1>18. RemovedIsUnused' /\ SkippedIsApplied'
  BY <1>16 DEF RemovedIsUnused, SkippedIsApplied, At
<1>19. AppliedRuns'
  <2>1. \A p \in Pointers : lastApplied'[p] # {} => running'[p] = lastApplied'[p]
    BY <1>1, <1>7, <1>15 DEF DisplayInv, AppliedRuns, At
  <2>2. \A p \in Pointers : lastApplied'[p] # {} => \E j \in Ids : p \in contexts'[j]
    BY <1>5, <1>6, <1>7 DEF DisplayInv, AppliedRuns, Gone
  <2>. QED
    BY <1>16, <2>1, <2>2 DEF AppliedRuns, At
<1>. QED
  BY <1>10, <1>11, <1>12, <1>13, <1>14, <1>17, <1>18, <1>19 DEF DisplayInv

(* Settings are applied, or fail, or are left as they were. *)
LEMMA ApplyVideoKeeps ==
    ASSUME DisplayInv, NEW c \in Callers, ApplyVideo(c)
    PROVE  DisplayInv'
<1>1. /\ UNCHANGED <<displayVars, contexts, live, gateVars>> /\ Returns(c) /\ At(c, {"set"})
  BY DEF ApplyVideo, At
<1>2. call[c].doomed = {} /\ ~At(c, {"record"})
  BY <1>1 DEF DisplayInv, HeldInStep, At
<1>3. \A b \in Callers \ {c} : ~At(b, {"record", "remove", "set", "skip"})
  BY <1>1 DEF DisplayInv, OneAtATime, At
<1>4. /\ call'[c].at = "idle" /\ Others(c)
  BY <1>1 DEF Returns, IdleCall, Others, DisplayInv, TypeOK
<1>5. running' \in [Pointers -> SUBSET Videos] /\ lastApplied' \in [Pointers -> SUBSET Videos]
  BY DEF ApplyVideo, TornDown, InvalidateAppliedVideoInfo, DisplayInv, TypeOK, Calls
<1>6. TypeOK'
  BY <1>1, <1>5, CallReturns DEF DisplayInv, TypeOK, displayVars, gateVars
<1>7. MadeInOrder' /\ ObjectIsWhole' /\ FrameIsAlive' /\ CanvasIsLive' /\ OneCanvas'
  BY <1>1, Frames DEF displayVars
<1>8. FlagOfCall'
  BY <1>1, <1>4 DEF DisplayInv, FlagOfCall, At, Others, gateVars
<1>9. OneAtATime' /\ HeldInStep' /\ Registered' /\ ManagedIsLive' /\ RemovedIsUnused'
  BY <1>1, <1>2, CallReturns DEF displayVars, gateVars
<1>10. \A b \in Callers : ~At(b, {"record", "set", "skip"})'
  BY <1>3, <1>4 DEF At, Others
<1>11. AppliedRuns'
  <2>1. \A p \in Pointers :
           \/ lastApplied'[p] = {}
           \/ lastApplied'[p] = running'[p] /\ p \in call[c].canvas
           \/ lastApplied'[p] = lastApplied[p] /\ running'[p] = running[p]
    BY DEF ApplyVideo, TornDown, InvalidateAppliedVideoInfo
  <2>2. \A p \in Pointers : lastApplied'[p] # {} => \E i \in Ids : p \in contexts'[i]
    BY <1>1, <2>1 DEF DisplayInv, AppliedRuns, At
  <2>3. \A p \in Pointers : lastApplied'[p] # {} => running'[p] = lastApplied'[p]
    BY <1>2, <1>3, <2>1 DEF DisplayInv, AppliedRuns, At
  <2>. QED
    BY <1>10, <2>2, <2>3 DEF AppliedRuns, At
<1>12. SkippedIsApplied'
  BY <1>10 DEF SkippedIsApplied, At
<1>. QED
  BY <1>6, <1>7, <1>8, <1>9, <1>11, <1>12 DEF DisplayInv

(* Another part of the server applies settings of its own to every canvas. *)
LEMMA ResetVideoKeeps ==
    ASSUME DisplayInv, NEW c \in Callers, ResetVideo(c)
    PROVE  DisplayInv'
<1>1. /\ UNCHANGED <<displayVars, contexts, live, gateVars, call>>
      /\ running' = TornDown /\ lastApplied' = InvalidateAppliedVideoInfo
      /\ \A b \in Callers : ~At(b, {"set", "skip", "record"})
  BY DEF ResetVideo, Quiet, At
<1>2. TypeOK'
  BY <1>1 DEF DisplayInv, TypeOK, TornDown, InvalidateAppliedVideoInfo, displayVars, gateVars
<1>3. /\ MadeInOrder' /\ ObjectIsWhole' /\ FrameIsAlive' /\ CanvasIsLive' /\ OneCanvas'
      /\ FlagOfCall' /\ OneAtATime' /\ HeldInStep' /\ Registered' /\ ManagedIsLive' /\ RemovedIsUnused'
  BY <1>1, Frames DEF displayVars
<1>4. AppliedRuns' /\ SkippedIsApplied'
  BY <1>1 DEF AppliedRuns, SkippedIsApplied, InvalidateAppliedVideoInfo, At
<1>. QED
  BY <1>2, <1>3, <1>4 DEF DisplayInv

-----------------------------------------------------------------------------
LEMMA DisplayInvInit ==
    ASSUME MaxDisplays \in Nat, DisplayInit
    PROVE  DisplayInv
<1>. USE DEF DisplayInit, IdleCall
<1>1. IdleCall \in Calls
  BY DEF Calls, Steps, Results
<1>2. object \in [Displays -> Objects]
  BY DEF Objects, Displays
<1>3. TypeOK
  BY <1>1, <1>2 DEF TypeOK
<1>4. MadeInOrder
  <2>1. \A d \in Displays : object[d].state = "new" <=> d > 0
    BY DEF Displays
  <2>. QED
    BY <2>1, 0 \in 0..MaxDisplays DEF MadeInOrder
<1>5. FlagOfCall /\ OneAtATime /\ HeldInStep
  BY DEF FlagOfCall, OneAtATime, HeldInStep, At
<1>6. Alive = {}
  BY DEF Alive
<1>7. ObjectIsWhole /\ OneCanvas /\ CanvasIsLive /\ FrameIsAlive
  BY <1>6 DEF ObjectIsWhole, OneCanvas, CanvasIsLive, FrameIsAlive, Displays
<1>8. Registered /\ ManagedIsLive /\ RemovedIsUnused
  BY <1>6 DEF Registered, ManagedIsLive, RemovedIsUnused, At
<1>9. AppliedRuns /\ SkippedIsApplied
  BY DEF AppliedRuns, SkippedIsApplied, At
<1>. QED
  BY <1>3, <1>4, <1>5, <1>7, <1>8, <1>9 DEF DisplayInv

LEMMA DisplayInvStep ==
    ASSUME MaxDisplays \in Nat, DisplayInv, [DisplayNext]_displayCanvasVars
    PROVE  DisplayInv'
<1>1. DOMAIN object = Displays
  BY DEF DisplayInv, TypeOK
<1>2. ASSUME NEW c \in Callers, Step(c) PROVE DisplayInv'
  BY <1>1, <1>2, DetachCanvasKeeps, DeleteDisplayKeeps, EndDetachKeeps, EndUseKeeps,
     RemoveFromLibobsKeeps,
     RecordRemovalKeeps, EndVideoContextRemovalKeeps, SkipVideoKeeps, ApplyVideoKeeps DEF Step
<1>3. ASSUME NEW c \in Callers,
             \/ \E k \in Keys, i \in {{}} \cup {{j} : j \in Ids} : createDisplay(c, k, i)
             \/ \E k \in Keys : destroyDisplay(c, k) \/ BeginUse(c, k)
      PROVE  DisplayInv'
  BY <1>3, CreateDisplayKeeps, DestroyDisplayKeeps, BeginUseKeeps
<1>4. ASSUME NEW c \in Callers,
             \/ BeginDetach(c) \/ BeginShutdown(c) \/ resetDisplayShutdownState(c)
             \/ addVideoContext(c) \/ ResetVideo(c)
             \/ \E i \in Ids : BeginRemoval(c, i) \/ \E v \in Videos : SetVideoContext(c, i, v)
      PROVE  DisplayInv'
  BY <1>4, BeginDetachKeeps, BeginShutdownKeeps, ResetDisplayShutdownStateKeeps,
     AddVideoContextKeeps,
     ResetVideoKeeps, BeginRemovalKeeps, SetVideoContextKeeps
<1>5. CASE (\E d \in DOMAIN object : BeginDraw(d)) \/ EndDraw
  BY <1>1, <1>5, DrawKeeps
<1>6. CASE UNCHANGED displayCanvasVars
  BY <1>6, Frames DEF displayCanvasVars, DisplayInv, TypeOK, displayVars, canvasVars, gateVars
<1>. QED
  BY <1>2, <1>3, <1>4, <1>5, <1>6 DEF DisplayNext

LEMMA DisplayInvariance == DisplaySpec => []DisplayInv
<1>1. DisplayInit => DisplayInv
  BY DisplayInvInit, DisplayAssumption
<1>2. DisplayInv /\ [DisplayNext]_displayCanvasVars => DisplayInv'
  BY DisplayInvStep, DisplayAssumption
<1>. QED
  BY <1>1, <1>2, PTL DEF DisplaySpec

(* The two flags and the mutex keep displays, frames and canvases apart: for  *)
(* any number of callers, displays, canvases and addresses, a display that a  *)
(* frame may read has a canvas that libobs knows, and no call uses a display  *)
(* that another one detaches or deletes.                                     *)
THEOREM CanvasOutlives == DisplaySpec => []CanvasOutlivesDisplays
<1>1. DisplayInv => CanvasOutlivesDisplays
  <2>1. DisplayInv => \A c, b \in Callers : call[c].used \cap call[b].doomed = {}
    BY DEF DisplayInv, HeldInStep, OneAtATime, FlagOfCall, At
  <2>. QED
    BY <2>1 DEF DisplayInv, CanvasIsLive, Registered, HeldInStep, FrameIsAlive,
       CanvasOutlivesDisplays
<1>. QED
  BY <1>1, DisplayInvariance, PTL

(* Settings that are skipped run: for any number of callers, canvases and     *)
(* addresses, whatever libobs answers to a removal or to new settings.       *)
THEOREM SkippedApplied == DisplaySpec => []SkippedIsApplied
<1>1. DisplayInv => SkippedIsApplied
  BY DEF DisplayInv
<1>. QED
  BY <1>1, DisplayInvariance, PTL

(* Every state of the displays has the declared types. *)
THEOREM DisplayTypes == DisplaySpec => []TypeOK
<1>1. DisplayInv => TypeOK
  BY DEF DisplayInv
<1>. QED
  BY <1>1, DisplayInvariance, PTL
=============================================================================
