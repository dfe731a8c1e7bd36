----------------------------- MODULE MediaCache -----------------------------
(* MediaCacheManager (memory-manager.h, memory-manager.cpp): the in-memory   *)
(* caches of looping local media, within one budget.  The actors are the     *)
(* manager's worker, which decides; libobs' graphics thread, which runs the  *)
(* queued queries and writes in its tick callback and then lets ffmpeg_source *)
(* apply the settings that changed; IPC threads that edit a source's         *)
(* settings under a guard; and the callbacks that register sources, remove   *)
(* them or ask for a new evaluation.                                         *)
(* Revisions are only compared for equality, so the model keeps the two      *)
(* comparisons: whether the source was scheduled at its present revision     *)
(* and whether its one outstanding job is of that revision.                  *)
EXTENDS Naturals, Sequences, FiniteSets

CONSTANTS Sources,      \* ffmpeg_source sources, each registered at most once
          Editors,      \* IPC threads in osn::Source::Update or GetProperties
          Files,        \* values of local_file
          Size(_),      \* bytes the cache of a file takes
          Budget,       \* m_cacheBudgetBytes
          JobsPerTick,  \* JOBS_PER_TICK
          MaxPolls,     \* MAX_POLLS
          SavedCaching, \* what saved settings may hold in "caching"
          AuxViews,     \* whether sources are shown outside the main view
          MaxEvents     \* bound: edits, removals and changes of what is shown

NoFile  == "none"
NoOne   == "nobody"
NoSource == "none"

ASSUME MediaCacheAssumption ==
    /\ IsFiniteSet(Sources) /\ IsFiniteSet(Editors)
    /\ {NoOne, "graphics"} \cap Editors = {}
    /\ \A f \in Files : Size(f) \in Nat \ {0}
    /\ Budget \in Nat
    /\ JobsPerTick \in Nat \ {0}
    /\ MaxPolls \in Nat \ {0}
    /\ SavedCaching \subseteq BOOLEAN
    /\ AuxViews \in BOOLEAN
    /\ MaxEvents \in Nat

VARIABLES
    phase,       \* of the manager: "stopped", "running", "closing", "stopping"
    entries,     \* SourceEntry of each source
    reserved,    \* m_reservedCacheBytes
    jobs,        \* m_graphicsJobs
    completions, \* m_completions
    worker,      \* "waiting": it does not hold m_mutex; "locked": it does
    notified,    \* m_notified
    rebalance,   \* m_rebalance
    graphics,    \* where the graphics thread stands
    batch,       \* jobs this tick callback has taken and not yet run
    results,     \* the completions of this tick callback
    mutex,       \* holder of each entry's cacheWriteMutex
    editor,      \* the settings update each editor is in
    setting,     \* live settings of each source
    player,      \* what the source's current player was created with
    deferred,    \* the source has settings that the plugin is to apply
    shown,       \* the views that show each source
    signalled,   \* libobs is to emit source_activate or source_deactivate
    preference,  \* OBS_API::getMediaFileCaching()
    events       \* external events so far, up to MaxEvents

managerVars  == <<phase, entries, reserved, jobs, completions, rebalance>>
graphicsVars == <<graphics, batch, results>>
obsVars      == <<setting, player, deferred, shown, signalled, preference>>
vars == <<managerVars, worker, notified, graphicsVars, mutex, editor, obsVars, events>>

FreshEntry == [life |-> "new", updates |-> 0, settle |-> 0, fresh |-> FALSE,
             scheduled |-> FALSE, reserved |-> 0, file |-> NoFile, retries |-> 0,
             retry |-> "none", initialized |-> FALSE, pending |-> FALSE,
             waiting |-> FALSE]

\* Nothing looks at an entry the manager has dropped, except to see that it is.
GoneEntry == [FreshEntry EXCEPT !.life = "gone"]

NoEdit == [pc |-> "none", source |-> NoSource, active |-> FALSE]

Init ==
    /\ phase = "running"
    /\ entries = [s \in Sources |-> FreshEntry]
    /\ reserved = 0
    /\ jobs = <<>>
    /\ completions = <<>>
    /\ worker = "waiting"
    /\ notified = FALSE
    /\ rebalance = FALSE
    /\ graphics = "idle"
    /\ batch = <<>>
    /\ results = <<>>
    /\ mutex = [s \in Sources |-> NoOne]
    /\ editor = [e \in Editors |-> NoEdit]
    /\ setting \in [Sources -> [file : Files, caching : SavedCaching]]
    /\ player = setting
    /\ deferred = [s \in Sources |-> FALSE]
    /\ shown = [s \in Sources |-> {"main"}]
    /\ signalled = [s \in Sources |-> FALSE]
    /\ preference = TRUE
    /\ events = 0

Accepting == phase = "running"
Tracked(s) == entries[s].life = "tracked"
Removed(s) == ~Tracked(s) \/ ~Accepting
\* The view starts or stops showing the source.
Toggled(views, v) == IF v \in views THEN views \ {v} ELSE views \cup {v}
Eligible(s) == preference /\ shown[s] # {}
QueueUnlocked == worker = "waiting"

\* A revision that is newer than any job and any schedule.
Bumped(e) == [e EXCEPT !.fresh = FALSE, !.scheduled = FALSE]

Event == events < MaxEvents /\ events' = events + 1

-----------------------------------------------------------------------------
(* Callbacks of libobs and of the settings API, under m_mutex. *)

Register(s) ==
    /\ Accepting
    /\ QueueUnlocked
    /\ entries[s].life = "new"
    /\ entries' = [entries EXCEPT ![s].life = "tracked"]
    /\ notified' = TRUE
    /\ UNCHANGED <<phase, reserved, jobs, completions, rebalance, worker,
                   graphicsVars, mutex, editor, obsVars, events>>

Unregister(s) ==
    /\ QueueUnlocked
    /\ Tracked(s)
    /\ Event
    /\ entries' = [entries EXCEPT ![s] = [Bumped(entries[s]) EXCEPT !.life = "retired"]]
    /\ notified' = TRUE
    /\ UNCHANGED <<phase, reserved, jobs, completions, rebalance, worker,
                   graphicsVars, mutex, editor, obsVars>>

\* applyMediaFileCachingSetting(): the preference, then requestAllCacheUpdates().
ChangePreference ==
    /\ QueueUnlocked
    /\ Event
    /\ preference' = ~preference
    /\ entries' = [s \in Sources |-> IF Accepting /\ Tracked(s) THEN Bumped(entries[s]) ELSE entries[s]]
    /\ notified' = (notified \/ Accepting)
    /\ UNCHANGED <<phase, reserved, jobs, completions, rebalance, worker, graphicsVars,
                   mutex, editor, setting, player, deferred, shown, signalled>>

\* The main view starts or stops showing the source; libobs signals it later,
\* in the source's video tick.
ShowInMainView(s) ==
    /\ Event
    /\ shown' = [shown EXCEPT ![s] = Toggled(@, "main")]
    /\ signalled' = [signalled EXCEPT ![s] = TRUE]
    /\ UNCHANGED <<managerVars, worker, notified, graphicsVars, mutex, editor,
                   setting, player, deferred, preference>>

\* A display shows the source or stops: no source is activated or deactivated.
ShowInDisplay(s) ==
    /\ AuxViews
    /\ Event
    /\ shown' = [shown EXCEPT ![s] = Toggled(@, "display")]
    /\ UNCHANGED <<managerVars, worker, notified, graphicsVars, mutex, editor,
                   setting, player, deferred, signalled, preference>>

-----------------------------------------------------------------------------
(* osn::Source::Update and GetProperties: trackSourceSettingsUpdate(), the   *)
(* change of the live settings, obs_source_update(), the guard's destructor. *)

At(e, s, pc) == editor[e].source = s /\ editor[e].pc = pc
Goto(e, pc) == editor' = [editor EXCEPT ![e].pc = pc]

Track(e, s) ==
    /\ editor[e] = NoEdit
    /\ QueueUnlocked
    /\ entries[s].life # "new"
    /\ Event
    /\ editor' = [editor EXCEPT ![e] =
                     [pc |-> IF Accepting /\ Tracked(s) THEN "lock" ELSE "write",
                      source |-> s, active |-> FALSE]]
    /\ UNCHANGED <<managerVars, worker, notified, graphicsVars, mutex, obsVars>>

\* Mutant: the guard does not wait for a cache write that is past validation.
TrackDoesNotLock(e, s) ==
    /\ At(e, s, "lock")
    /\ Goto(e, "begin")
    /\ UNCHANGED <<managerVars, worker, notified, graphicsVars, mutex, obsVars, events>>

TrackLocks(e, s) ==
    /\ At(e, s, "lock")
    /\ mutex[s] = NoOne
    /\ mutex' = [mutex EXCEPT ![s] = e]
    /\ Goto(e, "begin")
    /\ UNCHANGED <<managerVars, worker, notified, graphicsVars, obsVars, events>>

TrackInactive(e, s) ==
    /\ At(e, s, "begin")
    /\ QueueUnlocked
    /\ Removed(s)
    /\ mutex' = [mutex EXCEPT ![s] = NoOne]
    /\ Goto(e, "write")
    /\ UNCHANGED <<managerVars, worker, notified, graphicsVars, obsVars, events>>

TrackBegins(e, s) ==
    /\ At(e, s, "begin")
    /\ QueueUnlocked
    /\ ~Removed(s)
    /\ entries' = [entries EXCEPT ![s] = [Bumped(entries[s]) EXCEPT !.updates = @ + 1]]
    /\ notified' = TRUE
    /\ editor' = [editor EXCEPT ![e].pc = "clear", ![e].active = TRUE]
    /\ UNCHANGED <<phase, reserved, jobs, completions, rebalance, worker,
                   graphicsVars, mutex, obsVars, events>>

ClearCaching(e, s) ==
    /\ At(e, s, "clear")
    /\ setting' = [setting EXCEPT ![s].caching = FALSE]
    /\ mutex' = [mutex EXCEPT ![s] = NoOne]
    /\ Goto(e, "write")
    /\ UNCHANGED <<managerVars, worker, notified, graphicsVars, player, deferred,
                   shown, signalled, preference, events>>

EditSettings(e, s) ==
    /\ At(e, s, "write")
    /\ \E f \in Files : setting' = [setting EXCEPT ![s].file = f]
    /\ Goto(e, "update")
    /\ UNCHANGED <<managerVars, worker, notified, graphicsVars, mutex, player,
                   deferred, shown, signalled, preference, events>>

UpdateSource(e, s) ==
    /\ At(e, s, "update")
    /\ deferred' = [deferred EXCEPT ![s] = TRUE]
    /\ editor' = [editor EXCEPT ![e] = IF @.active THEN [@ EXCEPT !.pc = "finish"]
                                                   ELSE NoEdit]
    /\ UNCHANGED <<managerVars, worker, notified, graphicsVars, mutex, setting,
                   player, shown, signalled, preference, events>>

\* m_graphicsTick + 2: settle counts the callbacks that still have to pass.
\* Mutant: the next callback may query.
SettleTickOne == 1

SettleTicks == 2

FinishUpdate(e, s) ==
    /\ At(e, s, "finish")
    /\ QueueUnlocked
    /\ entries' = IF Removed(s) THEN entries
                  ELSE [entries EXCEPT ![s] = [Bumped(entries[s]) EXCEPT !.updates = @ - 1,
                                                                       !.settle = SettleTicks]]
    /\ notified' = (notified \/ ~Removed(s))
    /\ editor' = [editor EXCEPT ![e] = NoEdit]
    /\ UNCHANGED <<phase, reserved, jobs, completions, rebalance, worker,
                   graphicsVars, mutex, obsVars, events>>

Edit(e, s) ==
    \/ Track(e, s) \/ TrackLocks(e, s) \/ TrackInactive(e, s) \/ TrackBegins(e, s)
    \/ ClearCaching(e, s) \/ EditSettings(e, s) \/ UpdateSource(e, s) \/ FinishUpdate(e, s)

-----------------------------------------------------------------------------
(* The graphics thread: tick callback, then the sources' video ticks. *)

QueryJob(s) == [source |-> s, type |-> "query", enable |-> FALSE, file |-> NoFile]
SetJob(s, enable, file) == [source |-> s, type |-> "set", enable |-> enable, file |-> file]

\* A completion before the job has run.
Unrun(job) == [job |-> job, valid |-> FALSE, applied |-> FALSE, file |-> NoFile,
               caching |-> FALSE, eligible |-> FALSE, bytes |-> 0]

\* What a sequence holds at some of its places, in order.
Picked(q, places) ==
    LET nth(n) == CHOOSE i \in places : Cardinality({j \in places : j < i}) = n - 1
    IN  [n \in 1..Cardinality(places) |-> q[nth(n)]]

Delayed(es, job) ==
    LET e == es[job.source]
    IN  job.type = "query" /\ ~Removed(job.source) /\ e.fresh /\ (e.updates > 0 \/ e.settle > 0)

TickTakes ==
    /\ graphics = "idle"
    /\ Accepting
    /\ QueueUnlocked
    /\ LET es == [s \in Sources |-> [entries[s] EXCEPT !.settle = IF @ = 0 THEN 0 ELSE @ - 1]]
           n  == IF Len(jobs) < JobsPerTick THEN Len(jobs) ELSE JobsPerTick
           later == {i \in 1..n : Delayed(es, jobs[i])}
       IN  /\ entries' = es
           /\ jobs' = SubSeq(jobs, n + 1, Len(jobs)) \o Picked(jobs, later)
           /\ batch' = Picked(jobs, (1..n) \ later)
           /\ graphics' = IF batch' = <<>> THEN "sources" ELSE "run"
    /\ UNCHANGED <<phase, reserved, completions, rebalance, worker, notified, results,
                   mutex, editor, obsVars, events>>

\* The callback is removed, or the manager accepts nothing: only the sources tick.
TickIgnored ==
    /\ graphics = "idle"
    /\ ~Accepting
    /\ QueueUnlocked
    /\ \E s \in Sources : deferred[s] \/ signalled[s]
    /\ graphics' = "sources"
    /\ UNCHANGED <<managerVars, worker, notified, batch, results, mutex, editor,
                   obsVars, events>>

Job == Head(batch)
Stale(job) == Removed(job.source) \/ ~entries[job.source].fresh

\* The loop goes on with the next job, or posts the completions.
Finish(result) ==
    /\ results' = Append(results, result)
    /\ batch' = Tail(batch)
    /\ graphics' = IF Tail(batch) = <<>> THEN "post" ELSE "run"

Snapshot(s, result) ==
    [result EXCEPT !.valid = TRUE, !.file = setting[s].file,
                   !.caching = setting[s].caching, !.eligible = Eligible(s)]

QueryStale ==
    /\ graphics = "run"
    /\ Job.type = "query"
    /\ Stale(Job)
    /\ Finish(Unrun(Job))
    /\ UNCHANGED <<managerVars, worker, notified, mutex, editor, obsVars, events>>

\* readSettings() and queryMediaOnGraphicsThread().  A player that is not ready,
\* and one that is cached, gives no size.  Settings may change between the two:
\* the player does not, and the completion keeps the settings that were read.
QueryMedia ==
    /\ graphics = "run"
    /\ Job.type = "query"
    /\ ~Stale(Job)
    /\ LET s == Job.source
           snapshot == Snapshot(s, Unrun(Job))
           asks == snapshot.eligible /\ ~snapshot.caching /\ ~player[s].caching
       IN  \E ready \in {asks, FALSE} :
               Finish([snapshot EXCEPT !.bytes = IF ready THEN Size(player[s].file) ELSE 0])
    /\ UNCHANGED <<managerVars, worker, notified, mutex, editor, obsVars, events>>

\* A settings guard holds the lock, or the revision has moved on.
SetStale ==
    /\ graphics = "run"
    /\ Job.type = "set"
    /\ mutex[Job.source] # NoOne \/ Stale(Job)
    /\ Finish(Unrun(Job))
    /\ UNCHANGED <<managerVars, worker, notified, mutex, editor, obsVars, events>>

MayApply(job, snapshot) == ~job.enable \/ (snapshot.eligible /\ snapshot.file = job.file)

\* Validation under cacheWriteMutex; nothing to write, or the write comes next.
SetValidated ==
    /\ graphics = "run"
    /\ Job.type = "set"
    /\ mutex[Job.source] = NoOne
    /\ ~Stale(Job)
    /\ LET s == Job.source
           snapshot == Snapshot(s, Unrun(Job))
           applies == MayApply(Job, snapshot)
       IN  IF applies /\ snapshot.caching # Job.enable
           THEN /\ mutex' = [mutex EXCEPT ![s] = "graphics"]
                /\ graphics' = "write"
                /\ UNCHANGED <<batch, results>>
           ELSE /\ Finish([snapshot EXCEPT !.applied = applies])
                /\ UNCHANGED mutex
    /\ UNCHANGED <<managerVars, worker, notified, editor, obsVars, events>>

\* setCaching(): the patch is merged and the plugin's update deferred.
WriteCaching ==
    /\ graphics = "write"
    /\ LET s == Job.source
       IN  /\ setting' = [setting EXCEPT ![s].caching = Job.enable]
           /\ deferred' = [deferred EXCEPT ![s] = TRUE]
           /\ mutex' = [mutex EXCEPT ![s] = NoOne]
           /\ Finish([Unrun(Job) EXCEPT !.valid = TRUE, !.applied = TRUE])
    /\ UNCHANGED <<managerVars, worker, notified, editor, player, shown, signalled,
                   preference, events>>

\* Mutant: the worker is not told.
TickPostsQuietly ==
    /\ graphics = "post"
    /\ QueueUnlocked
    /\ completions' = completions \o results
    /\ results' = <<>>
    /\ graphics' = "sources"
    /\ UNCHANGED <<phase, entries, reserved, jobs, rebalance, worker, notified, batch, mutex,
                   editor, obsVars, events>>

TickPosts ==
    /\ graphics = "post"
    /\ QueueUnlocked
    /\ completions' = completions \o results
    /\ notified' = TRUE
    /\ results' = <<>>
    /\ graphics' = "sources"
    /\ UNCHANGED <<phase, entries, reserved, jobs, rebalance, worker, batch, mutex,
                   editor, obsVars, events>>

\* Each source's video tick: the plugin applies deferred settings, then libobs
\* signals what has been shown or hidden and requestCacheUpdate() runs.
SourcesTick ==
    /\ graphics = "sources"
    /\ QueueUnlocked
    /\ player' = [s \in Sources |-> IF deferred[s] THEN setting[s] ELSE player[s]]
    /\ deferred' = [s \in Sources |-> FALSE]
    /\ entries' = [s \in Sources |-> IF signalled[s] /\ Accepting /\ Tracked(s)
                                     THEN Bumped(entries[s]) ELSE entries[s]]
    /\ notified' = (notified \/ \E s \in Sources : signalled[s] /\ Accepting /\ Tracked(s))
    /\ signalled' = [s \in Sources |-> FALSE]
    /\ graphics' = "idle"
    /\ UNCHANGED <<phase, reserved, jobs, completions, rebalance, worker, batch, results,
                   mutex, editor, setting, shown, preference, events>>

Graphics ==
    \/ TickTakes \/ TickIgnored \/ QueryStale \/ QueryMedia \/ SetStale \/ SetValidated
    \/ WriteCaching \/ TickPosts \/ SourcesTick

-----------------------------------------------------------------------------
(* The worker's run().  It holds m_mutex from WorkerWakes to Schedule.       *)

RetryDue(s) ==
    /\ entries[s].retry = "armed"
    /\ Accepting
    /\ QueueUnlocked
    /\ entries' = [entries EXCEPT ![s].retry = "due"]
    /\ UNCHANGED <<phase, reserved, jobs, completions, rebalance, worker, notified,
                   graphicsVars, mutex, editor, obsVars, events>>

Retired == {s \in Sources : entries[s].life = "retired"}
Reservations == [s \in Sources |-> entries[s].reserved]

\* How many bytes some sources have together: every byte of each is an element.
Bytes(of, some) == Cardinality(UNION {{s} \X (1..of[s]) : s \in some})

\* Retired entries give their reservations back and queued jobs are cancelled.
WorkerWakes ==
    /\ worker = "waiting"
    /\ phase \in {"running", "closing"}
    /\ notified \/ \E s \in Sources : ~Removed(s) /\ entries[s].retry = "due"
    /\ worker' = "locked"
    /\ notified' = FALSE
    /\ reserved' = reserved - Bytes(Reservations, Retired)
    /\ rebalance' = (rebalance \/ \E s \in Retired : entries[s].reserved # 0)
    /\ entries' = [s \in Sources |-> IF s \in Retired
                                     THEN GoneEntry ELSE entries[s]]
    /\ jobs' = Picked(jobs, {i \in DOMAIN jobs : ~Removed(jobs[i].source)})
    /\ UNCHANGED <<phase, completions, graphicsVars, mutex, editor, obsVars, events>>

\* Mutant: sources that wait for the budget are not looked at again.
ReleaseBudgetQuietly(s) ==
    /\ reserved' = reserved - entries[s].reserved
    /\ rebalance' = rebalance

ReleaseBudget(s) ==
    /\ reserved' = reserved - entries[s].reserved
    /\ rebalance' = (rebalance \/ entries[s].reserved # 0)

\* complete() of a job that ran for an entry that has been removed meanwhile.
CompleteRemoved(s, result) ==
    /\ Removed(s)
    /\ entries' = [entries EXCEPT ![s].pending = FALSE]
    /\ UNCHANGED <<reserved, rebalance, jobs>>

\* Processed even if a newer notification arrived during the operation.
CompleteSet(s, result) ==
    LET releases == result.job.enable # result.applied
        Settled(e) == [e EXCEPT !.pending = FALSE,
                                !.scheduled = @ /\ result.applied /\ result.job.enable,
                                !.initialized = @ \/ result.applied]
    IN  /\ ~Removed(s) /\ result.job.type = "set"
        /\ IF releases THEN ReleaseBudget(s) ELSE UNCHANGED <<reserved, rebalance>>
        /\ entries' = [entries EXCEPT ![s] = [Settled(entries[s]) EXCEPT !.reserved = IF releases THEN 0 ELSE @]]
        /\ UNCHANGED jobs

Outdated(s, result) == ~result.valid \/ ~entries[s].fresh

CompleteOutdated(s, result) ==
    /\ ~Removed(s) /\ result.job.type = "query" /\ Outdated(s, result)
    /\ entries' = [entries EXCEPT ![s].pending = FALSE, ![s].scheduled = FALSE]
    /\ UNCHANGED <<reserved, rebalance, jobs>>

\* The cache is enabled but not by a decision that still holds.
MustDisable(s, result) ==
    /\ result.caching
    /\ \/ ~entries[s].initialized
       \/ entries[s].file # result.file
       \/ ~result.eligible
       \/ entries[s].reserved = 0

CompleteDisables(s, result) ==
    /\ ~Removed(s) /\ result.job.type = "query" /\ ~Outdated(s, result)
    /\ MustDisable(s, result)
    /\ entries' = [entries EXCEPT ![s].file = result.file]
    /\ jobs' = Append(jobs, SetJob(s, FALSE, result.file))
    /\ UNCHANGED <<reserved, rebalance>>

CompleteKeeps(s, result) ==
    /\ ~Removed(s) /\ result.job.type = "query" /\ ~Outdated(s, result)
    /\ result.caching /\ ~MustDisable(s, result)
    /\ entries' = [entries EXCEPT ![s].pending = FALSE, ![s].initialized = TRUE]
    /\ UNCHANGED <<reserved, rebalance, jobs>>

\* What complete() leaves of an uncached source's entry before it decides.
Evaluated(s, result) ==
    [entries[s] EXCEPT !.pending = FALSE, !.file = result.file, !.initialized = TRUE,
                     !.reserved = 0]

CompleteUncached(s, result) ==
    /\ ~Removed(s) /\ result.job.type = "query" /\ ~Outdated(s, result)
    /\ ~result.caching
    /\ LET others == reserved - entries[s].reserved
           released == Evaluated(s, result)
           Retries(e) == [e EXCEPT !.retries = @ + 1,
                                   !.retry = IF e.retries + 1 < MaxPolls THEN "armed" ELSE @]
       IN  \/ /\ ~result.eligible
              /\ ReleaseBudget(s)
              /\ entries' = [entries EXCEPT ![s] = released]
              /\ UNCHANGED jobs
           \/ /\ result.eligible /\ result.bytes = 0
              /\ ReleaseBudget(s)
              /\ entries' = [entries EXCEPT ![s] = Retries(released)]
              /\ UNCHANGED jobs
           \/ /\ result.eligible /\ result.bytes > Budget - others
              /\ ReleaseBudget(s)
              /\ entries' = [entries EXCEPT ![s] = [released EXCEPT !.waiting = TRUE]]
              /\ UNCHANGED jobs
           \/ /\ result.eligible /\ result.bytes \in 1..(Budget - others)
              /\ reserved' = others + result.bytes
              /\ rebalance' = (rebalance \/ entries[s].reserved # 0)
              /\ entries' = [entries EXCEPT ![s] = [released EXCEPT !.pending = TRUE,
                                                                  !.reserved = result.bytes]]
              /\ jobs' = Append(jobs, SetJob(s, TRUE, result.file))

Complete ==
    /\ worker = "locked"
    /\ completions # <<>>
    /\ completions' = Tail(completions)
    /\ LET result == Head(completions)
           s == result.job.source
       IN  \/ CompleteRemoved(s, result)
           \/ CompleteSet(s, result)
           \/ CompleteOutdated(s, result)
           \/ CompleteDisables(s, result)
           \/ CompleteKeeps(s, result)
           \/ CompleteUncached(s, result)
    /\ UNCHANGED <<phase, worker, notified, graphicsVars, mutex, editor, obsVars, events>>

Wanted(s) ==
    /\ ~Removed(s) /\ ~entries[s].pending
    /\ \/ ~entries[s].scheduled
       \/ rebalance /\ entries[s].waiting
       \/ entries[s].retry = "due"

Scheduled(e) ==
    [e EXCEPT !.retries = IF e.scheduled THEN @ ELSE 0, !.scheduled = TRUE, !.fresh = TRUE,
              !.retry = "none", !.waiting = FALSE, !.pending = TRUE]

\* New queries, in the order of m_sources; then the worker waits.
Schedule ==
    /\ worker = "locked"
    /\ completions = <<>>
    /\ LET wanted == {s \in Sources : Wanted(s)}
       IN  /\ \E order \in [1..Cardinality(wanted) -> wanted] :
                 /\ \A s \in wanted : \E i \in DOMAIN order : order[i] = s
                 /\ jobs' = jobs \o [i \in DOMAIN order |-> QueryJob(order[i])]
           /\ entries' = [s \in Sources |-> IF s \in wanted THEN Scheduled(entries[s]) ELSE entries[s]]
    /\ rebalance' = FALSE
    /\ worker' = "waiting"
    /\ UNCHANGED <<phase, reserved, completions, notified, graphicsVars, mutex, editor,
                   obsVars, events>>

WorkerStep == WorkerWakes \/ Complete \/ Schedule

-----------------------------------------------------------------------------
(* shutdown() on the thread of OBS_API::destroyOBS_API(). *)

ShutdownCloses ==
    /\ phase = "running"
    /\ QueueUnlocked
    /\ Event
    /\ phase' = "closing"
    /\ UNCHANGED <<entries, reserved, jobs, completions, rebalance, worker, notified,
                   graphicsVars, mutex, editor, obsVars>>

InTickCallback == graphics \in {"run", "write", "post"}

\* obs_remove_tick_callback() waits for a callback that is executing.
ShutdownUnhooks ==
    /\ phase = "closing"
    /\ QueueUnlocked
    /\ ~InTickCallback
    /\ phase' = "stopping"
    /\ UNCHANGED <<entries, reserved, jobs, completions, rebalance, worker, notified,
                   graphicsVars, mutex, editor, obsVars, events>>

WorkerExits ==
    /\ phase = "stopping"
    /\ QueueUnlocked
    /\ phase' = "stopped"
    /\ entries' = [s \in Sources |-> GoneEntry]
    /\ jobs' = <<>>
    /\ completions' = <<>>
    /\ reserved' = 0
    /\ UNCHANGED <<rebalance, worker, notified, graphicsVars, mutex, editor, obsVars, events>>

-----------------------------------------------------------------------------
External ==
    \/ \E s \in Sources : Register(s) \/ Unregister(s) \/ ShowInMainView(s) \/ ShowInDisplay(s)
    \/ ChangePreference
    \/ ShutdownCloses

Next ==
    \/ External
    \/ \E e \in Editors, s \in Sources : Edit(e, s)
    \/ Graphics
    \/ \E s \in Sources : RetryDue(s)
    \/ WorkerStep
    \/ ShutdownUnhooks \/ WorkerExits

Spec == Init /\ [][Next]_vars

\* Graphics ticks go on, the worker is woken when it is notified or its timer
\* runs out, a settings update that was begun is carried through, and
\* shutdown() waits for nothing but the tick callback and the worker.  Who waits
\* for m_mutex gets it in the end, although the worker keeps taking it: SF.
FairSpec ==
    /\ Spec
    /\ WF_vars(Graphics)
    /\ WF_vars(WorkerStep)
    /\ \A s \in Sources : WF_vars(RetryDue(s))
    /\ \A e \in Editors : SF_vars(\E s \in Sources : editor[e].pc # "none" /\ Edit(e, s))
    /\ SF_vars(ShutdownUnhooks) /\ SF_vars(WorkerExits)

-----------------------------------------------------------------------------
Jobs == [source : Sources, type : {"query", "set"}, enable : BOOLEAN, file : Files \cup {NoFile}]

TypeOK ==
    /\ phase \in {"stopped", "running", "closing", "stopping"}
    /\ worker \in {"waiting", "locked"}
    /\ graphics \in {"idle", "run", "write", "post", "sources"}
    /\ notified \in BOOLEAN /\ rebalance \in BOOLEAN
    /\ reserved \in 0..Budget
    /\ jobs \in Seq(Jobs) /\ batch \in Seq(Jobs)
    /\ \A s \in Sources :
          /\ entries[s].life \in {"new", "tracked", "retired", "gone"}
          /\ entries[s].updates \in 0..Cardinality(Editors)
          /\ entries[s].settle \in 0..SettleTicks
          /\ entries[s].retries \in Nat
          /\ mutex[s] \in Editors \cup {"graphics", NoOne}

(* The metadata the worker is about to accept for a file was read from a     *)
(* player of that file, however edits, deferred updates and ticks interleave.*)
EstimateOfFile ==
    \A i \in DOMAIN completions :
        LET result == completions[i]
        IN  result.bytes # 0 /\ ~Removed(result.job.source) /\ entries[result.job.source].fresh
                => result.bytes = Size(result.file)

CachedSizes == [s \in Sources |-> IF player[s].caching THEN Size(player[s].file) ELSE 0]

(* m_reservedCacheBytes is the sum of what the entries hold, so the budget   *)
(* is neither leaked nor given out twice and no difference of unsigned sizes *)
(* wraps around, and the caches that players hold for tracked sources fit it *)
(* together, also while settings and players disagree.  Edits are guarded    *)
(* only while the manager accepts requests.                                  *)
BudgetIsKept ==
    /\ reserved = Bytes(Reservations, {s \in Sources : entries[s].life # "gone"})
    /\ reserved <= Budget
    /\ Accepting => Bytes(CachedSizes, {s \in Sources : Tracked(s)}) <= Budget

Quiet ==
    /\ Accepting /\ worker = "waiting" /\ ~notified
    /\ jobs = <<>> /\ completions = <<>> /\ ~InTickCallback
    /\ \A e \in Editors : editor[e] = NoEdit
    /\ \A s \in Sources : ~deferred[s] /\ ~signalled[s]
    /\ \A s \in Sources : Tracked(s) => entries[s].retry = "none"

(* With nothing left to do, every tracked source has been evaluated at its   *)
(* present revision, a cache is enabled exactly when its bytes are reserved, *)
(* and who waits for the budget does not fit.  If only the main view shows   *)
(* sources, those with a cache may be cached.                                *)
QuietIsSettled ==
    Quiet => \A s \in Sources : Tracked(s) =>
        /\ entries[s].scheduled /\ ~entries[s].pending
        /\ setting[s].caching <=> entries[s].reserved # 0
        /\ entries[s].reserved # 0 => entries[s].reserved = Size(setting[s].file)
        /\ entries[s].reserved # 0 => AuxViews \/ Eligible(s)
        /\ entries[s].waiting => Size(setting[s].file) > Budget - reserved

\* What the caches hold, what was reserved for them and what the settings ask
\* for agree: the budget always, the rest once nothing is left to do.
CachesAreAccounted == BudgetIsKept /\ QuietIsSettled

(* When events cease, the manager comes to rest or is stopped: no wake-up,   *)
(* retry or released budget is lost, and no guard waits for ever.            *)
ComesToRest == <>[](Quiet \/ phase = "stopped")
=============================================================================
