# TLA+ models of obs-studio-node

obs-studio-node is the bridge between an Electron frontend and libobs. A *client*, a Node addon
(`obs-studio-client`), forwards each call over an IPC pipe to a *server* process
(`obs-studio-server`) that hosts libobs. This directory holds TLA+ specifications of the parts of
that system whose correctness depends on the order of events or on decisions that build on one
another, the TLC configurations that check them, and proofs checked by TLAPS.

## The system

| Part | State it keeps | Operations | What makes it hard |
|---|---|---|---|
| IPC handlers | `utility::unique_object_manager`s: id to object | every `Register`ed call, on the connection's worker thread | libobs calls back on other threads while a handler runs |
| Outputs (`osn-output`, `osn-file-output`, `osn-recording`, `osn-*-recording`, `osn-*-replay-buffer`, `osn-*-streaming`) | the libobs output, `m_outputStopped`, the path claimed, the finalize tracker | Create, Start, Stop, Destroy, SplitFile, Save, Query | the muxer ends on a libobs thread; a stop may never be signalled; two outputs must not write one file |
| Shutdown (`main`, `nodeobs_api`, `shutdown-watchdog`) | the stage, its deadline and cap, the outputs finalizing | Arm, Kick, SetCap, Disarm, Begin, End | any step may hang; an output that is writing its file must not be killed |
| Media cache (`memory-manager`) | the sources watched, their state, the cache budget | registration, settings changes, graphics ticks, the worker | one worker owns decisions that libobs' threads and the IPC threads invalidate |
| Screenshots (`osn-screenshot`) | jobs and their phases | request, tick, encode, take the result, shutdown | deadline against late encoder; graphics thread and worker |
| Displays and canvases (`nodeobs_display`, `nodeobs_common`, `osn-video`) | the displays, the canvas each draws, the settings last applied | create, use, detach, shut down, add, set and remove a canvas | the graphics thread draws while another thread removes what is drawn |
| Sources (`osn-source`, `callback-manager`, `osn-volmeter`) | managers with one entry per libobs object, the polled map, meters and what they hold | create, rename, release, attach, detach, query, global signal handlers | signals create and remove entries while calls look them up; a lock held while libobs waits for a callback that takes it |
| Scenes and items (`osn-scene`, `osn-sceneitem`; `scene`, `sceneitem` of the client) | a number and a reference per item; the client's entries | add, move, remove, transform, reset | an entry is changed by calls that were not made on it |
| Source attributes (`isource`, `input`, `filter`, `transition`, `cache-manager`) | the client's entry per source, names to entries | getters, setters, filters, buttons | five classes write what one table remembers |
| Objects of outputs (`streaming`, `recording`, `replay-buffer`, `video-encoder`, `service`, `delay` … of the client, `utility.hpp`) | a wrapper's id and references; per class, id to object and plain pointers between objects | create, get, set, release, destroy, finalize | a garbage collector frees server objects that other server objects point at; ids start again with a new server |
| Properties (`obs-property`, `utility`, `properties`) | the buffers of one answer, the map a frontend walks | serialise, read, next, value | writer, size and reader are written three times |
| Settings (`nodeobs_settings`) | the configuration, the encoders' files, the service | fetch a page, save a page | the save finds values by place, by name and by group |
| Legacy service (`nodeobs_service`) | outputs and encoders in global variables, flags, the signal queue | start, stop, query, release worker | outputs share encoders; handlers, callbacks and a worker release them |
| Auto-optimizer, server (`nodeobs_auto_optimizer`, the policies) | the active session, its worker, probes and outputs | create, start, confirm, query, cancel, close, shut down | cancellation against probes, gates and shutdown; measurements that must not promise too much |
| Auto-optimizer, client (`nodeobs_auto_optimizer`) | the run, the poller, the queue of the thread-safe function | start, cancel, poll, finish, shutdown | a lost server, a shutdown and an end that meet |
| Crash handling (`util-crashmanager`, `crashpad-bridge`), browser subprocess (`cef-*`), host utilities | external processes | start, report, terminate | dependent on the operating system |

Every part, with the reason when it has no model, is listed in `PROJECT.json` under `components`;
what can go wrong, at the line where it can, under `hazards`.

## What each module models

| Module | Models | Checked by |
|---|---|---|
| `FileOutput` | recordings from `Create` to `Destroy`, libobs' muxer and signal threads, and the registry of paths claimed by file outputs | `MCRecordings.cfg`, `MCFileOutput_restart.cfg` |
| `FileLease` | what the claims are for: a file has at most one lessee, and only the lessee writes it | implemented by `FileOutput` |
| `ShutdownWatchdog` | `osn::ShutdownWatchdog` and `osn::FinalizeTracker`, with callers in any order | `MCThreads.cfg` |
| `Shutdown` | `main()` and `destroyOBS_API()` with the calls they make on the watchdog; extends `ShutdownWatchdog` | `MCThreads.cfg` |
| `Screenshot` | `ScreenshotManager`: submissions and polls, the graphics tick, the encoder thread and shutdown | `MCThreads.cfg` |
| `DisplayCanvas` | displays, the frames that draw them, and the canvases | `MCThreads.cfg` |
| `MediaCache` | `MediaCacheManager`: its worker, the graphics tick, settings guards, registration and shutdown | `MCMediaCache_*.cfg` |
| `SourceRegistry` | who holds and who points at a source: ids, the polled map, the volume meters, libobs' lists, the teardown | `MCSourceRegistry.cfg` |
| `OptimizerSession` | an auto-optimizer session in the server: calls, worker, start gate, probes, outputs | `MCOptimizerSession_sessions.cfg`, `MCEndings.cfg` |
| `SessionContract` | what a caller is promised of a session | implemented by `OptimizerSession` |
| `ProbePolicy`, `YoutubeRamp` | the YouTube bandwidth test and the policy that judges its samples | `MCDecisions.cfg` |
| `Settings` | the settings pages from the form to what the save stores | `MCDecisions.cfg`, `MCSettings.cfg` |
| `LegacyService` | streams, recording and replay buffer of `nodeobs_service.cpp` | `MCDecisions.cfg`, `MCLegacyService.cfg` |
| `OptimizerClient` | a run in the client: poller, thread-safe function, finishing worker | `MCClient.cfg`, `MCEndings.cfg` |
| `SceneItems` | items of scenes, their numbers, the client's entries | `MCClient.cfg` |
| `SourceCache` | the client's entry of each source and the handlers behind it | `MCClient.cfg` |
| `PropertyCodec` | properties from libobs to JavaScript | `MCClient.cfg` |
| `OutputObjects` | the JavaScript objects of outputs, encoders, services, delays, reconnects and networks: ids, references, collection | `MCDecisions.cfg` |
| `StreamingOutputs` | streaming outputs, broadcasts and replay buffers: settings, encoders, starts, destruction | `MCClient.cfg` |
| `*Samples`, `MC*` | the small instances | |
| `*Proofs` | the theorems and lemmas about the modules they extend | `tlapm` |

Several modules share a run: `MCThreads` (shutdown, screenshots, displays), `MCDecisions` (the
bandwidth test, settings, the legacy service, the objects of outputs), `MCClient` (items, sources, properties, runs, streams),
`MCEndings` (sessions of the server, runs of the client) and `MCRecordings` (two configurations of
`FileOutput`). Such a module has a variable `part` that never changes, and only the actions of that
part are taken; the parts share no state, so the run checks each of them as if it were alone. The
fairness of one part is vacuous while another runs, as its actions are not enabled there.

### FileOutput

The IPC worker is one process that executes one call at a time (`api`, with its position), because
the connection's worker runs handlers in turn; libobs contributes the muxer of each output and the
thread that delivers its `stopping` and `stop` signals. A call that releases a lock or waits is
split where another thread can run: `DeleteOutput()` at the stop, the wait for `m_cvStop`, its 20 s
timeout, the disconnection, which waits for a running handler, and the release. `FindBestFilename()`
is one step under `pathRegistryMtx`: it scans the claims and the disk and claims the first usable
name. Names are a base and a counter, so two outputs with one base compete.

*Bounds.* Two outputs, one or two bases, counters up to `MaxCounter`; `FindBestFilename` is disabled
when every name up to `MaxCounter` is in use, where the code would go on counting. Two outputs
suffice because a claim is compared with every other claim pairwise. `Settled`, `Shared` and
`Splitting` select the behaviours a configuration includes: `Settled` excludes the restart of an advanced
recording that races the end of its own previous run, `Shared` lets libobs keep a released output
alive, `Splitting` lets the muxer move to the next file. The run `recordings` has two simple recordings
restarted while they end, and, as its second part, a lossless simple and an advanced recording that
libobs keeps and splits.

*Properties.* `NoSharedFile` (no file has two writers), `WriterHoldsClaim` (whoever writes holds the
claim until it stopped), `NoLeakedFinalize` (an output that is gone is not counted as finalizing),
`DeletionsAreClean` (a delete waits only for a signal that is still to come, and no handler runs on an
object deleted or detached), `KeptAreClean` (the same of the second part), `ImplementsLease`, and
`CallReturns` (a started call returns). Fairness there is of the IPC worker and its 20 s timeout, of libobs'
threads, and of a muxer that was asked to stop, which `obs_output_release()` waits for; a capture may go on for ever.

*Proofs* (`FileOutputProofs`). Types are inductive together with `WritesPaths`, without which a file of an unknown name
could appear. For the files, `Exclusive` excludes what `advanced_restart` shows, splits, and sharing: the outputs are not split or shared, and
either starts are `Settled` or all recordings are simple and encoded, so that each start makes a new output. Then `Inv` is
inductive. Its core is `ClaimFollowsCall` (from `FindBestFilename()` to the start the name found is the one claimed),
`WriterClaims` and `ClaimsDiffer`; they hold because a claim is dropped only when the muxer is done (`StopAfterDrain`),
because a released output is quiet (`ReleasedIsQuiet`), and because a start finds its output quiet (`StartsQuiet`), which is
what a restarted advanced recording breaks. From `Inv` each step of a recording is one of `FileLease` or a stutter.

`NoLeakedFinalize` and the first half of `DeletionsAreClean` need none of this and hold in every configuration, by an invariant
about ownership: whoever's handlers are connected owns a libobs output (`ConnectedIsOwned`), between the disconnection and the
release nobody's are, and an output is counted as finalizing only while it is owned. The second half, that a delete waits only
for a stop that will be signalled, follows what a start finds: the muxer capturing or at rest (`StartsSettled`, or `StartsQuiet`
for simple encoded recordings), so that resetting `m_outputStopped` never forgets a stop that was delivered (`StopIsDue`,
`StopIsAwaited`).

*Disagreement.* The run `advanced_restart` is expected to find a violation, a finding in `PROJECT.json`:
an advanced recording restarted while libobs is ending its previous run records unclaimed, which
contradicts `osn-file-output.hpp:95`. With `Splitting` the same property does not hold either, as libobs
names the next file without the claims; and a start that is refused may leave an old claim behind.

### ShutdownWatchdog and Shutdown

Each method of the watchdog runs under its mutex and is one action. `Begin()` and `End()` exchange an
atomic flag and then call `AddFinalizing()`: two steps, `pending[th]` being what thread `th` has
exchanged and not yet added. `Shutdown` adds the thread that shuts the process down, either
`main()` or a client's `OBS_API_destroyOBS_API()`, step by step as it arms, caps and kicks the
watchdog. Any of these steps may take any time or never end: no fairness is assumed of that thread
(`ShutdownFairness`), only of the clock, the watchdog's own thread and a thread inside
`AddFinalizing()`. `SetCap()` directly follows `Arm()` and is fair too.

*Bounds.* Budgets keep the order of the code's (15, 30 with cap 180, 30 seconds) in a few units, and
the clock stops at `MaxNow`; a shutdown begins only while the clock has room for all its budgets, so
no property holds because time ran out. Deadlock is not checked: the process ends.

*Properties.* `BoundedShutdown`: a shutdown is over within the sum of the budgets, however many
outputs there are, which is what the cap is for. `KilledOnlyWhenStuck`: before the cap, the outputs'
stage is ended only after a whole step in which no output was deleted next and none was finalizing.
`NoneFinalizingAtTeardown` and `ShutdownEnds`, a part of the run's `ThreadsEnd`, are stated in the modules. A second shutdown in one process, which would meet managers that keep the
entries of deleted outputs, is outside the model.

*Proofs* (`ShutdownWatchdogProofs`). `CountMatchesTrackers`, that the count is of the trackers that have begun, is inductive together with the type invariant: `m_finalizing`, plus
the additions threads have still to make, minus the removals, is the number of trackers that have
begun. The proof needs only that there are finitely many outputs and threads, and turns each of
`Begin`, `End` and `AddFinalizing` into adding one element to a finite set or taking one away. A refinement
(`ShutdownUsesWatchdog`) carries it to `Shutdown`. There `ShutdownInv` adds that the stage armed is the one the thread is in
(`ArmedInStage`), that the stages before have used no more than their budgets (`WithinBudgets`), which gives `BoundedShutdown`; that a
deadline is a whole step away from the last deletion or the last output seen finalizing (`StepIsFresh`), which gives
`KilledOnlyWhenStuck`; and that whoever is still counted is still managed (`LeftIsManaged`), which gives `NoneFinalizingAtTeardown`.

### Screenshot

`Submit()` and `Query()` each run under `m_mutex` and are one action; `Submit()` first prunes
(`Pruned`), also when it then refuses. A tick is three steps: it collects work under the mutex
(`TickCollects`), renders without it (`TickRenders`, where staging and mapping may fail), and
commits under it (`TickCommits`). Polls, submissions and the encoder run in between. The encoder takes a task, writes the file without the
mutex, and records the result. `Shutdown()` has a step for each point where it lets others run. It
is serialised with submissions: a client's call runs on the same worker, and `main()` has ended the server
before. The flags of `Job` (`abandoned`, `tickBusy`, the GPU objects) are sets of job ids, and `gpu` follows
the objects themselves, so that a leak or a second destruction shows.

*Bounds.* A cap of two and three jobs, so that a submission meets a full cap while earlier jobs are being staged, mapped,
encoded or given up. Time is an age per job, `fresh`, `late` after the deadline and `stale` after the grace period; a batch
ages together and never before an earlier batch. Deadlock is not checked: once all ids are used nothing may be left to do.

*Properties.* `GpuOwned` (GPU objects are destroyed once, and none is left when the tick callback is unhooked) and `PollsEnd` (a client that polls is answered), the other part of `ThreadsEnd`. Fairness is
assumed of the clock, of the polling client and of the encoder; none of the frames: a tick that has begun ends, but a next one
need not come.

*Proofs* (`GraphicsProofs`). `JobsInv` follows a job's GPU objects: staged jobs hold them (`HeldIsStaged`), a tick that renders
has taken its jobs aside (`TickIsApart`, `GpuOfTick`), and what was destroyed is in neither set (`DestroyedOnce`). The cap is
about frames in memory: those handed to the encoder, plus jobs that may still be handed (`InFlightIsQueued`, `WithinCap`).

### DisplayCanvas

A display keeps a plain pointer to its canvas, the graphics thread reads it in each frame, and libobs frees a canvas that is
removed. What keeps them apart are `displaysMutex` and three flags: `acceptNewDisplays`, the removal in progress, and the
shutdown. A call is one action under the mutex and one step for each stretch outside it: a display is used (`BeginUse`,
`EndUse`), detached (`BeginDetach` to `EndDetach`), or deleted while it waits for the frame that is drawing it. A canvas is
removed in three steps, and setting one (`SetVideoContext`) compares with what was last applied and may skip.

*Bounds.* Two callers, two displays, two canvases at two addresses that libobs uses again once they are free, two settings, six
calls. The address that comes back is what a comparison of settings by pointer must survive.

*Assumptions.* No two calls set canvases at once and none races the removal of one (`Quiet`, `NoSetter`): the frontend awaits
these calls. Rebuilding the graphics device, in which the graphics thread asks for `displaysMutex` while a call that holds it may
ask for libobs' graphics lock, is not modelled; nor is what is drawn, nor the windows.

*Properties and proofs.* `CanvasOutlivesDisplays` and `SkippedIsApplied`, both proved (`GraphicsProofs`) from one invariant,
`DisplayInv`. For the first: a display in the table is alive, one call at a time detaches or deletes it (`OneAtATime`), whoever
uses it is counted (`HeldInStep`), and a frame reads only displays whose draw callback is registered (`FrameIsAlive`), which
have a canvas that libobs knows (`CanvasIsLive`) because a canvas that is being removed is used by none (`RemovedIsUnused`).
For the second: what is remembered as applied to an address is what the canvas at that address runs with (`AppliedRuns`).

### MediaCache

Four kinds of threads meet in `MediaCacheManager`. The *worker* (`WorkerWakes`, `Complete`,
`Schedule`) owns decisions and accounting; it holds `m_mutex` from one wait to the next, so whoever
needs the mutex is enabled while `worker = "waiting"`. The *graphics thread* takes a batch of jobs
in its tick callback (`TickTakes`), runs one after the other without the mutex (`QueryMedia`,
`SetValidated`, `WriteCaching`), posts the results, and then ticks the sources (`SourcesTick`), which
is when ffmpeg_source applies settings and libobs signals activity. An *IPC thread* edits a source's settings
under a guard (`Track` to `FinishUpdate`). *Callbacks* register, remove and invalidate.

A source has two truths: `setting`, the live settings, and `player`, what the plugin's current player was
created with; `deferred` says that the plugin is yet to apply the settings. Revisions are compared
only for equality, so each entry keeps the outcome of the two comparisons the code makes,
`scheduled` and `fresh`, and a new revision (`Bumped`) clears both. The tick count appears as the
number of callbacks a query still has to let pass (`settle`), and the worker's timer as a retry that becomes due
at any time after it was armed. Whether media are ready is a choice of the environment at every query. A source is
assumed to loop a local file with `close_when_inactive`, so eligibility is the preference and being shown.

*Bounds.* Files of size one and two and a budget of two, so that one file fits with another or fills the budget; one job per tick, so that a batch ends before the queue does; `MaxEvents` edits, removals, preference changes and
changes of view, after which the manager runs on. Two sources are needed for contention (`media_cache_budget`), two editors for nested
guards (`media_cache_edits`). Deadlock is not checked: a stopped manager does nothing.

Every byte of a reservation is an element (`Bytes`), so sums are cardinalities, and what stays in a queue is given by
its places (`Picked`): both can be reasoned about for any number of sources and jobs.

*Properties.* `CachesAreAccounted`, of two parts: `BudgetIsKept` (the budget is neither leaked nor given twice, and what the players really hold fits,
although settings and players disagree at times) and `QuietIsSettled` (once nothing is left to do the
caches, the reservations and the settings agree and whoever waits does not fit). `EstimateOfFile` (a file is never given the
size of the player that preceded it) and `ComesToRest` (that moment comes). The
last assumes that ticks go on, that the worker runs, and that a thread waiting for `m_mutex` obtains it in the end,
although the worker may take it again and again in between.

*Proofs* (`CacheProofs`). All of it but `ComesToRest`, from the inductive `MediaInv`, whose parts say: no source has two jobs on
their way, and the graphics thread's place says which of its sequences are empty (`OneJobEach`); an entry is pending exactly
when its job is on the way, and the job is of the last evaluation exactly when the entry is fresh (`PendingIsOnTheWay`); a
query runs only when the player has the settings, because every guard that ends sets `settle` and every tick lets it fall by one
(`QueriesAreInTime`), which is what makes results true of source and estimate (`ResultsAreTrue`); what is written under the entry's
lock was validated under it and no editor got in between (`WriteIsValid`, `EditorsInOrder`); a cache that a player holds is
reserved but for the rest of the tick in which it was disabled (`CacheIsReserved`); who is not looked at now has been or
will be (`NobodyForgotten`); and the reservations add up (`ReservationsAdd`). There is one lemma per action and part;
lemmas such as `PhaseGoesOn` and `PlayersStay` say once what groups of actions leave alone.

`EstimateTrue` and `BooksAndRest` hold whatever saved settings contain. `CachesAccounted` assumes that they do not ask for
caching (`TRUE \notin SavedCaching`), and needs to: a source that is loaded with `caching` set has a cache that
nothing was reserved for until its first evaluation disables it, so several such sources exceed the budget for that time.

Eligibility asks whether any view shows the source, re-evaluation follows the main view only: a source that a
display alone has shown keeps its cache when the display closes. The properties above allow it.

### SourceRegistry

The server's sources and everyone who points at one. `refs` names who holds a reference: the creator, a scene, an output
channel, the media cache's worker, a meter, a call. Whoever drops the last one hands the source to libobs' destruction thread,
whose signal handler takes it out of the manager of ids and of the map that `GlobalQuery` walks. A volume meter is attached and
detached under `mtx`, and libobs waits, inside `obs_volmeter_detach_source()`, for a level callback on the audio thread that
takes the same `mtx`. Locks that span more than one step appear as their holder, so that each wait is visible. The teardown
clears the callbacks, joins the worker, and walks libobs' lists while it asks for signals.

*Bounds.* One input, one transition, one meter, two callers, two names, six calls: a meter that is attached while another call
detaches it, and a name that moves to another source, need two of each and no more.

*Assumptions.* libobs keeps the names of live sources apart; a client releases an object once; the teardown begins with no call
under way. Fairness is strong, of each call, the destruction thread and the teardown: they wait for locks that others take in
between.

*Properties.* `NothingDangles` (no call, callback, query or walk uses a source that is gone, and what is listed is alive) and
`CallsReturn`. A source renamed stays in the polled map under its old name, and transitions' handlers push events without a
lock; the first is modelled, the second is a data race on a queue that no property here is about.

*Proof* (`SourceRegistryProofs`). The invariant says of each pointer who keeps its target alive. A source an id leads to, or a
walk has reached, is held or not yet destroyed (`UidIsHeld`, `DyingIsAlive`); the audio thread captures what is held
(`CapturedIsHeld`, `AudioIsCaptured`); an attached meter is held by its own reference or by the call that detaches it, so
detaching always finds the callback to take out (`MeterIsKept`, `CallbackIsHooked`). It needs that the identities of holders
are distinct (`RegistryAssumption`).

### OptimizerSession, SessionContract

One session runs at a time. `CreateSession`, `StartSession`, `ConfirmProbeIngest`, `QuerySession`, `CancelSession`,
`CloseSession` and `Shutdown` are the callers' operations; a call that waits for the worker or lets a lock go is split there. The
worker goes through its phases (`Preflight`, the hardware test, the probes, the end); the threads of a concurrent hardware test
wait behind their start gate; each task makes, starts, measures and releases a libobs output, which a call that cancels borrows
under `lifecycleMutex` to force its stop. One concurrent test stands for the ladder of them, and any wait with a
deadline may end by it whenever it has not ended otherwise.

*Bounds.* `optimizer_sessions`: two sessions, two callers, a hardware test of two attempts, a YouTube probe and one that shares
its connection, five calls; sessions, callers and attempts are symmetric. `optimizer_endings`: one session, a second probe, three
calls, under fairness of callers, workers, tasks and libobs' stops. No client is obliged to confirm, and a notification may be lost.

*Properties.* `BorrowedIsAlive`, `RunsAlone`, `TornDownIsQuiet`, `EndIsComplete`, `EverythingEnds` (a part of the run's `RunsSettle`), and that the session
implements `SessionContract`: created, running, ended once with one outcome, closed.

*Proofs* (`OptimizerSessionProofs`). All four invariants and the refinement, for any sessions, callers, attempts and probes.
The inductive invariant ties an output to its task (`OutputOfTask`), a task to the worker's phase (`TasksInPhase`), a worker to
its session's state (`WorkerOfState`, `SettledBeforeState`) and the active session (`ActiveOfState`), a call to the locks it
holds (`BorrowedUnderLock`, `StateOfCall`), and the shutdown to all of them (`ShuttingDown`).

### ProbePolicy, YoutubeRamp

`ProbePolicy` has the decisions of `auto-optimizer-probe-policy.hpp`: the ladder of targets, the budgets of time and bytes, and
what one, two or three samples say of the path. `YoutubeRamp` is the branch of `runRtmpProbe()` that uses them once the ingest
is confirmed: a baseline of two or three samples, rungs of rising target, and for a rung under pressure a drain, a control, a
retry and a sustained retry, until the result. Its variables are that function's locals.

*Bounds.* What the path does is chosen per sample from a clean, a marginal and a hard transport, a share of the expected
throughput of 40 or 100 %, one disturbed segment per test and two times that connecting may have taken; four workloads. The
policy's thresholds compare a sample with these bounds only, so that each verdict occurs. Caps below 1000 kbps, the throughput
basis, the reliability flag and the Twitch test are not modelled. The test ends by its budget; only safety is stated.

*Properties.* `RecommendsWhatHeld` (a recommendation is supported by what a sample carried, and lies under a rung that was
pressed) and `ReserveSuffices` (time kept for a confirmation is enough for it).

*Proofs* (`StreamingProofs`). `RecommendsWhatHeld` for every workload, transport and share, by `RampInv`: a baseline is
usable only when it was measured (`BaselineIsMeasured`, with `TwoSettle` and `ThreeSettle` of the settling decisions), what is
validated never exceeds what some sample carried (`ValidatedIsCarried`), a pressed rung is the first of its episode
(`PressedOfRung`), and evidence is usable only once an episode was decided (`DecidedLast`, `UsableIsHeld`). Two lemmas about the
policy itself, `ReserveCovers` and `TwoCleanSuffice`, are proved for all numbers. `ReserveSuffices` follows time and bytes
through the whole ramp and stays with TLC.

### Settings

A page is fetched as a form whose length depends on what is stored; the frontend changes one value and hands the whole form
back; the save finds a value by its place, by its name or by the place of its group. `getSettings` and `saveSettings` of each
page are operators from the configuration to the form and back, and one call is one action, as nothing else changes the
configuration between a fetch and the save of what was fetched. After a save the code repairs what no longer goes together.

*Bounds.* Three saves with two or three values per setting, enough for a form to change its layout, be saved in the new
layout, and change back.

*Properties.* `OneSettingChanges` (the value changed is the one fetched afterwards, nothing else changes but what must follow),
`SettingsFit` (quality, format and encoder of a recording go together; a common service has a server of its
catalog, and a key only if the key was typed for it). The run `split_recording_setting` is expected to find a violation, a
finding: the advanced recording page stores the setting that splits recordings at the wrong place.

*Seen on the way.* `FPSNum` and `FPSInt` of 500 and more are dropped although their form allows them; a save of the advanced page
reports an error after it has stored, when the video reset fails; saves while recording skip the repair;
`saveGeneralSettings()` is never called. What a fetch of the advanced output page overwrites on its own is not modelled.

### LegacyService

`heap` has the libobs outputs and encoders in the order of creation, and the global variables that hold them. A handler is one
step except where another thread can come between: `startStreaming()` lets go of the old output in one step and makes the new
one in the next, `stopStreaming()` waits for the release worker, and the worker takes four steps: the archive encoder, the output
(`nodeobs_service.cpp:3126`), its variable (3127), the context (3129). A multitrack output is held by the variable and the context, so it is the
last of these steps that waits for its end. The archive encoder is the second track of the first stream's output, and
`setupVodTrack()` makes it anew for the start of either stream unless it is active. libobs is assumed to stop an output before its last reference is gone, to
destroy an encoder in use once its output stops, and to refuse a start that lacks an encoder; outputs are given no reference
to their encoders, which is the harder case for what is checked here (`StreamingOutputs` takes the other one, which is the harder
case there).

*Bounds.* Three calls (four in the run that shows the disagreement), frontends with two streams, or a stream and both
recordings, six configurations that choose encoders differently. In the passing run the frontend is *patient*: it reads every
signal before the next call and starts the stream that was stopped only when its worker has ended. The other stream, the
recording and the replay buffer start between any two steps of the worker. The
shutdown finds multiple rendering on or off, as a global setting the client may change at any time.

*Properties.* `OutputsKept`: outputs and encoders are released once, what is held is alive, what runs is held, and a stream that
connects has its encoders. The run `stopped_stream_restart` has a frontend that does only what the tests do, start again once the
end was signalled: a stream it has seen start may be released by the worker of the stop before (finding).

*Seen on the way*, and excepted in `OutputsKept`:

- Between 3126 and 3127 the variable names an output that may be gone. A recording or replay buffer that starts there has
  `connectOutputSignals(Main)` read it (2956).
- While the first stream connects, its archive encoder is not active yet, so the start of the second replaces or removes it
  (1302, 3641-3644), and the worker of the second's stop releases it (3124).
- A refused start of the second stream is reported by a `SignalInfo("streaming", "stop")` without a stream (1311), which is the first's.
  The frontend may then start the first again while it connects; a multitrack output is left to the context alone, where no stop
  reaches it.
- `clearArchiveVodEncoder()` tests, releases and clears in three operations that a start and the worker may both be in. The model
  has each of them whole.

Left out: the virtual camera but for the signal of its stop, contexts of video and audio, settings saved while a stream connects,
and the values encoders are given.

### OptimizerClient

One action of JavaScript is one turn of its thread; the poller, the finishing worker of the pool and the thread-safe function are
the other actors, the server is an environment that emits a session's events in order, answers, refuses or is lost.

*Bounds.* Two runs, one event before the last (none for the liveness), one fault, two calls of `cancel()` or shutdown. A run
whose session is lost to a shutdown before its end had begun never settles unless `cancel()` is called: `AttemptsEnd`, the client's part of `RunsSettle`, is about
attempts that have begun. A finishing worker that cannot be scheduled, and `Ref`/`Unref`, are left out.

*Properties and proof.* `OneRunAtATime`: events reach the run they are of and in order, a run that is over has left nothing behind,
a session that is open is never forgotten. Proved (`ClientProofs`) from `Control`, which follows an attempt from the worker
to the promise (`BegunFirst`, `AttemptOfWorker`, `ClosedStays`, `OpenIsKnown`), and `Order`, which follows an event from the server
to JavaScript: what the poller may still get lies past `lastEventSequence`, what is queued does not, so each decoded event is valid.

### SceneItems, SourceCache

The client answers some getters, and swallows some setters, from what it remembers. `SceneItems` has libobs' scenes, the numbers the
server gives to items and its reference to each, and per item the client's values and flags; `SourceCache` has per source the
values and flags of settings, properties, filters, mute and mixers, and the table of names. A getter that answers from its entry
changes nothing and is the operator `answered` (`sourceAnswered`), a setter that finds nothing to do is `skipped`; the actions are the calls
that reach the server.

*Bounds.* Two scenes, two items, two values, five calls; three sources of two types that change on their own, a fourth, three
calls. Bounds, alignment, cropping to bounds, deferred updates and private scenes are left out.

*Assumptions.* The defaults of `SceneItemData` are libobs'; the types whose settings or properties libobs changes on its own are
those the client never trusts (`RestlessSettings`, `RestlessProperties`); the frontend invalidates the transforms of a canvas that
was reset (`stale` names what it still has to).

*Properties.* `CacheIsHonest` (a getter's answer is libobs' value, a setter is swallowed only when libobs has the value),
`ManagedIsAlive` (the server holds each item it can be asked for), `EntriesTrue` (an answer is what the server has unless the attribute changed past
its flag, which `astray` records; no name leads to a removed source).

*Proofs* (`CacheProofs`). `ItemsInv`: an entry of an item that the server knows is true but for fields that are flagged, or
`stale` after a canvas reset (`EntriesHonest`); an item has one number (`OneUid`), so a change to it concerns one entry; libobs numbers
items in order, so that a new one is new to every number (`MadeInOrder`, `UnmadeIsEmpty`). `CacheInv`: attributes that are not
flagged or astray agree (`AnsweredIsTrue`), those of restless types stay flagged (`RestlessIsFlagged`), a name leads to a source
remembered under it (`NamedIsRemembered`), and what was removed is forgotten (`RemovedIsForgotten`).

### PropertyCodec

The server writes each property field by field into a buffer of exactly its size; the client reads the fields back in the order it
expects, and keeps the map that JavaScript walks. A buffer is a sequence of cells, one per number or text; a reader that is not where the
writer was finds junk. Integers wrap at `Half`, which stands for 2^31.

*Bounds.* Twenty-one samples that have every type with its empty and full variants, two together. `PropertiesArrive` says that each
field fits the buffer and what JavaScript is shown is what libobs offered.

*Seen on the way.* A list's items carry the property's `enabled`; the reader of frame rates does not step over option texts; a
`Capture` property has no value; `previous()` throws for all but the first; alpha colours are shown as colours.

### StreamingOutputs

`stream` and `replay` have what each object is set to, `output` the libobs output it holds with its video and an audio slot per track, and
`lingering` one that was let go of while libobs still ran it. Handlers run on one IPC thread and are one action each; libobs ends an
output when it likes (`OutputEnds`, `LingeringEnds`) and refuses a start when it likes (`Started`). `owned` has the audio encoders
the server made and has not released; an output has references of its own to what it carries. A start goes through the same
operators as the code: the output is made anew or kept by its type, encoders are capped by the service, the second audio of Twitch
is set up or stopped. A broadcast keeps its encoders and the tracker of its packet callback in a context (`broadcast`); its
destruction is two steps, the context first, and may come while it runs. A stop only asks, so `OutputEnds` covers it.

*Bounds.* A simple and an advanced stream, an enhanced broadcast, an advanced replay buffer, each by itself with two calls that set
something, and either replay buffer with a stream it borrows from, with one; two starts; one video and one audio encoder; two tracks. An object's
output lingers at most once. A start needs two encoders of every track that nothing has (`Spare`), and `Copies` is large enough that
this holds in every state of the run. Two starts are enough as a start depends on the output and encoders the one before left.

*Assumptions.* The frontend destroys a replay buffer, or takes its stream away, before the stream (`Lent`),
and gives a replay buffer a recording, whose format its start reads. `MultipleRendering` is `obs_get_multiple_rendering()`; the run has it on, as
without it `usesStream` has no effect, and the theorems are for both.
`SetAtIndex()` deletes the track before, which stays in its manager; no call is made on it.

*Properties.* `SendsWhatIsSet`: a stream or replay buffer that begins has the encoders, tracks, service and cap it is set to, whatever the kept
output had before. `EncodersOwned`: an encoder has one owner until it is released, and is not forgotten. `TrackerOutlivesCallback`: through
starts, restarts, stops and outputs that libobs does not stop in time, an output that can call the packet callback has the context with
the tracker. It says nothing of a destruction: `~EnhancedBroadcasting()` frees the tracker and only then does `~Streaming()` stop the output,
through an override of `DeleteOutput()` that is no longer reached, so the callback of a broadcast that runs is left with a tracker that is gone. `Destroy()` and
`destroyOBS_API()` do that to any broadcast that was not stopped. The model makes these steps (`DestroyContext`, `DestroyStream`).

*Proofs* (`StreamingProofs`). All three, for any streams, replay buffers, services, encoders and tracks, from one inductive invariant,
`StreamsInv`. `EncodersOwned` alone is not inductive: a start could make an encoder that another output still carries and its
destruction release it there. `OwnersCarry` (what somebody owns is on nobody else's output) closes this, with `FreshIs`: while
`Spare` holds, an encoder that a start makes is new, also when the start made one before. `OneOwner` is the argument for a step
of any object: what it releases was its own, what it makes is new, and its outputs carry no more than before. `TrackerOutlivesCallback` rests on
`CountedKept` and `DyingOK`, and on `LetGoSilent`, that nothing but a restart lets go of a broadcast's output outside a destruction and that a restart
takes the callback off first. For `SendsWhatIsSet` the invariant says what an output that is kept can still have in its slots: a simple stream
without an archive nothing in the second one, a simple replay buffer nothing but the first (`OutputOK`). `OthersBegin` shows that nothing but a start begins an
output; then each kind of start is followed through its operators, each with a lemma (`AudioSet`, `SetupVodIs`, `SetupSoundtrackIs`, `TracksSet` and others), up to
the order of a mixer's tracks (`NthIsOne`).

*Seen on the way.* A simple stream is not capped while its audio encoder is active elsewhere; taking the recording from an advanced
replay buffer takes its stream; the archive of a stream destroyed while its output lingers is not released.

### OutputObjects

A script's object is a *wrapper* of an object in the server, which it names by an id. A setter such as `SetVideoEncoder` hands
the server the id of another wrapper, the server keeps a plain pointer (`pointers`), and the wrapper keeps a reference (`shown`)
that its getter gives and that keeps the garbage collector from the other wrapper. `Finalize` is the collector: for most classes
it has the server free the object. Services and outputs end by their class's `destroy()`, encoders also by `release()`. `Class` says for each
of the fourteen classes which manager knows its objects, which fields a script sets, what is borrowed and how objects end. `madeIn` is the
connection a wrapper was made in: the wrappers of a server that is gone may be collected while the next one is running.

*Bounds.* Eight triples of classes, in which each class occurs but the advanced broadcast, which differs from the simple one in its fields; three fields of two values, a connection that ends once, with or without its
server. A setter relates three objects: an output, the object before and the object after.

*Assumptions.* A setter is given an object of its class, methods are called on wrappers of the present connection. The collector
takes what nothing refers to; a node addon's references are not traced.

*Properties.* `CollectorIsSafe`: a wrapper's object lives until the frontend ends it and is nobody else's, and what an output
with a wrapper points at lives and has a wrapper, unless the frontend ended it. `ShownIsUsed`: what a getter gives is what the server uses,
and fields have the values last set, also after calls that were refused.

*Proofs* (`ClientProofs`). Both, from `ObjectsInv`. The core is `LentIsShown`, that what the server points at is shown by the
wrapper, with its converse `ShownIsLent`, and `ShownIsHeld`, that references join wrappers that were not collected and are of one
connection; a replay buffer keeps one reference for two pointers, so the first speaks of its slot in use only (`Referred`).
`Numbered` (ids are given in order and nothing is about an id not given yet) makes a new object new to every wrapper, pointer and
field. The three ways in which objects end share one lemma, `EndKept`.

Left out: canvases, signal handlers, legacy settings, whose encoders have no wrapper, and the flag that tells a replay buffer's
stream from its recording. A replay buffer that is given a stream may keep a pointer to a recording whose reference it dropped.

*Seen on the way.* `setNetworkLegacySettings` writes the dynamic bitrate to `NewSocketLoopEnable` and `LowLatencyEnable`
(`osn-streaming.cpp:415`); a simple replay buffer's start reads its recording's format also when it uses the stream; a refused
`InstanceOf` check throws and goes on.

## What is proved and what is only checked

Every theorem is about every value of its module's constants that satisfies the module's named assumption. Those assumptions
say what kind of thing a constant is, that markers such as `Nobody` are not elements of the sets they are outside of, and, for
`SourceCache`, which types libobs changes on its own.

| Theorem | Run's property | What it says |
|---|---|---|
| `FileOutputProofs!TypeCorrect` |  | Every variable keeps its type for any outputs, names and settings of the bounds, with restarts, splits and shared outputs included; what is on disk was named by a start or a split. |
| `FileOutputProofs!WritersHoldClaims` | `WriterHoldsClaim` | For any number of recordings that are not restarted while they end, split or shared, a file is claimed by its output until its muxer is done. |
| `FileOutputProofs!FilesNotShared` | `NoSharedFile` | Under the same conditions no two muxers write one file. |
| `FileOutputProofs!RecordingsLease` | `ImplementsLease` | Under the same conditions every step of the recordings is a step of FileLease or leaves it unchanged. |
| `FileOutputProofs!FinalizeNotLeaked` | `NoLeakedFinalize` | In every configuration, restarts, splits and shared outputs included, what the watchdog counts as finalizing still has a libobs output whose stop ends it. |
| `FileOutputProofs!CallbacksAreLive` |  | OnStopped() runs only on a registered recording that has its libobs output, in every configuration: a deletion cuts the signals before it lets go. |
| `FileOutputProofs!DeletionsClean` | `DeletionsAreClean` | No handler runs on a recording that was deleted or let go of its output, and DeleteOutput() waits only for a stop that is still to come: for any number of recordings that are not started again while they end, split and shared ones included, and for simple encoded ones started at any time. |
| `ShutdownWatchdogProofs!TypeCorrect` |  | The watchdog's variables keep their types for any trackers, threads, budgets and caps. |
| `ShutdownWatchdogProofs!CountCorrect` |  | For any number of outputs and threads racing on Begin() and End(), the count of finalizing outputs plus the additions still to be made is the number of outputs that are finalizing. |
| `ShutdownWatchdogProofs!ShutdownUsesWatchdog` |  | What main(), destroyOBS_API(), libobs' signal thread and the deletion of outputs do to the watchdog is, step by step, what the component's own specification allows its callers. |
| `ShutdownWatchdogProofs!ShutdownWithinBudgets` | `BoundedShutdown` | For any budgets, steps, caps and numbers of outputs and threads, a shutdown is over or the process has been ended within the sum of its budgets. |
| `ShutdownWatchdogProofs!TeardownFindsNone` | `NoneFinalizingAtTeardown` | Whichever of the stop signal and the deletion ends a tracker, no output counts as finalizing when the teardown begins. |
| `ShutdownWatchdogProofs!KilledWhenStuck` | `KilledOnlyWhenStuck` | The watchdog ends the process only in a shutdown, and before the cap only after a whole step in which no output was deleted and none was finalizing. |
| `CacheProofs!EstimateTrue` | `EstimateOfFile` | For any sources, files, editors, budget and number of edits: no file is accepted with a size that was measured on the player before it. |
| `CacheProofs!CachesAccounted` | `CachesAreAccounted` | Unless saved settings already ask for caching: reservations add up and fit the budget, so do the caches the players of tracked sources hold, and at rest settings, players and reservations agree and whoever waits does not fit. |
| `CacheProofs!BooksAndRest` |  | Whatever saved settings hold: reservations add up and fit the budget, and at rest every tracked source is evaluated and agrees with its reservation. |
| `GraphicsProofs!ScreenshotTypes` |  | The manager's and the encoder's variables keep their types for any jobs, polls and caps. |
| `GraphicsProofs!GpuObjectsOwned` | `GpuOwned` | For any number of jobs, GPU objects are destroyed exactly once and somebody who is going to destroy them always knows them, whatever the tick, polls, deadlines, the encoder and a shutdown interleave. |
| `GraphicsProofs!CapKept` |  | Encodes in flight and jobs still to be handed to the encoder never exceed kMaxActiveJobs together, however jobs are given up and pruned. |
| `OptimizerSessionProofs!BorrowedAlive` | `BorrowedIsAlive` | For any sessions, callers, attempts and probes, the outputs a cancelling call has borrowed exist until it gives them back. |
| `OptimizerSessionProofs!RunAlone` | `RunsAlone` | While a worker runs or an output exists its session is the server's active one. |
| `OptimizerSessionProofs!TornDownQuiet` | `TornDownIsQuiet` | Once Shutdown() has returned no worker, output or credential is left, whatever other calls were under way. |
| `OptimizerSessionProofs!EndComplete` | `EndIsComplete` | When a call that cancels or closes a session reports success, nothing of it runs or can start; and whoever sees that a session has ended finds its result and no credentials. |
| `OptimizerSessionProofs!Implements` | `ImplementsContract` | Every step of the calls, the worker and libobs is a step of SessionContract or leaves it unchanged. |
| `OptimizerSessionProofs!TypeCorrect` |  | Every variable keeps its type, for any constants that meet the assumptions. |
| `SourceRegistryProofs!TypeCorrect` |  | The variables of the registry, the meters, the polled map and the teardown keep their types for any sources, callers and names. |
| `SourceRegistryProofs!NeverDangles` | `NothingDangles` | For any number of sources, meters and callers, whoever uses a source or a meter without a reference of it finds it alive, and ids and the polled map lead to sources that exist, through releases, detachments, renames, queries and the teardown in any order. |
| `StreamingProofs!ReserveCovers` |  | For any targets and limits, a rung that is started under the reserve can be confirmed within the limits, whatever it spent of what it was granted. |
| `StreamingProofs!TwoCleanSuffice` |  | Two clean samples of three make the baseline's judgement clean, whatever the third was. |
| `StreamingProofs!RecommendsHeld` | `RecommendsWhatHeld` | For any workload, transport and timing the bandwidth test recommends only what a sample carried, and for a rung nothing resolved no more than that rung delivered. |
| `CacheProofs!ItemsTypes` |  | The server's scenes and items and the client's entries keep their types for any scenes, items, values and calls. |
| `CacheProofs!ItemsAreAlive` | `ManagedIsAlive` | For any number of scenes and items and any order of calls: an item that the server may be asked for by its number is one it holds a reference to. |
| `CacheProofs!EntriesOfItemsHonest` | `CacheIsHonest` | For any number of scenes, items and values: a getter answers from an item's entry, and a setter returns without a call, only when the entry says what libobs has, but for what a canvas reset changed that the frontend was to invalidate. |
| `CacheProofs!CacheTypes` |  | The sources, the client's entries and its table of names keep their types for any sources, types and calls. |
| `CacheProofs!EntriesOfSourcesTrue` | `EntriesTrue` | For any sources, names, types and calls: what a getter answers from a source's entry is what the server has, unless the attribute changed past its flag, and no name leads to a removed source. |
| `ClientProofs!TypeCorrect` |  | The variables of the client's runs, the poller, the pool's workers and the server's sessions keep their types for any runs, events, calls and faults. |
| `ClientProofs!OneRun` | `OneRunAtATime` | For any number of runs, with cancellations, refused calls, shutdowns and a lost server at any moment: events reach the run they are of, in order; a run that is over has left nothing behind in the server or the client; and a session that is open is never forgotten. |
| `GraphicsProofs!DisplayTypes` |  | The variables of the displays and their canvases keep their types for any callers, displays, canvases and addresses. |
| `GraphicsProofs!CanvasOutlives` | `CanvasOutlivesDisplays` | No draw callback, call on a display or setter of a canvas ever uses a canvas that has been removed, for any number of callers, displays and canvases. |
| `GraphicsProofs!SkippedApplied` | `SkippedIsApplied` | Settings of a canvas that are skipped because they were applied already are the ones libobs runs with, for any number of canvases, addresses and settings. |
| `StreamingProofs!StreamsTypes` |  | The settings, outputs, encoders and contexts of streams and replay buffers keep their types for any number of them, of services, encoders and tracks. |
| `StreamingProofs!AudioEncodersOwned` | `EncodersOwned` | For any streams and replay buffers, however their starts, failures, restarts and destructions follow one another and whatever output libobs does not stop in time, an audio encoder that the server made has one owner until it is released. |
| `StreamingProofs!CallbackHasTracker` | `TrackerOutlivesCallback` | For any number of broadcasts, through starts, restarts and stops: an output that can call the packet callback has the context with its tracker, and none that is let go of can call it. The destruction of a broadcast is excepted, as the code frees the tracker of one that runs. |
| `StreamingProofs!SendsAsSet` | `SendsWhatIsSet` | For any settings, tracks and services, a stream or replay buffer that begins sends what it is set to, whatever the output that it kept from an earlier start had in its slots. |
| `ClientProofs!ObjectsTypes` |  | Types of the wrappers and of the server's objects: references join wrappers, pointers join objects of the managers. |
| `ClientProofs!CollectorSafe` | `CollectorIsSafe` | For any number of wrappers of any of the fourteen classes and any connections and disconnections: the garbage collector frees nothing in the server that a wrapper, or an output with a wrapper, still uses. |
| `ClientProofs!ShownUsed` | `ShownIsUsed` | In the same generality: what a getter of an output gives is what the server uses for it, and fields have the values last set through the wrapper, also after setters that were refused. |

What stays with TLC, and why:

- Liveness (`CallReturns`, `ThreadsEnd`, `ComesToRest`, `RunsSettle`, `CallsReturn`): fairness and
  `ENABLED` are outside what the provers handle.
- `ReserveSuffices`: an arithmetic argument over the whole ramp, whose cases the provers did not get through.
- `SettingsFit`, `OneSettingChanges`, `OutputsKept`: forms and the release of several outputs at once are built with folds.
- `PropertiesArrive`: a statement about the samples, run through writer and reader.
- `KeptAreClean` is the instance of `DeletionsAreClean` that TLC runs for the second configuration; `DeletionsClean` proves it for every configuration.

## Not modelled

Crash handling, the browser subprocess and the OS utilities start and watch external processes. Faders are attribute holders
with one object per id. The configuration of a multitrack output comes
over HTTP and is only translated. The IPC library is not part of this tree. `PROJECT.json` says the same per component.

## Plan

Done: outputs and their lease; the watchdog and the shutdown; the media cache; screenshots and displays; sources, meters and the
polled map; the optimizer's sessions, bandwidth test and client; items, sources and properties in the client; settings; the
legacy service; streams, broadcasts and replay buffers; the objects of outputs; and the safety proofs above.

Next: `OutputsKept` for the legacy service's single-stream part; a step-wise argument for `ReserveSuffices`; a restart of the
media cache after a shutdown.
