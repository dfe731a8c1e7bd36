--------------------------- MODULE SourceRegistry ---------------------------
(* The sources of the server and who points at them: the registry of ids,    *)
(* the map the client's polling query walks, the volume meters, and libobs'  *)
(* own lists.  Sources are released by calls, by the media cache's worker    *)
(* and by scenes, and destroyed on libobs' destruction thread, whose signal  *)
(* handlers take them out of the registry; the audio thread calls the meters *)
(* back; the teardown walks whatever is left.  Locks that span more than one *)
(* step appear as their holder.                                              *)
EXTENDS Naturals, FiniteSets

CONSTANTS Sources, NoSource,
          Transitions,   \* sources that Release does not mark as removed
          Names, Meters, Callers,
          MaxCalls       \* bound: calls that are made

Nobody == "nobody"

\* Who may hold a reference besides meters and calls.
Owners == {"creator", "scene", "channel", "worker"}

ASSUME RegistryAssumption ==
    /\ NoSource \notin Sources
    /\ Transitions \subseteq Sources
    /\ Meters \cap Callers = {}
    /\ Owners \cap (Meters \cup Callers) = {}
    /\ Nobody \notin Callers /\ "audio" \notin Callers
    /\ MaxCalls \in Nat

VARIABLES life,        \* of every source: "none", "live", "gone"
          refs,        \* who holds a reference of it
          removed, name,
          renamed,     \* history: sources that have changed their name
          registry,    \* Source::Manager
          signals,     \* sources that carry the remove and destroy handlers
          tracked,     \* CallbackManager's sources, by name
          managed,     \* Volmeter::Manager
          made,        \* meters created so far
          hooked,      \* meters whose level callback is registered
          volmeters,   \* libobs' meters
          attached,    \* the source libobs' meter holds weakly
          capture,     \* of every source, the meters in its audio callback list
          uidSource,   \* of every meter; its source_ref is refs[_] \ni meter
          mtx, sourcesMtx, registryMutex,
          call,        \* of every caller: where it stands, meter and source
          callsLeft,
          audio,       \* the audio thread: where it stands, source and meter
          dying, step, \* the destruction thread
          teardown, walked, leaked

sourceVars == <<life, removed, name, renamed>>
listVars   == <<registry, signals, tracked>>
meterVars  == <<managed, made, hooked, volmeters, attached, capture, uidSource>>
lockVars   == <<mtx, sourcesMtx, registryMutex>>
callVars   == <<call, callsLeft>>
deathVars  == <<dying, step>>
endVars    == <<teardown, walked, leaked>>
vars == <<sourceVars, refs, listVars, meterVars, lockVars, callVars, audio, deathVars, endVars>>

Holders == Owners \cup Meters \cup Callers
IdleCall  == [at |-> "idle", meter |-> NoSource, source |-> NoSource]
IdleAudio == [at |-> "idle", meter |-> NoSource, source |-> NoSource]

Alive(s) == life[s] = "live"
Queued   == {s \in Sources : Alive(s) /\ refs[s] = {}}
Drained  == Queued = {} /\ dying = NoSource

Init ==
    /\ life = [s \in Sources |-> "none"]
    /\ refs = [s \in Sources |-> {}]
    /\ removed = {} /\ renamed = {}
    /\ name \in [Sources -> Names]
    /\ registry = {} /\ signals = {}
    /\ tracked = [n \in Names |-> NoSource]
    /\ managed = {} /\ made = {} /\ hooked = {} /\ volmeters = {}
    /\ attached = [m \in Meters |-> NoSource]
    /\ capture = [s \in Sources |-> {}]
    /\ uidSource = [m \in Meters |-> NoSource]
    /\ mtx = Nobody /\ sourcesMtx = Nobody /\ registryMutex = Nobody
    /\ call = [c \in Callers |-> IdleCall]
    /\ callsLeft = MaxCalls
    /\ audio = IdleAudio
    /\ dying = NoSource /\ step = "idle"
    /\ teardown = "no" /\ walked = {} /\ leaked = {}

-----------------------------------------------------------------------------
\* Calls.  A call that runs to its end without waiting is one step.
NewCall(c) ==
    /\ call[c] = IdleCall
    /\ callsLeft > 0
    /\ teardown = "no"
    /\ callsLeft' = callsLeft - 1

CallAt(c, at, m, s) == call' = [call EXCEPT ![c] = [at |-> at, meter |-> m, source |-> s]]
Returns(c) == call' = [call EXCEPT ![c] = IdleCall]

\* Names of live sources are kept apart by libobs.
FreeName(n) == \A s \in Sources : Alive(s) => name[s] # n

\* addSource(): the map keeps the first source of a name.
addSource(s) == tracked' = [tracked EXCEPT ![name[s]] = IF @ = NoSource THEN s ELSE @]

global_source_create_cb(c, s) ==
    /\ NewCall(c)
    /\ life[s] = "none"
    /\ FreeName(name[s])
    /\ sourcesMtx = Nobody
    /\ life' = [life EXCEPT ![s] = "live"]
    /\ \E cached \in SUBSET {"worker"} :
         /\ s \in Transitions => cached = {}
         /\ refs' = [refs EXCEPT ![s] = {"creator"} \cup cached]
    /\ registry' = registry \cup {s}
    /\ signals' = signals \cup {s}
    /\ IF s \in Transitions THEN UNCHANGED tracked ELSE addSource(s)
    /\ UNCHANGED <<removed, name, renamed, meterVars, lockVars, call, audio, deathVars, endVars>>

SetName(c, s, n) ==
    /\ NewCall(c)
    /\ s \in registry /\ "creator" \in refs[s]
    /\ FreeName(n)
    /\ name' = [name EXCEPT ![s] = n]
    /\ renamed' = renamed \cup {s}
    /\ UNCHANGED <<life, removed, refs, listVars, meterVars, lockVars, call, audio, deathVars, endVars>>

\* Release(): a transition gives up its reference; anything else is removed,
\* and the remove handler gives up the reference.
Release(c, s) ==
    /\ NewCall(c)
    /\ s \in registry /\ "creator" \in refs[s]
    /\ removed' = IF s \in Transitions THEN removed ELSE removed \cup {s}
    /\ refs' = [refs EXCEPT ![s] = @ \ {"creator"}]
    /\ UNCHANGED <<life, name, renamed, listVars, meterVars, lockVars, call, audio, deathVars, endVars>>

\* Scene items and output channels hold references of their own.
Shown(c, s) ==
    /\ NewCall(c)
    /\ s \in registry /\ refs[s] # {}
    /\ LET holder == IF s \in Transitions THEN "channel" ELSE "scene" IN
       \/ refs' = [refs EXCEPT ![s] = @ \cup {holder}]
       \/ refs' = [refs EXCEPT ![s] = @ \ {holder}]
    /\ UNCHANGED <<sourceVars, listVars, meterVars, lockVars, call, audio, deathVars, endVars>>

-----------------------------------------------------------------------------
\* Volume meters.  libobs' callback mutex of a meter and audio mutex of a
\* source are held by the audio thread only for longer than a step.
CallbackFree(m) == ~(audio.meter = m /\ audio.at \in {"level", "touch"})
AudioFree(s)    == ~(audio.source = s /\ audio.at # "idle")

CreateMeter(c, m) ==
    /\ NewCall(c)
    /\ mtx = Nobody
    /\ m \notin made
    /\ made' = made \cup {m}
    /\ managed' = managed \cup {m}
    /\ hooked' = hooked \cup {m}
    /\ volmeters' = volmeters \cup {m}
    /\ UNCHANGED <<attached, capture, uidSource, sourceVars, refs, listVars, lockVars, call, audio, deathVars, endVars>>

\* obs_volmeter_detach_source(): the callback is taken out of the source's list
\* only while the source can still be referenced.
detachSource(m) ==
    LET s == attached[m] IN
    /\ s # NoSource => AudioFree(s)
    /\ capture' = [t \in Sources |-> IF t = s /\ refs[t] # {} THEN capture[t] \ {m} ELSE capture[t]]

Keeps(c, m) == call[c].at = "detach" /\ call[c].meter = m

Destroy(c, m) ==
    /\ NewCall(c)
    /\ mtx = Nobody
    /\ m \in managed
    /\ mtx' = c
    /\ CallAt(c, "destroy", m, NoSource)
    /\ UNCHANGED <<sourceVars, refs, listVars, meterVars, sourcesMtx, registryMutex, audio, deathVars, endVars>>

\* obs_volmeter_remove_callback(), and the last reference unless a Detach has one.
removeCallback(c) ==
    LET m == call[c].meter IN
    /\ call[c].at = "destroy"
    /\ CallbackFree(m)
    /\ hooked' = hooked \ {m}
    /\ managed' = managed \ {m}
    /\ IF \E d \in Callers : Keeps(d, m)
       THEN Returns(c) /\ mtx' = Nobody
       ELSE CallAt(c, "destructor", m, NoSource) /\ UNCHANGED mtx
    /\ UNCHANGED <<made, volmeters, attached, capture, uidSource, sourceVars, refs, listVars,
                   sourcesMtx, registryMutex, callsLeft, audio, deathVars, endVars>>

\* ~Volmeter(), which still holds its source_ref.
Destructor(m) ==
    /\ m \in volmeters
    /\ detachSource(m)
    /\ volmeters' = volmeters \ {m}
    /\ attached' = [attached EXCEPT ![m] = NoSource]
    /\ uidSource' = [uidSource EXCEPT ![m] = NoSource]

destroyMeter(c) ==
    LET m == call[c].meter IN
    /\ call[c].at = "destructor"
    /\ Destructor(m)
    /\ refs' = [s \in Sources |-> refs[s] \ {m}]
    /\ mtx' = Nobody
    /\ Returns(c)
    /\ UNCHANGED <<managed, made, hooked, sourceVars, listVars, sourcesMtx, registryMutex, callsLeft, audio,
                   deathVars, endVars>>

Attach(c, m, s) ==
    /\ NewCall(c)
    /\ mtx = Nobody /\ registryMutex = Nobody
    /\ m \in managed
    /\ s \in registry /\ refs[s] # {}
    /\ mtx' = c
    /\ refs' = [refs EXCEPT ![s] = @ \cup {c}]
    /\ CallAt(c, "attach", m, s)
    /\ UNCHANGED <<sourceVars, listVars, meterVars, sourcesMtx, registryMutex, audio, deathVars, endVars>>

attachSource(c) ==
    LET m == call[c].meter
        s == call[c].source
        old == attached[m]
    IN
    /\ call[c].at = "attach"
    /\ AudioFree(s) /\ (old # NoSource => AudioFree(old))
    /\ attached' = [attached EXCEPT ![m] = s]
    /\ capture' = [t \in Sources |-> IF t = s THEN capture[t] \cup {m}
                                     ELSE IF t = old /\ refs[t] # {} THEN capture[t] \ {m}
                                     ELSE capture[t]]
    /\ uidSource' = [uidSource EXCEPT ![m] = s]
    /\ refs' = [t \in Sources |-> IF t = s THEN (refs[t] \ {c}) \cup {m} ELSE refs[t] \ {m}]
    /\ mtx' = Nobody
    /\ Returns(c)
    /\ UNCHANGED <<managed, made, hooked, volmeters, sourceVars, listVars, sourcesMtx, registryMutex,
                   callsLeft, audio, deathVars, endVars>>

\* Mutant: the source_ref is released at once.
DetachReleases(c, m) ==
    /\ NewCall(c)
    /\ mtx = Nobody
    /\ m \in managed
    /\ uidSource' = [uidSource EXCEPT ![m] = NoSource]
    /\ refs' = [s \in Sources |-> refs[s] \ {m}]
    /\ CallAt(c, "detach", m, NoSource)
    /\ UNCHANGED <<managed, made, hooked, volmeters, attached, capture, sourceVars, listVars, lockVars,
                   audio, deathVars, endVars>>

\* The source_ref moves to the call, so that it outlives the detaching.
Detach(c, m) ==
    /\ NewCall(c)
    /\ mtx = Nobody
    /\ m \in managed
    /\ uidSource' = [uidSource EXCEPT ![m] = NoSource]
    /\ refs' = [s \in Sources |-> IF m \in refs[s] THEN (refs[s] \ {m}) \cup {c} ELSE refs[s]]
    /\ CallAt(c, "detach", m, NoSource)
    /\ UNCHANGED <<managed, made, hooked, volmeters, attached, capture, sourceVars, listVars, lockVars,
                   audio, deathVars, endVars>>

\* The meter's own reference dies with the call if Destroy has come between.
finishDetach(c) ==
    LET m == call[c].meter
        last == m \notin managed /\ ~\E d \in Callers \ {c} : Keeps(d, m)
    IN
    /\ call[c].at = "detach"
    /\ detachSource(m)
    /\ attached' = [attached EXCEPT ![m] = NoSource]
    /\ volmeters' = IF last THEN volmeters \ {m} ELSE volmeters
    /\ uidSource' = IF last THEN [uidSource EXCEPT ![m] = NoSource] ELSE uidSource
    /\ refs' = [s \in Sources |-> refs[s] \ (IF last THEN {c, m} ELSE {c})]
    /\ Returns(c)
    /\ UNCHANGED <<managed, made, hooked, sourceVars, listVars, lockVars, callsLeft, audio, deathVars, endVars>>

-----------------------------------------------------------------------------
\* GlobalQuery: the sizes of all sources tracked, then the levels of a meter.
GlobalQuery(c, m) ==
    /\ NewCall(c)
    /\ sourcesMtx = Nobody
    /\ sourcesMtx' = c
    /\ CallAt(c, "ask", m, NoSource)
    /\ UNCHANGED <<sourceVars, refs, listVars, meterVars, mtx, registryMutex, audio, deathVars, endVars>>

asked(c) ==
    /\ call[c].at = "ask"
    /\ sourcesMtx' = Nobody
    /\ CallAt(c, "levels", call[c].meter, NoSource)
    /\ UNCHANGED <<sourceVars, refs, listVars, meterVars, mtx, registryMutex, callsLeft, audio, deathVars, endVars>>

\* The meter's source is looked up and then read without a reference of it.
SourceOf(m) == IF m \in managed /\ uidSource[m] \in registry THEN uidSource[m] ELSE NoSource

getAudioData(c) ==
    LET m == call[c].meter IN
    /\ call[c].at = "levels"
    /\ mtx = Nobody /\ registryMutex = Nobody
    /\ IF SourceOf(m) # NoSource
       THEN mtx' = c /\ CallAt(c, "read", m, SourceOf(m))
       ELSE Returns(c) /\ UNCHANGED mtx
    /\ UNCHANGED <<sourceVars, refs, listVars, meterVars, sourcesMtx, registryMutex, callsLeft, audio, deathVars, endVars>>

gotAudioData(c) ==
    /\ call[c].at = "read"
    /\ mtx' = Nobody
    /\ Returns(c)
    /\ UNCHANGED <<sourceVars, refs, listVars, meterVars, sourcesMtx, registryMutex, callsLeft, audio, deathVars, endVars>>

-----------------------------------------------------------------------------
\* The audio thread, with a source's audio mutex from "capture" on and the
\* meter's callback mutex from "level" on.
AudioAt(at) == audio' = [audio EXCEPT !.at = at]

audioCaptured(s, m) ==
    /\ audio = IdleAudio
    /\ Alive(s) /\ dying # s
    /\ m \in capture[s]
    /\ audio' = [at |-> "capture", meter |-> m, source |-> s]
    /\ UNCHANGED <<sourceVars, refs, listVars, meterVars, lockVars, callVars, deathVars, endVars>>

levelsUpdated ==
    /\ audio.at = "capture"
    /\ IF audio.meter \in hooked THEN AudioAt("level") ELSE audio' = IdleAudio
    /\ UNCHANGED <<sourceVars, refs, listVars, meterVars, lockVars, callVars, deathVars, endVars>>

\* Mutant: the callback waits for mtx.
OBSCallbackWaits ==
    /\ audio.at = "level"
    /\ registryMutex = Nobody
    /\ mtx = Nobody
    /\ IF SourceOf(audio.meter) # NoSource
       THEN AudioAt("touch") /\ mtx' = "audio"
       ELSE audio' = IdleAudio /\ UNCHANGED mtx
    /\ UNCHANGED <<sourceVars, refs, listVars, meterVars, sourcesMtx, registryMutex, callVars, deathVars, endVars>>

\* A busy mtx drops the frame.
OBSCallback ==
    /\ audio.at = "level"
    /\ registryMutex = Nobody
    /\ IF mtx = Nobody /\ SourceOf(audio.meter) # NoSource
       THEN AudioAt("touch") /\ mtx' = "audio"
       ELSE audio' = IdleAudio /\ UNCHANGED mtx
    /\ UNCHANGED <<sourceVars, refs, listVars, meterVars, sourcesMtx, registryMutex, callVars, deathVars, endVars>>

levelsTaken ==
    /\ audio.at = "touch"
    /\ audio' = IdleAudio
    /\ mtx' = Nobody
    /\ UNCHANGED <<sourceVars, refs, listVars, meterVars, sourcesMtx, registryMutex, callVars, deathVars, endVars>>

-----------------------------------------------------------------------------
\* The destruction thread holds the destroy signal's mutex of dying while the
\* handlers run.  A source without handlers goes unseen.
destroySource(s) ==
    /\ dying = NoSource
    /\ s \in Queued
    /\ AudioFree(s)
    /\ capture' = [capture EXCEPT ![s] = {}]
    /\ IF s \in signals
       THEN dying' = s /\ step' = "untrack" /\ UNCHANGED life
       ELSE life' = [life EXCEPT ![s] = "gone"] /\ UNCHANGED deathVars
    /\ UNCHANGED <<removed, name, renamed, refs, listVars, managed, made, hooked, volmeters, attached, uidSource,
                   lockVars, callVars, audio, endVars>>

\* Mutant: the registry only.
removeSourceNever ==
    /\ step = "untrack"
    /\ sourcesMtx = Nobody
    /\ step' = "free"
    /\ UNCHANGED <<dying, tracked, registry, signals, sourceVars, refs, meterVars, lockVars, callVars, audio, endVars>>

\* removeSource() erases the name the source has now.
removeSource ==
    /\ step = "untrack"
    /\ sourcesMtx = Nobody
    /\ tracked' = IF dying \in Transitions THEN tracked ELSE [tracked EXCEPT ![name[dying]] = NoSource]
    /\ step' = "free"
    /\ UNCHANGED <<dying, registry, signals, sourceVars, refs, meterVars, lockVars, callVars, audio, endVars>>

global_source_destroy_cb ==
    /\ step = "free"
    /\ registryMutex = Nobody
    /\ signals' = signals \ {dying}
    /\ registry' = registry \ {dying}
    /\ life' = [life EXCEPT ![dying] = "gone"]
    /\ dying' = NoSource /\ step' = "idle"
    /\ UNCHANGED <<tracked, removed, name, renamed, refs, meterVars, lockVars, callVars, audio, endVars>>

\* The entry of the media cache holds its source from the creation on; the
\* worker drops it some time after the source was removed.
workerDrops(s) ==
    /\ s \in removed
    /\ refs' = [refs EXCEPT ![s] = @ \ {"worker"}]
    /\ UNCHANGED <<sourceVars, listVars, meterVars, lockVars, callVars, audio, deathVars, endVars>>

-----------------------------------------------------------------------------
\* destroyOBS_API(), once the server has no clients any more.
TeardownAt(from, to) == teardown = from /\ teardown' = to

beginTeardown ==
    /\ TeardownAt("no", "callbacks")
    /\ \A c \in Callers : call[c] = IdleCall
    /\ refs' = [s \in Sources |-> refs[s] \ {"channel"}]
    /\ UNCHANGED <<walked, leaked, sourceVars, listVars, meterVars, lockVars, callVars, audio, deathVars>>

\* ClearVolmeters(): the callbacks first, then the meters.
clearCallback(m) ==
    /\ teardown = "callbacks"
    /\ CallbackFree(m)
    /\ m \in hooked
    /\ hooked' = hooked \ {m}
    /\ UNCHANGED <<managed, made, volmeters, attached, capture, uidSource, sourceVars, refs, listVars, lockVars,
                   callVars, audio, deathVars, endVars>>

clearedCallbacks ==
    /\ TeardownAt("callbacks", "meters")
    /\ hooked = {}
    /\ managed' = {}
    /\ UNCHANGED <<walked, leaked, made, hooked, volmeters, attached, capture, uidSource, sourceVars, refs, listVars,
                   lockVars, callVars, audio, deathVars>>

clearMeter(m) ==
    /\ teardown = "meters"
    /\ Destructor(m)
    /\ refs' = [s \in Sources |-> refs[s] \ {m}]
    /\ UNCHANGED <<managed, made, hooked, sourceVars, listVars, lockVars, callVars, audio, deathVars, endVars>>

\* obs_wait_for_destroy_queue()
drain ==
    /\ \/ TeardownAt("meters", "join") /\ volmeters = {}
       \/ TeardownAt("drain", "collect")
       \/ TeardownAt("released", "detach")
    /\ Drained
    /\ UNCHANGED <<walked, leaked, sourceVars, refs, listVars, meterVars, lockVars, callVars, audio, deathVars>>

\* Mutant: the destruction the worker has caused is not awaited.
joinWorkerAndGoOn ==
    /\ TeardownAt("join", "collect")
    /\ refs' = [s \in Sources |-> refs[s] \ {"worker"}]
    /\ UNCHANGED <<walked, leaked, sourceVars, listVars, meterVars, lockVars, callVars, audio, deathVars>>

joinWorker ==
    /\ TeardownAt("join", "drain")
    /\ refs' = [s \in Sources |-> refs[s] \ {"worker"}]
    /\ UNCHANGED <<walked, leaked, sourceVars, listVars, meterVars, lockVars, callVars, audio, deathVars>>

\* for_each() holds the registry while it visits its sources; the first walk
\* collects those not removed and connects to the others' destroy signal, the
\* second takes the handlers away.
beginWalk ==
    /\ \/ TeardownAt("collect", "collecting")
       \/ TeardownAt("detach", "detaching")
    /\ registryMutex = Nobody
    /\ registryMutex' = "teardown"
    /\ walked' = {}
    /\ UNCHANGED <<leaked, sourceVars, refs, listVars, meterVars, mtx, sourcesMtx, callVars, audio, deathVars>>

visit(s) ==
    /\ s \in registry \ walked
    /\ walked' = walked \cup {s}
    /\ \/ /\ teardown = "collecting"
          /\ s \in removed => dying # s
          /\ leaked' = IF s \in removed THEN leaked ELSE leaked \cup {s}
          /\ UNCHANGED signals
       \/ /\ teardown = "detaching"
          /\ dying # s
          /\ signals' = signals \ {s}
          /\ UNCHANGED leaked
    /\ UNCHANGED <<teardown, registry, tracked, sourceVars, refs, meterVars, lockVars, callVars, audio, deathVars>>

endWalk ==
    /\ \/ TeardownAt("collecting", "release")
       \/ TeardownAt("detaching", "done")
    /\ registry \subseteq walked
    /\ registryMutex' = Nobody
    /\ UNCHANGED <<walked, leaked, sourceVars, refs, listVars, meterVars, mtx, sourcesMtx, callVars, audio, deathVars>>

\* The items of leaked scenes are removed and the leaked sources released; what
\* else libobs holds may stay.
releaseLeaked ==
    /\ TeardownAt("release", "released")
    /\ \E kept \in SUBSET Sources :
         refs' = [s \in Sources |-> (refs[s] \ (IF s \in leaked THEN {"creator"} ELSE {}))
                                            \ (IF s \in kept THEN {} ELSE {"scene"})]
    /\ UNCHANGED <<walked, leaked, sourceVars, listVars, meterVars, lockVars, callVars, audio, deathVars>>

-----------------------------------------------------------------------------
CallBegins(c) ==
    \/ \E s \in Sources :
         \/ global_source_create_cb(c, s) \/ Release(c, s) \/ Shown(c, s)
         \/ \E n \in Names : SetName(c, s, n)
         \/ \E m \in Meters : Attach(c, m, s)
    \/ \E m \in Meters : CreateMeter(c, m) \/ Destroy(c, m) \/ Detach(c, m) \/ GlobalQuery(c, m)

CallStep(c) ==
    \/ removeCallback(c) \/ destroyMeter(c) \/ attachSource(c) \/ finishDetach(c)
    \/ asked(c) \/ getAudioData(c) \/ gotAudioData(c)

AudioStep == levelsUpdated \/ OBSCallback \/ levelsTaken

DestroyStep == (\E s \in Sources : destroySource(s)) \/ removeSource \/ global_source_destroy_cb

TeardownStep ==
    \/ \E m \in Meters : clearCallback(m) \/ clearMeter(m)
    \/ clearedCallbacks \/ drain \/ joinWorker \/ beginWalk \/ endWalk \/ releaseLeaked
    \/ \E s \in Sources : visit(s)

Next ==
    \/ \E c \in Callers : CallBegins(c) \/ CallStep(c)
    \/ \E s \in Sources, m \in Meters : audioCaptured(s, m)
    \/ AudioStep \/ DestroyStep
    \/ \E s \in Sources : workerDrops(s)
    \/ beginTeardown \/ TeardownStep

\* Whoever waits for a mutex that is given back again and again obtains it.
Fairness ==
    /\ \A c \in Callers : SF_vars(CallStep(c))
    /\ WF_vars(AudioStep) /\ SF_vars(DestroyStep) /\ SF_vars(TeardownStep)

Spec == Init /\ [][Next]_vars
FairSpec == Spec /\ Fairness

-----------------------------------------------------------------------------
CallSteps == {"idle", "destroy", "destructor", "attach", "detach", "ask", "levels", "read"}

TypeOK ==
    /\ life \in [Sources -> {"none", "live", "gone"}]
    /\ refs \in [Sources -> SUBSET Holders]
    /\ removed \subseteq Sources /\ renamed \subseteq Sources
    /\ name \in [Sources -> Names]
    /\ registry \subseteq Sources /\ signals \subseteq Sources
    /\ tracked \in [Names -> Sources \cup {NoSource}]
    /\ managed \subseteq Meters /\ made \subseteq Meters /\ hooked \subseteq Meters /\ volmeters \subseteq Meters
    /\ attached \in [Meters -> Sources \cup {NoSource}]
    /\ uidSource \in [Meters -> Sources \cup {NoSource}]
    /\ capture \in [Sources -> SUBSET Meters]
    /\ mtx \in Callers \cup {Nobody, "audio"}
    /\ sourcesMtx \in Callers \cup {Nobody}
    /\ registryMutex \in {Nobody, "teardown"}
    /\ callsLeft \in 0 .. MaxCalls
    /\ call \in [Callers -> [at : CallSteps, meter : Meters \cup {NoSource},
                              source : Sources \cup {NoSource}]]
    /\ audio \in [at : {"idle", "capture", "level", "touch"}, meter : Meters \cup {NoSource},
                   source : Sources \cup {NoSource}]
    /\ dying \in Sources \cup {NoSource} /\ step \in {"idle", "untrack", "free"}
    /\ teardown \in {"no", "callbacks", "meters", "join", "drain", "collect", "collecting",
                      "release", "released", "detach", "detaching", "done"}
    /\ walked \subseteq Sources /\ leaked \subseteq Sources

\* Nobody who is using a source or a meter without a reference of it finds it
\* gone: the level callback, a query reading levels, a Detach under way, and
\* libobs' audio lists, which must not outlive a meter ("Kept alive while
\* attached so detach can always remove the audio capture callback").
UsesAlive ==
    /\ audio.at # "idle" => Alive(audio.source) /\ audio.meter \in volmeters
    /\ audio.at = "touch" => uidSource[audio.meter] \in Sources /\ Alive(uidSource[audio.meter])
    /\ \A c \in Callers :
         /\ call[c].at = "read" => Alive(call[c].source)
         /\ call[c].at = "detach" => call[c].meter \in volmeters
    /\ \A s \in Sources : capture[s] \subseteq volmeters

\* What the ids and the polled map lead to exists, until the teardown takes the
\* handlers away.  The map erases by name: only a source whose name was changed
\* can stay in it after its end.
ListedIsAlive ==
    /\ \A s \in registry \cap signals : Alive(s)
    /\ teardown \notin {"detaching", "done"} =>
         \A n \in Names : tracked[n] \in Sources \ renamed => Alive(tracked[n])

\* Both hold through releases, detachments, renames, queries and the teardown
\* in any order.
NothingDangles == UsesAlive /\ ListedIsAlive

\* Every call returns and the teardown comes to its end, although calls wait
\* with mtx held for callbacks that ask for it, and walks hold the registry
\* while they ask for signals whose handlers ask for the registry.
CallsReturn ==
    /\ \A c \in Callers : call[c] # IdleCall ~> call[c] = IdleCall
    /\ teardown # "no" ~> teardown = "done"
=============================================================================
