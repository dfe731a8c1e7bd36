------------------------ MODULE SourceRegistryProofs ------------------------
(* Proofs about SourceRegistry: whoever uses a source or a meter without a    *)
(* reference of it finds it alive, for any number of sources, names, meters   *)
(* and callers.                                                              *)
EXTENDS SourceRegistry, TLAPS

\* A call that has something to do with a meter names it, and one that works
\* on a source names that.
Targets ==
    /\ \A c \in Callers :
          /\ call[c].at # "idle" => call[c].meter \in Meters
          /\ call[c].at \in {"attach", "read"} => call[c].source \in Sources
    /\ audio.at # "idle" => audio.meter \in Meters /\ audio.source \in Sources

\* mtx belongs to the call or to the level callback that is in such a step.
MtxOfStep ==
    /\ \A c \in Callers : call[c].at \in {"destroy", "destructor", "attach", "read"} => mtx = c
    /\ audio.at = "touch" => mtx = "audio"

\* A source somebody holds is alive, and its destruction has not begun.
HeldIsAlive == \A s \in Sources : refs[s] # {} => Alive(s) /\ dying # s

\* Where a meter is captured it is attached, and the source is held by the
\* meter or by a Detach of it: detaching can always take the callback out.
CapturedIsHeld ==
    \A s \in Sources : \A m \in capture[s] :
        /\ m \in volmeters
        /\ attached[m] = s
        /\ m \in refs[s] \/ \E c \in Callers : Keeps(c, m) /\ c \in refs[s]

\* The audio thread works on a capture that stays in its list.
AudioIsCaptured == audio.at # "idle" => audio.meter \in capture[audio.source]

\* A meter that has a source holds it; so does a call that attaches one.
UidIsHeld ==
    /\ \A m \in Meters : uidSource[m] # NoSource => m \in refs[uidSource[m]]
    /\ \A c \in Callers : call[c].at = "attach" => c \in refs[call[c].source]

\* The level callback runs only while it is registered, and touches the levels
\* of a meter that is still managed and has a source.
CallbackIsHooked ==
    /\ audio.at \in {"level", "touch"} => audio.meter \in hooked
    /\ audio.at = "touch" => audio.meter \in managed /\ uidSource[audio.meter] # NoSource

\* Meters that are managed exist.  Calls on a meter keep it: a query that reads
\* holds it through mtx, and no Detach comes between a Destroy and its
\* destructor.
MeterIsKept ==
    /\ managed \subseteq volmeters
    /\ \A c \in Callers :
          /\ call[c].at \in {"destroy", "attach", "read"} => call[c].meter \in managed
          /\ call[c].at = "read" => uidSource[call[c].meter] = call[c].source
          /\ call[c].at = "destructor" =>
                /\ call[c].meter \notin managed
                /\ \A d \in Callers : ~Keeps(d, call[c].meter)
          /\ call[c].at = "detach" => call[c].meter \in volmeters

\* The teardown runs with no calls under way, and deletes meters only after
\* it has taken their callbacks.
TeardownIsAlone ==
    /\ teardown # "no" => \A c \in Callers : call[c].at = "idle"
    /\ teardown \notin {"no", "callbacks"} => managed = {} /\ hooked = {}

\* The destruction thread works on a source that is still alive.
DyingIsAlive ==
    /\ dying = NoSource <=> step = "idle"
    /\ dying # NoSource => Alive(dying)

\* Live sources carry their handlers until the teardown takes them away.
LiveIsSignalled ==
    teardown \notin {"detaching", "done"} => \A s \in Sources : Alive(s) => s \in signals

\* The polled map holds sources that kept their names under those, no
\* transitions, and none whose handler has been through the map.
TrackedByName ==
    \A n \in Names : tracked[n] # NoSource =>
        /\ tracked[n] \notin Transitions
        /\ tracked[n] \notin renamed => name[tracked[n]] = n
        /\ tracked[n] \notin renamed => ~(step = "free" /\ tracked[n] = dying)

IInv ==
    /\ TypeOK /\ Targets /\ MtxOfStep
    /\ HeldIsAlive /\ CapturedIsHeld /\ AudioIsCaptured /\ UidIsHeld
    /\ CallbackIsHooked /\ MeterIsKept /\ TeardownIsAlone
    /\ DyingIsAlive /\ LiveIsSignalled /\ TrackedByName /\ ListedIsAlive

-----------------------------------------------------------------------------
(* Each part keeps its value when nothing it speaks of changes. *)
LEMMA FrameTargets ==
    ASSUME Targets, UNCHANGED <<audio, call>> PROVE Targets'
  BY DEF Targets, Alive, Keeps

LEMMA FrameMtxOfStep ==
    ASSUME MtxOfStep, UNCHANGED <<audio, call, mtx>> PROVE MtxOfStep'
  BY DEF MtxOfStep, Alive, Keeps

LEMMA FrameHeldIsAlive ==
    ASSUME HeldIsAlive, UNCHANGED <<dying, life, refs>> PROVE HeldIsAlive'
  BY DEF HeldIsAlive, Alive, Keeps

LEMMA FrameCapturedIsHeld ==
    ASSUME CapturedIsHeld, UNCHANGED <<attached, call, capture, refs, volmeters>> PROVE CapturedIsHeld'
  BY DEF CapturedIsHeld, Alive, Keeps

LEMMA FrameAudioIsCaptured ==
    ASSUME AudioIsCaptured, UNCHANGED <<audio, capture>> PROVE AudioIsCaptured'
  BY DEF AudioIsCaptured, Alive, Keeps

LEMMA FrameUidIsHeld ==
    ASSUME UidIsHeld, UNCHANGED <<call, refs, uidSource>> PROVE UidIsHeld'
  BY DEF UidIsHeld, Alive, Keeps

LEMMA FrameCallbackIsHooked ==
    ASSUME CallbackIsHooked, UNCHANGED <<audio, hooked, managed, uidSource>> PROVE CallbackIsHooked'
  BY DEF CallbackIsHooked, Alive, Keeps

LEMMA FrameMeterIsKept ==
    ASSUME MeterIsKept, UNCHANGED <<call, managed, uidSource, volmeters>> PROVE MeterIsKept'
  BY DEF MeterIsKept, Alive, Keeps

LEMMA FrameTeardownIsAlone ==
    ASSUME TeardownIsAlone, UNCHANGED <<call, hooked, managed, teardown>> PROVE TeardownIsAlone'
  BY DEF TeardownIsAlone, Alive, Keeps

LEMMA FrameDyingIsAlive ==
    ASSUME DyingIsAlive, UNCHANGED <<dying, life, step>> PROVE DyingIsAlive'
  BY DEF DyingIsAlive, Alive, Keeps

LEMMA FrameLiveIsSignalled ==
    ASSUME LiveIsSignalled, UNCHANGED <<life, signals, teardown>> PROVE LiveIsSignalled'
  BY DEF LiveIsSignalled, Alive, Keeps

LEMMA FrameTrackedByName ==
    ASSUME TrackedByName, UNCHANGED <<dying, name, renamed, step, tracked>> PROVE TrackedByName'
  BY DEF TrackedByName, Alive, Keeps

LEMMA FrameListedIsAlive ==
    ASSUME ListedIsAlive, UNCHANGED <<life, registry, renamed, signals, teardown, tracked>> PROVE ListedIsAlive'
  BY DEF ListedIsAlive, Alive, Keeps

-----------------------------------------------------------------------------
(* A source is created, with its handlers and its entry in the polled map. *)
LEMMA Global_source_create_cbKeeps ==
    ASSUME NEW c \in Callers, NEW s \in Sources, IInv, global_source_create_cb(c, s)
    PROVE  IInv'
<1>. USE RegistryAssumption DEF sourceVars, listVars, meterVars, lockVars, callVars, deathVars,
      endVars
<1>1. TypeOK'
  BY DEF IInv, TypeOK, Holders, Owners, global_source_create_cb, NewCall, addSource
<1>2. HeldIsAlive'
  BY DEF IInv, TypeOK, global_source_create_cb, Alive, HeldIsAlive, DyingIsAlive
<1>3. CapturedIsHeld'
  <2>1. \A t \in Sources : t # s => refs'[t] = refs[t]
    BY DEF IInv, TypeOK, global_source_create_cb
  <2>2. refs[s] = {}
    BY DEF IInv, TypeOK, global_source_create_cb, HeldIsAlive, Alive
  <2>3. capture[s] = {}
    BY <2>2 DEF IInv, TypeOK, CapturedIsHeld
  <2>4. call' = call /\ UNCHANGED meterVars
    BY DEF global_source_create_cb
  <2>. QED
    BY <2>1, <2>3, <2>4 DEF IInv, CapturedIsHeld, Keeps
<1>4. UidIsHeld'
  <2>1. \A t \in Sources : t # s => refs'[t] = refs[t]
    BY DEF IInv, TypeOK, global_source_create_cb
  <2>2. refs[s] = {}
    BY DEF IInv, TypeOK, global_source_create_cb, HeldIsAlive, Alive
  <2>3. call' = call /\ UNCHANGED meterVars
    BY DEF global_source_create_cb
  <2>. QED
    BY <2>1, <2>2, <2>3 DEF IInv, TypeOK, UidIsHeld, Targets
<1>5. DyingIsAlive'
  BY DEF IInv, TypeOK, global_source_create_cb, Alive, DyingIsAlive
<1>6. LiveIsSignalled'
  BY DEF IInv, TypeOK, global_source_create_cb, Alive, LiveIsSignalled
<1>7. TrackedByName'
  BY DEF IInv, TypeOK, global_source_create_cb, FreeName, addSource, TrackedByName, DyingIsAlive
<1>8. ListedIsAlive'
  BY DEF IInv, TypeOK, global_source_create_cb, addSource, Alive, ListedIsAlive
<1>9. Targets' /\ MtxOfStep' /\ AudioIsCaptured' /\ CallbackIsHooked' /\ MeterIsKept' /\ TeardownIsAlone'
  BY FrameTargets, FrameMtxOfStep, FrameAudioIsCaptured, FrameCallbackIsHooked, FrameMeterIsKept,
     FrameTeardownIsAlone DEF IInv, global_source_create_cb
<1>. QED
  BY <1>1, <1>2, <1>3, <1>4, <1>5, <1>6, <1>7, <1>8, <1>9 DEF IInv

(* A source is renamed. *)
LEMMA SetNameKeeps ==
    ASSUME NEW c \in Callers, NEW s \in Sources, NEW n \in Names, IInv, SetName(c, s, n)
    PROVE  IInv'
<1>. USE RegistryAssumption DEF sourceVars, listVars, meterVars, lockVars, callVars, deathVars,
      endVars
<1>1. TypeOK'
  BY DEF IInv, TypeOK, SetName, NewCall
<1>2. TrackedByName'
  BY DEF IInv, TypeOK, SetName, TrackedByName
<1>3. ListedIsAlive'
  BY DEF IInv, TypeOK, SetName, ListedIsAlive, Alive
<1>4. Targets' /\ MtxOfStep' /\ HeldIsAlive' /\ CapturedIsHeld' /\ AudioIsCaptured' /\ UidIsHeld' /\ CallbackIsHooked' /\ MeterIsKept' /\ TeardownIsAlone' /\ DyingIsAlive' /\ LiveIsSignalled'
  BY FrameTargets, FrameMtxOfStep, FrameHeldIsAlive, FrameCapturedIsHeld, FrameAudioIsCaptured,
     FrameUidIsHeld, FrameCallbackIsHooked, FrameMeterIsKept, FrameTeardownIsAlone,
     FrameDyingIsAlive, FrameLiveIsSignalled DEF IInv, SetName
<1>. QED
  BY <1>1, <1>2, <1>3, <1>4 DEF IInv

(* A call gives up the creator's reference. *)
LEMMA ReleaseKeeps ==
    ASSUME NEW c \in Callers, NEW s \in Sources, IInv, Release(c, s)
    PROVE  IInv'
<1>. USE RegistryAssumption DEF sourceVars, listVars, meterVars, lockVars, callVars, deathVars,
      endVars
<1>1. TypeOK'
  BY DEF IInv, TypeOK, Release, NewCall
<1>2. HeldIsAlive'
  BY DEF IInv, TypeOK, Release, HeldIsAlive, Alive
<1>3. CapturedIsHeld'
  BY DEF IInv, TypeOK, Release, Owners, CapturedIsHeld, Keeps
<1>4. UidIsHeld'
  BY DEF IInv, TypeOK, Release, Owners, UidIsHeld
<1>5. Targets' /\ MtxOfStep' /\ AudioIsCaptured' /\ CallbackIsHooked' /\ MeterIsKept' /\ TeardownIsAlone' /\ DyingIsAlive' /\ LiveIsSignalled' /\ TrackedByName' /\ ListedIsAlive'
  BY FrameTargets, FrameMtxOfStep, FrameAudioIsCaptured, FrameCallbackIsHooked, FrameMeterIsKept,
     FrameTeardownIsAlone, FrameDyingIsAlive, FrameLiveIsSignalled, FrameTrackedByName,
     FrameListedIsAlive DEF IInv, Release
<1>. QED
  BY <1>1, <1>2, <1>3, <1>4, <1>5 DEF IInv

(* A scene or a channel takes a reference, or gives it up. *)
LEMMA ShownKeeps ==
    ASSUME NEW c \in Callers, NEW s \in Sources, IInv, Shown(c, s)
    PROVE  IInv'
<1>. USE RegistryAssumption DEF sourceVars, listVars, meterVars, lockVars, callVars, deathVars,
      endVars
<1>1. TypeOK'
  BY DEF IInv, TypeOK, Holders, Owners, Shown, NewCall
<1>2. HeldIsAlive'
  BY DEF IInv, TypeOK, Shown, HeldIsAlive, Alive
<1>3. CapturedIsHeld'
  BY DEF IInv, TypeOK, Shown, Owners, CapturedIsHeld, Keeps
<1>4. UidIsHeld'
  <2>1. \A t \in Sources : refs[t] \ Owners \subseteq refs'[t]
    BY DEF IInv, TypeOK, Shown, Owners
  <2>2. call' = call /\ UNCHANGED meterVars
    BY DEF Shown
  <2>. QED
    BY <2>1, <2>2 DEF IInv, TypeOK, UidIsHeld, Targets
<1>5. Targets' /\ MtxOfStep' /\ AudioIsCaptured' /\ CallbackIsHooked' /\ MeterIsKept' /\ TeardownIsAlone' /\ DyingIsAlive' /\ LiveIsSignalled' /\ TrackedByName' /\ ListedIsAlive'
  BY FrameTargets, FrameMtxOfStep, FrameAudioIsCaptured, FrameCallbackIsHooked, FrameMeterIsKept,
     FrameTeardownIsAlone, FrameDyingIsAlive, FrameLiveIsSignalled, FrameTrackedByName,
     FrameListedIsAlive DEF IInv, Shown
<1>. QED
  BY <1>1, <1>2, <1>3, <1>4, <1>5 DEF IInv

(* A meter is created. *)
LEMMA CreateMeterKeeps ==
    ASSUME NEW c \in Callers, NEW m \in Meters, IInv, CreateMeter(c, m)
    PROVE  IInv'
<1>. USE RegistryAssumption DEF sourceVars, listVars, meterVars, lockVars, callVars, deathVars,
      endVars
<1>1. TypeOK'
  BY DEF IInv, TypeOK, CreateMeter, NewCall
<1>2. CapturedIsHeld'
  BY DEF IInv, TypeOK, CreateMeter, CapturedIsHeld, Keeps
<1>3. CallbackIsHooked'
  BY DEF IInv, TypeOK, CreateMeter, CallbackIsHooked
<1>4. MeterIsKept'
  BY DEF IInv, TypeOK, CreateMeter, MeterIsKept, MtxOfStep
<1>5. TeardownIsAlone'
  BY DEF IInv, TypeOK, CreateMeter, NewCall, TeardownIsAlone
<1>6. Targets' /\ MtxOfStep' /\ HeldIsAlive' /\ AudioIsCaptured' /\ UidIsHeld' /\ DyingIsAlive' /\ LiveIsSignalled' /\ TrackedByName' /\ ListedIsAlive'
  BY FrameTargets, FrameMtxOfStep, FrameHeldIsAlive, FrameAudioIsCaptured, FrameUidIsHeld,
     FrameDyingIsAlive, FrameLiveIsSignalled, FrameTrackedByName, FrameListedIsAlive DEF IInv,
     CreateMeter
<1>. QED
  BY <1>1, <1>2, <1>3, <1>4, <1>5, <1>6 DEF IInv

(* A call begins to destroy a meter. *)
LEMMA DestroyKeeps ==
    ASSUME NEW c \in Callers, NEW m \in Meters, IInv, Destroy(c, m)
    PROVE  IInv'
<1>. USE RegistryAssumption DEF sourceVars, listVars, meterVars, lockVars, callVars, deathVars,
      endVars
<1>1. TypeOK'
  BY DEF IInv, TypeOK, CallSteps, Destroy, NewCall, CallAt
<1>2. Targets'
  BY DEF IInv, TypeOK, Destroy, CallAt, Targets
<1>3. MtxOfStep'
  BY DEF IInv, TypeOK, Destroy, CallAt, MtxOfStep, Nobody
<1>4. CapturedIsHeld'
  BY DEF IInv, TypeOK, Destroy, NewCall, CallAt, IdleCall, CapturedIsHeld, Keeps
<1>5. UidIsHeld'
  BY DEF IInv, TypeOK, Destroy, CallAt, UidIsHeld
<1>6. MeterIsKept'
  BY DEF IInv, TypeOK, Destroy, CallAt, MeterIsKept, Keeps
<1>7. TeardownIsAlone'
  BY DEF IInv, TypeOK, Destroy, NewCall, TeardownIsAlone
<1>8. HeldIsAlive' /\ AudioIsCaptured' /\ CallbackIsHooked' /\ DyingIsAlive' /\ LiveIsSignalled' /\ TrackedByName' /\ ListedIsAlive'
  BY FrameHeldIsAlive, FrameAudioIsCaptured, FrameCallbackIsHooked, FrameDyingIsAlive,
     FrameLiveIsSignalled, FrameTrackedByName, FrameListedIsAlive DEF IInv, Destroy
<1>. QED
  BY <1>1, <1>2, <1>3, <1>4, <1>5, <1>6, <1>7, <1>8 DEF IInv

(* Its level callback is removed. *)
LEMMA RemoveCallbackKeeps ==
    ASSUME NEW c \in Callers, IInv, removeCallback(c)
    PROVE  IInv'
<1>. USE RegistryAssumption DEF sourceVars, listVars, meterVars, lockVars, callVars, deathVars,
      endVars
<1>1. TypeOK'
  BY DEF IInv, TypeOK, CallSteps, removeCallback, CallAt, Returns, IdleCall
<1>2. Targets'
  BY DEF IInv, TypeOK, removeCallback, CallAt, Returns, IdleCall, Targets
<1>3. MtxOfStep'
  BY DEF IInv, TypeOK, removeCallback, CallAt, Returns, IdleCall, MtxOfStep
<1>4. CapturedIsHeld'
  BY DEF IInv, TypeOK, removeCallback, CallAt, Returns, Keeps, CapturedIsHeld
<1>5. UidIsHeld'
  BY DEF IInv, TypeOK, removeCallback, CallAt, Returns, IdleCall, UidIsHeld
<1>6. CallbackIsHooked'
  BY DEF IInv, TypeOK, removeCallback, CallbackFree, CallbackIsHooked
<1>7. MeterIsKept'
  BY SMTT(30) DEF IInv, TypeOK, removeCallback, CallAt, Returns, IdleCall, Keeps, MeterIsKept,
     MtxOfStep
<1>8. TeardownIsAlone'
  BY DEF IInv, TypeOK, removeCallback, TeardownIsAlone
<1>9. HeldIsAlive' /\ AudioIsCaptured' /\ DyingIsAlive' /\ LiveIsSignalled' /\ TrackedByName' /\ ListedIsAlive'
  BY FrameHeldIsAlive, FrameAudioIsCaptured, FrameDyingIsAlive, FrameLiveIsSignalled,
     FrameTrackedByName, FrameListedIsAlive DEF IInv, removeCallback
<1>. QED
  BY <1>1, <1>2, <1>3, <1>4, <1>5, <1>6, <1>7, <1>8, <1>9 DEF IInv

(* The meter is destroyed with what it held. *)
LEMMA DestroyMeterKeeps ==
    ASSUME NEW c \in Callers, IInv, destroyMeter(c)
    PROVE  IInv'
<1>. USE RegistryAssumption DEF sourceVars, listVars, meterVars, lockVars, callVars, deathVars,
      endVars
<1>1. TypeOK'
  BY DEF IInv, TypeOK, CallSteps, destroyMeter, Destructor, detachSource, Returns, IdleCall
<1>2. Targets'
  BY DEF IInv, TypeOK, destroyMeter, Returns, IdleCall, Targets
<1>3. MtxOfStep'
  BY DEF IInv, TypeOK, destroyMeter, Returns, IdleCall, MtxOfStep
<1>4. HeldIsAlive'
  BY DEF IInv, TypeOK, destroyMeter, HeldIsAlive, Alive
<1>5. CapturedIsHeld'
  <2>. DEFINE m == call[c].meter
  <2>1. m \in Meters /\ call[c].at = "destructor" /\ m \notin Callers
    BY DEF IInv, destroyMeter, Targets
  <2>2. /\ volmeters' = volmeters \ {m}
        /\ \A k \in Meters \ {m} : attached'[k] = attached[k]
        /\ \A s \in Sources : refs'[s] = refs[s] \ {m}
    BY DEF IInv, TypeOK, destroyMeter, Destructor
  <2>3. \A s \in Sources : \A k \in capture'[s] : k \in capture[s] /\ k # m
    BY DEF IInv, TypeOK, destroyMeter, Destructor, detachSource, CapturedIsHeld
  <2>4. \A d \in Callers, k \in Meters : Keeps(d, k) => Keeps(d, k)'
    BY <2>1 DEF IInv, TypeOK, destroyMeter, Returns, Keeps
  <2>5. ASSUME NEW s \in Sources, NEW k \in capture'[s]
        PROVE  k \in refs'[s] \/ \E d \in Callers : Keeps(d, k)' /\ d \in refs'[s]
    <3>1. k \in capture[s] /\ k # m /\ k \in Meters
      BY <2>3 DEF IInv, TypeOK
    <3>. QED
      BY <2>1, <2>2, <2>4, <3>1 DEF IInv, CapturedIsHeld
  <2>. QED
    BY <2>2, <2>3, <2>5 DEF IInv, TypeOK, CapturedIsHeld
<1>6. AudioIsCaptured'
  BY DEF IInv, TypeOK, destroyMeter, Destructor, detachSource, AudioFree, AudioIsCaptured, Targets
<1>7. UidIsHeld'
  BY DEF IInv, TypeOK, destroyMeter, Destructor, Returns, IdleCall, UidIsHeld, MtxOfStep
<1>8. CallbackIsHooked'
  BY DEF IInv, TypeOK, destroyMeter, CallbackIsHooked, MtxOfStep
<1>9. MeterIsKept'
  BY DEF IInv, TypeOK, destroyMeter, Destructor, Returns, IdleCall, Keeps, MeterIsKept
<1>10. TeardownIsAlone'
  BY DEF IInv, TypeOK, destroyMeter, TeardownIsAlone
<1>11. DyingIsAlive' /\ LiveIsSignalled' /\ TrackedByName' /\ ListedIsAlive'
  BY FrameDyingIsAlive, FrameLiveIsSignalled, FrameTrackedByName, FrameListedIsAlive DEF IInv,
     destroyMeter
<1>. QED
  BY <1>1, <1>2, <1>3, <1>4, <1>5, <1>6, <1>7, <1>8, <1>9, <1>10, <1>11 DEF IInv

(* A call takes a reference to attach a meter. *)
LEMMA AttachKeeps ==
    ASSUME NEW c \in Callers, NEW m \in Meters, NEW s \in Sources, IInv, Attach(c, m, s)
    PROVE  IInv'
<1>. USE RegistryAssumption DEF sourceVars, listVars, meterVars, lockVars, callVars, deathVars,
      endVars
<1>1. TypeOK'
  BY DEF IInv, TypeOK, Holders, CallSteps, Attach, NewCall, CallAt
<1>2. Targets'
  BY DEF IInv, TypeOK, Attach, CallAt, Targets
<1>3. MtxOfStep'
  BY DEF IInv, TypeOK, Attach, CallAt, MtxOfStep, Nobody
<1>4. HeldIsAlive'
  BY DEF IInv, TypeOK, Attach, HeldIsAlive, Alive
<1>5. CapturedIsHeld'
  BY DEF IInv, TypeOK, Attach, NewCall, CallAt, IdleCall, CapturedIsHeld, Keeps
<1>6. UidIsHeld'
  BY DEF IInv, TypeOK, Attach, CallAt, UidIsHeld
<1>7. MeterIsKept'
  BY DEF IInv, TypeOK, Attach, CallAt, MeterIsKept, Keeps
<1>8. TeardownIsAlone'
  BY DEF IInv, TypeOK, Attach, NewCall, TeardownIsAlone
<1>9. AudioIsCaptured' /\ CallbackIsHooked' /\ DyingIsAlive' /\ LiveIsSignalled' /\ TrackedByName' /\ ListedIsAlive'
  BY FrameAudioIsCaptured, FrameCallbackIsHooked, FrameDyingIsAlive, FrameLiveIsSignalled,
     FrameTrackedByName, FrameListedIsAlive DEF IInv, Attach
<1>. QED
  BY <1>1, <1>2, <1>3, <1>4, <1>5, <1>6, <1>7, <1>8, <1>9 DEF IInv

(* The meter is attached, and detached from its old source. *)
LEMMA AttachSourceKeeps ==
    ASSUME NEW c \in Callers, IInv, attachSource(c)
    PROVE  IInv'
<1>. USE RegistryAssumption DEF sourceVars, listVars, meterVars, lockVars, callVars, deathVars,
      endVars
<1>1. TypeOK'
  BY DEF IInv, TypeOK, Targets, Holders, CallSteps, attachSource, Returns, IdleCall
<1>2. Targets'
  BY DEF IInv, TypeOK, attachSource, Returns, IdleCall, Targets
<1>3. MtxOfStep'
  BY DEF IInv, TypeOK, attachSource, Returns, IdleCall, MtxOfStep
<1>4. HeldIsAlive'
  BY DEF IInv, TypeOK, attachSource, HeldIsAlive, UidIsHeld, Alive
<1>5. CapturedIsHeld'
  <2>. DEFINE m == call[c].meter
              s == call[c].source
  <2>1. /\ m \in Meters /\ s \in Sources /\ call[c].at = "attach" /\ m \in managed
        /\ m \notin Callers
    BY DEF IInv, attachSource, Targets, MeterIsKept
  <2>2. /\ attached' = [attached EXCEPT ![m] = s]
        /\ volmeters' = volmeters
        /\ m \in refs'[s]
        /\ \A t \in Sources : refs[t] \ {c, m} \subseteq refs'[t]
    BY <2>1 DEF IInv, TypeOK, attachSource
  <2>3. \A t \in Sources : \A k \in capture'[t] : IF k = m THEN t = s ELSE k \in capture[t]
    BY <2>1 DEF IInv, TypeOK, attachSource, CapturedIsHeld
  <2>4. \A d \in Callers, k \in Meters : Keeps(d, k) => d # c /\ Keeps(d, k)'
    BY <2>1 DEF IInv, TypeOK, attachSource, Returns, Keeps
  <2>5. ASSUME NEW t \in Sources, NEW k \in capture'[t]
        PROVE  /\ k \in volmeters' /\ attached'[k] = t
               /\ k \in refs'[t] \/ \E d \in Callers : Keeps(d, k)' /\ d \in refs'[t]
    <3>1. CASE k = m
      BY <2>1, <2>2, <2>3, <3>1 DEF IInv, TypeOK, MeterIsKept
    <3>2. CASE k # m
      <4>1. k \in capture[t] /\ k \in Meters /\ k # c
        BY <2>3, <3>2 DEF IInv, TypeOK
      <4>2. /\ k \in volmeters /\ attached[k] = t
            /\ k \in refs[t] \/ \E d \in Callers : Keeps(d, k) /\ d \in refs[t]
        BY <4>1 DEF IInv, CapturedIsHeld
      <4>. QED
        BY <2>1, <2>2, <2>4, <3>2, <4>1, <4>2 DEF IInv, TypeOK
    <3>. QED
      BY <3>1, <3>2
  <2>. QED
    BY <2>5 DEF CapturedIsHeld
<1>6. AudioIsCaptured'
  BY DEF IInv, TypeOK, attachSource, AudioFree, AudioIsCaptured, Targets
<1>7. UidIsHeld'
  BY DEF IInv, TypeOK, attachSource, Returns, IdleCall, UidIsHeld, MtxOfStep
<1>8. CallbackIsHooked'
  BY DEF IInv, TypeOK, attachSource, CallbackIsHooked, MtxOfStep
<1>9. MeterIsKept'
  BY DEF IInv, TypeOK, attachSource, Returns, IdleCall, MeterIsKept, MtxOfStep
<1>10. TeardownIsAlone'
  BY DEF IInv, TypeOK, attachSource, TeardownIsAlone
<1>11. DyingIsAlive' /\ LiveIsSignalled' /\ TrackedByName' /\ ListedIsAlive'
  BY FrameDyingIsAlive, FrameLiveIsSignalled, FrameTrackedByName, FrameListedIsAlive DEF IInv,
     attachSource
<1>. QED
  BY <1>1, <1>2, <1>3, <1>4, <1>5, <1>6, <1>7, <1>8, <1>9, <1>10, <1>11 DEF IInv

(* A Detach takes the meter's reference over. *)
LEMMA DetachKeeps ==
    ASSUME NEW c \in Callers, NEW m \in Meters, IInv, Detach(c, m)
    PROVE  IInv'
<1>. USE RegistryAssumption DEF sourceVars, listVars, meterVars, lockVars, callVars, deathVars,
      endVars
<1>1. TypeOK'
  BY DEF IInv, TypeOK, Holders, CallSteps, Detach, NewCall, CallAt
<1>2. Targets'
  BY DEF IInv, TypeOK, Detach, CallAt, Targets
<1>3. MtxOfStep'
  BY DEF IInv, TypeOK, Detach, CallAt, MtxOfStep
<1>4. HeldIsAlive'
  BY DEF IInv, TypeOK, Detach, HeldIsAlive, Alive
<1>5. CapturedIsHeld'
  BY DEF IInv, TypeOK, Detach, NewCall, CallAt, IdleCall, Keeps, CapturedIsHeld
<1>6. UidIsHeld'
  BY DEF IInv, TypeOK, Detach, CallAt, UidIsHeld, MtxOfStep
<1>7. CallbackIsHooked'
  BY DEF IInv, TypeOK, Detach, Nobody, CallbackIsHooked, MtxOfStep
<1>8. MeterIsKept'
  BY DEF IInv, TypeOK, Detach, CallAt, MeterIsKept, MtxOfStep
<1>9. TeardownIsAlone'
  BY DEF IInv, TypeOK, Detach, NewCall, TeardownIsAlone
<1>10. AudioIsCaptured' /\ DyingIsAlive' /\ LiveIsSignalled' /\ TrackedByName' /\ ListedIsAlive'
  BY FrameAudioIsCaptured, FrameDyingIsAlive, FrameLiveIsSignalled, FrameTrackedByName,
     FrameListedIsAlive DEF IInv, Detach
<1>. QED
  BY <1>1, <1>2, <1>3, <1>4, <1>5, <1>6, <1>7, <1>8, <1>9, <1>10 DEF IInv

(* A Detach has the callback taken out of the source's list. *)
LEMMA FinishDetachKeeps ==
    ASSUME NEW c \in Callers, IInv, finishDetach(c)
    PROVE  IInv'
<1>. USE RegistryAssumption DEF sourceVars, listVars, meterVars, lockVars, callVars, deathVars,
      endVars
<1>1. TypeOK'
  BY DEF IInv, TypeOK, Targets, CallSteps, finishDetach, detachSource, Returns, IdleCall
<1>2. Targets'
  BY DEF IInv, TypeOK, finishDetach, Returns, IdleCall, Targets
<1>3. MtxOfStep'
  BY DEF IInv, TypeOK, finishDetach, Returns, IdleCall, MtxOfStep
<1>4. HeldIsAlive'
  BY DEF IInv, TypeOK, finishDetach, HeldIsAlive, Alive
<1>5. CapturedIsHeld'
  BY DEF IInv, TypeOK, finishDetach, detachSource, Returns, Keeps, CapturedIsHeld, MeterIsKept,
     MtxOfStep
<1>6. AudioIsCaptured'
  BY DEF IInv, TypeOK, finishDetach, detachSource, AudioFree, AudioIsCaptured, Targets
<1>7. UidIsHeld'
  BY DEF IInv, TypeOK, finishDetach, Returns, IdleCall, UidIsHeld, Targets
<1>8. CallbackIsHooked'
  BY DEF IInv, TypeOK, finishDetach, CallbackIsHooked
<1>9. MeterIsKept'
  BY DEF IInv, TypeOK, finishDetach, Returns, IdleCall, Keeps, MeterIsKept
<1>10. TeardownIsAlone'
  BY DEF IInv, TypeOK, finishDetach, TeardownIsAlone
<1>11. DyingIsAlive' /\ LiveIsSignalled' /\ TrackedByName' /\ ListedIsAlive'
  BY FrameDyingIsAlive, FrameLiveIsSignalled, FrameTrackedByName, FrameListedIsAlive DEF IInv,
     finishDetach
<1>. QED
  BY <1>1, <1>2, <1>3, <1>4, <1>5, <1>6, <1>7, <1>8, <1>9, <1>10, <1>11 DEF IInv

(* The client polls. *)
LEMMA GlobalQueryKeeps ==
    ASSUME NEW c \in Callers, NEW m \in Meters, IInv, GlobalQuery(c, m)
    PROVE  IInv'
<1>. USE RegistryAssumption DEF sourceVars, listVars, meterVars, lockVars, callVars, deathVars,
      endVars
<1>1. TypeOK'
  BY DEF IInv, TypeOK, CallSteps, GlobalQuery, NewCall, CallAt
<1>2. Targets'
  BY DEF IInv, TypeOK, GlobalQuery, CallAt, Targets
<1>3. MtxOfStep'
  BY DEF IInv, TypeOK, GlobalQuery, CallAt, MtxOfStep
<1>4. CapturedIsHeld'
  BY DEF IInv, TypeOK, GlobalQuery, NewCall, CallAt, IdleCall, CapturedIsHeld, Keeps
<1>5. UidIsHeld'
  BY DEF IInv, TypeOK, GlobalQuery, CallAt, UidIsHeld
<1>6. MeterIsKept'
  BY DEF IInv, TypeOK, GlobalQuery, CallAt, MeterIsKept, Keeps
<1>7. TeardownIsAlone'
  BY DEF IInv, TypeOK, GlobalQuery, NewCall, TeardownIsAlone
<1>8. HeldIsAlive' /\ AudioIsCaptured' /\ CallbackIsHooked' /\ DyingIsAlive' /\ LiveIsSignalled' /\ TrackedByName' /\ ListedIsAlive'
  BY FrameHeldIsAlive, FrameAudioIsCaptured, FrameCallbackIsHooked, FrameDyingIsAlive,
     FrameLiveIsSignalled, FrameTrackedByName, FrameListedIsAlive DEF IInv, GlobalQuery
<1>. QED
  BY <1>1, <1>2, <1>3, <1>4, <1>5, <1>6, <1>7, <1>8 DEF IInv

(* The sizes have been read. *)
LEMMA AskedKeeps ==
    ASSUME NEW c \in Callers, IInv, asked(c)
    PROVE  IInv'
<1>. USE RegistryAssumption DEF sourceVars, listVars, meterVars, lockVars, callVars, deathVars,
      endVars
<1>1. TypeOK'
  BY DEF IInv, TypeOK, CallSteps, asked, CallAt
<1>2. Targets'
  BY DEF IInv, TypeOK, asked, CallAt, Targets
<1>3. MtxOfStep'
  BY DEF IInv, TypeOK, asked, CallAt, MtxOfStep
<1>4. CapturedIsHeld'
  BY DEF IInv, TypeOK, asked, CallAt, CapturedIsHeld, Keeps
<1>5. UidIsHeld'
  BY DEF IInv, TypeOK, asked, CallAt, UidIsHeld
<1>6. MeterIsKept'
  BY DEF IInv, TypeOK, asked, CallAt, MeterIsKept, Keeps
<1>7. TeardownIsAlone'
  BY DEF IInv, TypeOK, asked, TeardownIsAlone
<1>8. HeldIsAlive' /\ AudioIsCaptured' /\ CallbackIsHooked' /\ DyingIsAlive' /\ LiveIsSignalled' /\ TrackedByName' /\ ListedIsAlive'
  BY FrameHeldIsAlive, FrameAudioIsCaptured, FrameCallbackIsHooked, FrameDyingIsAlive,
     FrameLiveIsSignalled, FrameTrackedByName, FrameListedIsAlive DEF IInv, asked
<1>. QED
  BY <1>1, <1>2, <1>3, <1>4, <1>5, <1>6, <1>7, <1>8 DEF IInv

(* The levels of a meter are looked up. *)
LEMMA GetAudioDataKeeps ==
    ASSUME NEW c \in Callers, IInv, getAudioData(c)
    PROVE  IInv'
<1>. USE RegistryAssumption DEF sourceVars, listVars, meterVars, lockVars, callVars, deathVars,
      endVars
<1>1. TypeOK'
  BY DEF IInv, TypeOK, CallSteps, getAudioData, SourceOf, CallAt, Returns, IdleCall
<1>2. Targets'
  BY DEF IInv, TypeOK, getAudioData, SourceOf, CallAt, Returns, IdleCall, Targets
<1>3. MtxOfStep'
  BY DEF IInv, TypeOK, getAudioData, CallAt, Returns, IdleCall, MtxOfStep, Nobody
<1>4. CapturedIsHeld'
  BY DEF IInv, TypeOK, getAudioData, CallAt, Returns, IdleCall, CapturedIsHeld, Keeps
<1>5. UidIsHeld'
  BY DEF IInv, TypeOK, getAudioData, CallAt, Returns, IdleCall, UidIsHeld
<1>6. MeterIsKept'
  BY SMTT(30) DEF IInv, TypeOK, getAudioData, SourceOf, CallAt, Returns, IdleCall, MeterIsKept,
     TeardownIsAlone, Keeps
<1>7. TeardownIsAlone'
  BY DEF IInv, TypeOK, getAudioData, TeardownIsAlone
<1>8. HeldIsAlive' /\ AudioIsCaptured' /\ CallbackIsHooked' /\ DyingIsAlive' /\ LiveIsSignalled' /\ TrackedByName' /\ ListedIsAlive'
  BY FrameHeldIsAlive, FrameAudioIsCaptured, FrameCallbackIsHooked, FrameDyingIsAlive,
     FrameLiveIsSignalled, FrameTrackedByName, FrameListedIsAlive DEF IInv, getAudioData
<1>. QED
  BY <1>1, <1>2, <1>3, <1>4, <1>5, <1>6, <1>7, <1>8 DEF IInv

(* They have been read. *)
LEMMA GotAudioDataKeeps ==
    ASSUME NEW c \in Callers, IInv, gotAudioData(c)
    PROVE  IInv'
<1>. USE RegistryAssumption DEF sourceVars, listVars, meterVars, lockVars, callVars, deathVars,
      endVars
<1>1. TypeOK'
  BY DEF IInv, TypeOK, CallSteps, gotAudioData, Returns, IdleCall
<1>2. Targets'
  BY DEF IInv, TypeOK, gotAudioData, Returns, IdleCall, Targets
<1>3. MtxOfStep'
  BY DEF IInv, TypeOK, gotAudioData, Returns, IdleCall, MtxOfStep
<1>4. CapturedIsHeld'
  BY DEF IInv, TypeOK, gotAudioData, Returns, CapturedIsHeld, Keeps
<1>5. UidIsHeld'
  BY DEF IInv, TypeOK, gotAudioData, Returns, IdleCall, UidIsHeld
<1>6. MeterIsKept'
  BY DEF IInv, TypeOK, gotAudioData, Returns, IdleCall, MeterIsKept, Keeps
<1>7. TeardownIsAlone'
  BY DEF IInv, TypeOK, gotAudioData, TeardownIsAlone
<1>8. HeldIsAlive' /\ AudioIsCaptured' /\ CallbackIsHooked' /\ DyingIsAlive' /\ LiveIsSignalled' /\ TrackedByName' /\ ListedIsAlive'
  BY FrameHeldIsAlive, FrameAudioIsCaptured, FrameCallbackIsHooked, FrameDyingIsAlive,
     FrameLiveIsSignalled, FrameTrackedByName, FrameListedIsAlive DEF IInv, gotAudioData
<1>. QED
  BY <1>1, <1>2, <1>3, <1>4, <1>5, <1>6, <1>7, <1>8 DEF IInv

(* A source has audio for a meter. *)
LEMMA AudioCapturedKeeps ==
    ASSUME NEW s \in Sources, NEW m \in Meters, IInv, audioCaptured(s, m)
    PROVE  IInv'
<1>. USE RegistryAssumption DEF sourceVars, listVars, meterVars, lockVars, callVars, deathVars,
      endVars
<1>1. TypeOK'
  BY DEF IInv, TypeOK, audioCaptured
<1>2. Targets'
  BY DEF IInv, TypeOK, audioCaptured, Targets
<1>3. MtxOfStep'
  BY DEF IInv, TypeOK, audioCaptured, MtxOfStep
<1>4. AudioIsCaptured'
  BY DEF IInv, TypeOK, audioCaptured, AudioIsCaptured
<1>5. CallbackIsHooked'
  BY DEF IInv, TypeOK, audioCaptured, CallbackIsHooked
<1>6. HeldIsAlive' /\ CapturedIsHeld' /\ UidIsHeld' /\ MeterIsKept' /\ TeardownIsAlone' /\ DyingIsAlive' /\ LiveIsSignalled' /\ TrackedByName' /\ ListedIsAlive'
  BY FrameHeldIsAlive, FrameCapturedIsHeld, FrameUidIsHeld, FrameMeterIsKept, FrameTeardownIsAlone,
     FrameDyingIsAlive, FrameLiveIsSignalled, FrameTrackedByName, FrameListedIsAlive DEF IInv,
     audioCaptured
<1>. QED
  BY <1>1, <1>2, <1>3, <1>4, <1>5, <1>6 DEF IInv

(* libobs' meter calls back if it may. *)
LEMMA LevelsUpdatedKeeps ==
    ASSUME IInv, levelsUpdated
    PROVE  IInv'
<1>. USE RegistryAssumption DEF sourceVars, listVars, meterVars, lockVars, callVars, deathVars,
      endVars
<1>1. TypeOK'
  BY DEF IInv, TypeOK, levelsUpdated, AudioAt, IdleAudio
<1>2. Targets'
  BY DEF IInv, TypeOK, levelsUpdated, AudioAt, IdleAudio, Targets
<1>3. MtxOfStep'
  BY DEF IInv, TypeOK, levelsUpdated, AudioAt, IdleAudio, MtxOfStep
<1>4. AudioIsCaptured'
  BY DEF IInv, TypeOK, levelsUpdated, AudioAt, IdleAudio, AudioIsCaptured
<1>5. CallbackIsHooked'
  BY DEF IInv, TypeOK, levelsUpdated, AudioAt, IdleAudio, CallbackIsHooked
<1>6. HeldIsAlive' /\ CapturedIsHeld' /\ UidIsHeld' /\ MeterIsKept' /\ TeardownIsAlone' /\ DyingIsAlive' /\ LiveIsSignalled' /\ TrackedByName' /\ ListedIsAlive'
  BY FrameHeldIsAlive, FrameCapturedIsHeld, FrameUidIsHeld, FrameMeterIsKept, FrameTeardownIsAlone,
     FrameDyingIsAlive, FrameLiveIsSignalled, FrameTrackedByName, FrameListedIsAlive DEF IInv,
     levelsUpdated
<1>. QED
  BY <1>1, <1>2, <1>3, <1>4, <1>5, <1>6 DEF IInv

(* The level callback tries mtx. *)
LEMMA OBSCallbackKeeps ==
    ASSUME IInv, OBSCallback
    PROVE  IInv'
<1>. USE RegistryAssumption DEF sourceVars, listVars, meterVars, lockVars, callVars, deathVars,
      endVars
<1>1. TypeOK'
  <2>1. audio' \in [at : {"idle", "capture", "level", "touch"}, meter : Meters \cup {NoSource},
                     source : Sources \cup {NoSource}]
    BY DEF IInv, TypeOK, OBSCallback, AudioAt, IdleAudio
  <2>. QED
    BY <2>1 DEF IInv, TypeOK, OBSCallback
<1>2. Targets'
  BY DEF IInv, TypeOK, OBSCallback, AudioAt, IdleAudio, Targets
<1>3. MtxOfStep'
  BY DEF IInv, TypeOK, OBSCallback, IdleAudio, MtxOfStep
<1>4. AudioIsCaptured'
  BY DEF IInv, TypeOK, OBSCallback, AudioAt, IdleAudio, AudioIsCaptured
<1>5. CallbackIsHooked'
  BY DEF IInv, TypeOK, OBSCallback, SourceOf, AudioAt, IdleAudio, CallbackIsHooked
<1>6. HeldIsAlive' /\ CapturedIsHeld' /\ UidIsHeld' /\ MeterIsKept' /\ TeardownIsAlone' /\ DyingIsAlive' /\ LiveIsSignalled' /\ TrackedByName' /\ ListedIsAlive'
  BY FrameHeldIsAlive, FrameCapturedIsHeld, FrameUidIsHeld, FrameMeterIsKept, FrameTeardownIsAlone,
     FrameDyingIsAlive, FrameLiveIsSignalled, FrameTrackedByName, FrameListedIsAlive DEF IInv,
     OBSCallback
<1>. QED
  BY <1>1, <1>2, <1>3, <1>4, <1>5, <1>6 DEF IInv

(* The level callback ends. *)
LEMMA LevelsTakenKeeps ==
    ASSUME IInv, levelsTaken
    PROVE  IInv'
<1>. USE RegistryAssumption DEF sourceVars, listVars, meterVars, lockVars, callVars, deathVars,
      endVars
<1>1. TypeOK'
  BY DEF IInv, TypeOK, levelsTaken, IdleAudio
<1>2. Targets'
  BY DEF IInv, TypeOK, levelsTaken, IdleAudio, Targets
<1>3. MtxOfStep'
  BY DEF IInv, TypeOK, levelsTaken, IdleAudio, MtxOfStep
<1>4. AudioIsCaptured'
  BY DEF IInv, TypeOK, levelsTaken, IdleAudio, AudioIsCaptured
<1>5. CallbackIsHooked'
  BY DEF IInv, TypeOK, levelsTaken, IdleAudio, CallbackIsHooked
<1>6. HeldIsAlive' /\ CapturedIsHeld' /\ UidIsHeld' /\ MeterIsKept' /\ TeardownIsAlone' /\ DyingIsAlive' /\ LiveIsSignalled' /\ TrackedByName' /\ ListedIsAlive'
  BY FrameHeldIsAlive, FrameCapturedIsHeld, FrameUidIsHeld, FrameMeterIsKept, FrameTeardownIsAlone,
     FrameDyingIsAlive, FrameLiveIsSignalled, FrameTrackedByName, FrameListedIsAlive DEF IInv,
     levelsTaken
<1>. QED
  BY <1>1, <1>2, <1>3, <1>4, <1>5, <1>6 DEF IInv

(* The destruction thread takes a source nobody holds. *)
LEMMA DestroySourceKeeps ==
    ASSUME NEW s \in Sources, IInv, destroySource(s)
    PROVE  IInv'
<1>. USE RegistryAssumption DEF sourceVars, listVars, meterVars, lockVars, callVars, deathVars,
      endVars
<1>1. TypeOK'
  BY DEF IInv, TypeOK, destroySource
<1>2. HeldIsAlive'
  BY DEF IInv, TypeOK, destroySource, Queued, Alive, HeldIsAlive
<1>3. CapturedIsHeld'
  BY DEF IInv, TypeOK, destroySource, CapturedIsHeld, Keeps
<1>4. AudioIsCaptured'
  BY DEF IInv, TypeOK, destroySource, AudioFree, AudioIsCaptured
<1>5. DyingIsAlive'
  BY DEF IInv, TypeOK, destroySource, Queued, Alive, DyingIsAlive
<1>6. LiveIsSignalled'
  BY DEF IInv, TypeOK, destroySource, Alive, LiveIsSignalled
<1>7. TrackedByName'
  BY DEF IInv, TypeOK, destroySource, TrackedByName
<1>8. ListedIsAlive'
  BY DEF IInv, TypeOK, destroySource, Alive, ListedIsAlive, LiveIsSignalled
<1>9. Targets' /\ MtxOfStep' /\ UidIsHeld' /\ CallbackIsHooked' /\ MeterIsKept' /\ TeardownIsAlone'
  BY FrameTargets, FrameMtxOfStep, FrameUidIsHeld, FrameCallbackIsHooked, FrameMeterIsKept,
     FrameTeardownIsAlone DEF IInv, destroySource
<1>. QED
  BY <1>1, <1>2, <1>3, <1>4, <1>5, <1>6, <1>7, <1>8, <1>9 DEF IInv

(* The handler takes it out of the polled map. *)
LEMMA RemoveSourceKeeps ==
    ASSUME IInv, removeSource
    PROVE  IInv'
<1>. USE RegistryAssumption DEF sourceVars, listVars, meterVars, lockVars, callVars, deathVars,
      endVars
<1>1. TypeOK'
  BY DEF IInv, TypeOK, DyingIsAlive, removeSource
<1>2. DyingIsAlive'
  BY DEF IInv, TypeOK, removeSource, DyingIsAlive, Alive
<1>3. TrackedByName'
  BY DEF IInv, TypeOK, removeSource, TrackedByName
<1>4. ListedIsAlive'
  BY DEF IInv, TypeOK, removeSource, ListedIsAlive, Alive
<1>5. Targets' /\ MtxOfStep' /\ HeldIsAlive' /\ CapturedIsHeld' /\ AudioIsCaptured' /\ UidIsHeld' /\ CallbackIsHooked' /\ MeterIsKept' /\ TeardownIsAlone' /\ LiveIsSignalled'
  BY FrameTargets, FrameMtxOfStep, FrameHeldIsAlive, FrameCapturedIsHeld, FrameAudioIsCaptured,
     FrameUidIsHeld, FrameCallbackIsHooked, FrameMeterIsKept, FrameTeardownIsAlone,
     FrameLiveIsSignalled DEF IInv, removeSource
<1>. QED
  BY <1>1, <1>2, <1>3, <1>4, <1>5 DEF IInv

(* The handler takes it out of the registry. *)
LEMMA Global_source_destroy_cbKeeps ==
    ASSUME IInv, global_source_destroy_cb
    PROVE  IInv'
<1>. USE RegistryAssumption DEF sourceVars, listVars, meterVars, lockVars, callVars, deathVars,
      endVars
<1>1. TypeOK'
  BY ZenonT(60) DEF IInv, TypeOK, global_source_destroy_cb
<1>2. HeldIsAlive'
  BY DEF IInv, TypeOK, global_source_destroy_cb, Alive, HeldIsAlive
<1>3. DyingIsAlive'
  BY DEF IInv, TypeOK, global_source_destroy_cb, DyingIsAlive
<1>4. LiveIsSignalled'
  BY DEF IInv, TypeOK, global_source_destroy_cb, Alive, LiveIsSignalled
<1>5. TrackedByName'
  BY DEF IInv, TypeOK, global_source_destroy_cb, TrackedByName
<1>6. ListedIsAlive'
  BY DEF IInv, TypeOK, global_source_destroy_cb, Alive, ListedIsAlive, TrackedByName
<1>7. Targets' /\ MtxOfStep' /\ CapturedIsHeld' /\ AudioIsCaptured' /\ UidIsHeld' /\ CallbackIsHooked' /\ MeterIsKept' /\ TeardownIsAlone'
  BY FrameTargets, FrameMtxOfStep, FrameCapturedIsHeld, FrameAudioIsCaptured, FrameUidIsHeld,
     FrameCallbackIsHooked, FrameMeterIsKept, FrameTeardownIsAlone DEF IInv,
     global_source_destroy_cb
<1>. QED
  BY <1>1, <1>2, <1>3, <1>4, <1>5, <1>6, <1>7 DEF IInv

(* The media cache's worker drops its reference. *)
LEMMA WorkerDropsKeeps ==
    ASSUME NEW s \in Sources, IInv, workerDrops(s)
    PROVE  IInv'
<1>. USE RegistryAssumption DEF sourceVars, listVars, meterVars, lockVars, callVars, deathVars,
      endVars
<1>1. TypeOK'
  BY DEF IInv, TypeOK, workerDrops
<1>2. HeldIsAlive'
  BY DEF IInv, TypeOK, workerDrops, HeldIsAlive, Alive
<1>3. CapturedIsHeld'
  BY DEF IInv, TypeOK, workerDrops, Owners, CapturedIsHeld, Keeps
<1>4. UidIsHeld'
  BY DEF IInv, TypeOK, workerDrops, Owners, UidIsHeld
<1>5. Targets' /\ MtxOfStep' /\ AudioIsCaptured' /\ CallbackIsHooked' /\ MeterIsKept' /\ TeardownIsAlone' /\ DyingIsAlive' /\ LiveIsSignalled' /\ TrackedByName' /\ ListedIsAlive'
  BY FrameTargets, FrameMtxOfStep, FrameAudioIsCaptured, FrameCallbackIsHooked, FrameMeterIsKept,
     FrameTeardownIsAlone, FrameDyingIsAlive, FrameLiveIsSignalled, FrameTrackedByName,
     FrameListedIsAlive DEF IInv, workerDrops
<1>. QED
  BY <1>1, <1>2, <1>3, <1>4, <1>5 DEF IInv

(* The server's last client has gone. *)
LEMMA BeginTeardownKeeps ==
    ASSUME IInv, beginTeardown
    PROVE  IInv'
<1>. USE RegistryAssumption DEF sourceVars, listVars, meterVars, lockVars, callVars, deathVars,
      endVars
<1>1. TypeOK'
  BY DEF IInv, TypeOK, beginTeardown, TeardownAt
<1>2. HeldIsAlive'
  BY DEF IInv, TypeOK, beginTeardown, HeldIsAlive, Alive
<1>3. CapturedIsHeld'
  BY DEF IInv, TypeOK, beginTeardown, Owners, CapturedIsHeld, Keeps
<1>4. UidIsHeld'
  BY DEF IInv, TypeOK, beginTeardown, IdleCall, Owners, UidIsHeld
<1>5. TeardownIsAlone'
  BY DEF IInv, TypeOK, beginTeardown, TeardownAt, IdleCall, TeardownIsAlone
<1>6. LiveIsSignalled'
  BY DEF IInv, TypeOK, beginTeardown, TeardownAt, LiveIsSignalled, Alive
<1>7. ListedIsAlive'
  BY DEF IInv, TypeOK, beginTeardown, TeardownAt, ListedIsAlive, Alive
<1>8. Targets' /\ MtxOfStep' /\ AudioIsCaptured' /\ CallbackIsHooked' /\ MeterIsKept' /\ DyingIsAlive' /\ TrackedByName'
  BY FrameTargets, FrameMtxOfStep, FrameAudioIsCaptured, FrameCallbackIsHooked, FrameMeterIsKept,
     FrameDyingIsAlive, FrameTrackedByName DEF IInv, beginTeardown
<1>. QED
  BY <1>1, <1>2, <1>3, <1>4, <1>5, <1>6, <1>7, <1>8 DEF IInv

(* The teardown removes a level callback. *)
LEMMA ClearCallbackKeeps ==
    ASSUME NEW m \in Meters, IInv, clearCallback(m)
    PROVE  IInv'
<1>. USE RegistryAssumption DEF sourceVars, listVars, meterVars, lockVars, callVars, deathVars,
      endVars
<1>1. TypeOK'
  BY DEF IInv, TypeOK, clearCallback
<1>2. CallbackIsHooked'
  BY DEF IInv, TypeOK, clearCallback, CallbackFree, CallbackIsHooked
<1>3. TeardownIsAlone'
  BY DEF IInv, TypeOK, clearCallback, TeardownIsAlone
<1>4. Targets' /\ MtxOfStep' /\ HeldIsAlive' /\ CapturedIsHeld' /\ AudioIsCaptured' /\ UidIsHeld' /\ MeterIsKept' /\ DyingIsAlive' /\ LiveIsSignalled' /\ TrackedByName' /\ ListedIsAlive'
  BY FrameTargets, FrameMtxOfStep, FrameHeldIsAlive, FrameCapturedIsHeld, FrameAudioIsCaptured,
     FrameUidIsHeld, FrameMeterIsKept, FrameDyingIsAlive, FrameLiveIsSignalled, FrameTrackedByName,
     FrameListedIsAlive DEF IInv, clearCallback
<1>. QED
  BY <1>1, <1>2, <1>3, <1>4 DEF IInv

(* No level callback is left. *)
LEMMA ClearedCallbacksKeeps ==
    ASSUME IInv, clearedCallbacks
    PROVE  IInv'
<1>. USE RegistryAssumption DEF sourceVars, listVars, meterVars, lockVars, callVars, deathVars,
      endVars
<1>1. TypeOK'
  BY DEF IInv, TypeOK, clearedCallbacks, TeardownAt
<1>2. CallbackIsHooked'
  BY DEF IInv, TypeOK, clearedCallbacks, CallbackIsHooked
<1>3. MeterIsKept'
  BY DEF IInv, TypeOK, clearedCallbacks, TeardownAt, MeterIsKept, TeardownIsAlone
<1>4. TeardownIsAlone'
  BY DEF IInv, TypeOK, clearedCallbacks, TeardownAt, TeardownIsAlone
<1>5. LiveIsSignalled'
  BY DEF IInv, TypeOK, clearedCallbacks, TeardownAt, LiveIsSignalled, Alive
<1>6. ListedIsAlive'
  BY DEF IInv, TypeOK, clearedCallbacks, TeardownAt, ListedIsAlive, Alive
<1>7. Targets' /\ MtxOfStep' /\ HeldIsAlive' /\ CapturedIsHeld' /\ AudioIsCaptured' /\ UidIsHeld' /\ DyingIsAlive' /\ TrackedByName'
  BY FrameTargets, FrameMtxOfStep, FrameHeldIsAlive, FrameCapturedIsHeld, FrameAudioIsCaptured,
     FrameUidIsHeld, FrameDyingIsAlive, FrameTrackedByName DEF IInv, clearedCallbacks
<1>. QED
  BY <1>1, <1>2, <1>3, <1>4, <1>5, <1>6, <1>7 DEF IInv

(* The teardown destroys a meter. *)
LEMMA ClearMeterKeeps ==
    ASSUME NEW m \in Meters, IInv, clearMeter(m)
    PROVE  IInv'
<1>. USE RegistryAssumption DEF sourceVars, listVars, meterVars, lockVars, callVars, deathVars,
      endVars
<1>1. TypeOK'
  BY DEF IInv, TypeOK, clearMeter, Destructor, detachSource
<1>2. HeldIsAlive'
  BY DEF IInv, TypeOK, clearMeter, HeldIsAlive, Alive
<1>3. CapturedIsHeld'
  BY DEF IInv, TypeOK, clearMeter, Destructor, detachSource, Keeps, CapturedIsHeld
<1>4. AudioIsCaptured'
  BY DEF IInv, TypeOK, clearMeter, Destructor, detachSource, AudioFree, AudioIsCaptured, Targets
<1>5. UidIsHeld'
  BY DEF IInv, TypeOK, clearMeter, Destructor, UidIsHeld, Targets
<1>6. CallbackIsHooked'
  BY DEF IInv, TypeOK, clearMeter, CallbackIsHooked, TeardownIsAlone
<1>7. MeterIsKept'
  BY DEF IInv, TypeOK, clearMeter, MeterIsKept, TeardownIsAlone
<1>8. Targets' /\ MtxOfStep' /\ TeardownIsAlone' /\ DyingIsAlive' /\ LiveIsSignalled' /\ TrackedByName' /\ ListedIsAlive'
  BY FrameTargets, FrameMtxOfStep, FrameTeardownIsAlone, FrameDyingIsAlive, FrameLiveIsSignalled,
     FrameTrackedByName, FrameListedIsAlive DEF IInv, clearMeter
<1>. QED
  BY <1>1, <1>2, <1>3, <1>4, <1>5, <1>6, <1>7, <1>8 DEF IInv

(* The destruction thread has nothing to do. *)
LEMMA DrainKeeps ==
    ASSUME IInv, drain
    PROVE  IInv'
<1>. USE RegistryAssumption DEF sourceVars, listVars, meterVars, lockVars, callVars, deathVars,
      endVars
<1>1. TypeOK'
  BY DEF IInv, TypeOK, drain, TeardownAt
<1>2. TeardownIsAlone'
  BY DEF IInv, TypeOK, drain, TeardownAt, TeardownIsAlone
<1>3. LiveIsSignalled'
  BY DEF IInv, TypeOK, drain, TeardownAt, LiveIsSignalled, Alive
<1>4. ListedIsAlive'
  BY DEF IInv, TypeOK, drain, TeardownAt, ListedIsAlive, Alive
<1>5. Targets' /\ MtxOfStep' /\ HeldIsAlive' /\ CapturedIsHeld' /\ AudioIsCaptured' /\ UidIsHeld' /\ CallbackIsHooked' /\ MeterIsKept' /\ DyingIsAlive' /\ TrackedByName'
  BY FrameTargets, FrameMtxOfStep, FrameHeldIsAlive, FrameCapturedIsHeld, FrameAudioIsCaptured,
     FrameUidIsHeld, FrameCallbackIsHooked, FrameMeterIsKept, FrameDyingIsAlive,
     FrameTrackedByName DEF IInv, drain
<1>. QED
  BY <1>1, <1>2, <1>3, <1>4, <1>5 DEF IInv

(* The media cache's worker has ended. *)
LEMMA JoinWorkerKeeps ==
    ASSUME IInv, joinWorker
    PROVE  IInv'
<1>. USE RegistryAssumption DEF sourceVars, listVars, meterVars, lockVars, callVars, deathVars,
      endVars
<1>1. TypeOK'
  BY DEF IInv, TypeOK, joinWorker, TeardownAt
<1>2. HeldIsAlive'
  BY DEF IInv, TypeOK, joinWorker, HeldIsAlive, Alive
<1>3. CapturedIsHeld'
  BY DEF IInv, TypeOK, joinWorker, Owners, CapturedIsHeld, Keeps
<1>4. UidIsHeld'
  BY DEF IInv, TypeOK, joinWorker, Owners, UidIsHeld, Targets
<1>5. TeardownIsAlone'
  BY DEF IInv, TypeOK, joinWorker, TeardownAt, TeardownIsAlone
<1>6. LiveIsSignalled'
  BY DEF IInv, TypeOK, joinWorker, TeardownAt, LiveIsSignalled, Alive
<1>7. ListedIsAlive'
  BY DEF IInv, TypeOK, joinWorker, TeardownAt, ListedIsAlive, Alive
<1>8. Targets' /\ MtxOfStep' /\ AudioIsCaptured' /\ CallbackIsHooked' /\ MeterIsKept' /\ DyingIsAlive' /\ TrackedByName'
  BY FrameTargets, FrameMtxOfStep, FrameAudioIsCaptured, FrameCallbackIsHooked, FrameMeterIsKept,
     FrameDyingIsAlive, FrameTrackedByName DEF IInv, joinWorker
<1>. QED
  BY <1>1, <1>2, <1>3, <1>4, <1>5, <1>6, <1>7, <1>8 DEF IInv

(* A walk over the registry begins. *)
LEMMA BeginWalkKeeps ==
    ASSUME IInv, beginWalk
    PROVE  IInv'
<1>. USE RegistryAssumption DEF sourceVars, listVars, meterVars, lockVars, callVars, deathVars,
      endVars
<1>1. TypeOK'
  BY DEF IInv, TypeOK, beginWalk, TeardownAt
<1>2. TeardownIsAlone'
  BY DEF IInv, TypeOK, beginWalk, TeardownAt, TeardownIsAlone
<1>3. LiveIsSignalled'
  BY DEF IInv, TypeOK, beginWalk, TeardownAt, LiveIsSignalled, Alive
<1>4. ListedIsAlive'
  BY DEF IInv, TypeOK, beginWalk, TeardownAt, ListedIsAlive, Alive
<1>5. Targets' /\ MtxOfStep' /\ HeldIsAlive' /\ CapturedIsHeld' /\ AudioIsCaptured' /\ UidIsHeld' /\ CallbackIsHooked' /\ MeterIsKept' /\ DyingIsAlive' /\ TrackedByName'
  BY FrameTargets, FrameMtxOfStep, FrameHeldIsAlive, FrameCapturedIsHeld, FrameAudioIsCaptured,
     FrameUidIsHeld, FrameCallbackIsHooked, FrameMeterIsKept, FrameDyingIsAlive,
     FrameTrackedByName DEF IInv, beginWalk
<1>. QED
  BY <1>1, <1>2, <1>3, <1>4, <1>5 DEF IInv

(* A walk visits a source. *)
LEMMA VisitKeeps ==
    ASSUME NEW s \in Sources, IInv, visit(s)
    PROVE  IInv'
<1>. USE RegistryAssumption DEF sourceVars, listVars, meterVars, lockVars, callVars, deathVars,
      endVars
<1>1. TypeOK'
  BY DEF IInv, TypeOK, visit
<1>2. LiveIsSignalled'
  BY DEF IInv, TypeOK, visit, LiveIsSignalled, Alive
<1>3. ListedIsAlive'
  BY DEF IInv, TypeOK, visit, ListedIsAlive, Alive
<1>4. Targets' /\ MtxOfStep' /\ HeldIsAlive' /\ CapturedIsHeld' /\ AudioIsCaptured' /\ UidIsHeld' /\ CallbackIsHooked' /\ MeterIsKept' /\ TeardownIsAlone' /\ DyingIsAlive' /\ TrackedByName'
  BY FrameTargets, FrameMtxOfStep, FrameHeldIsAlive, FrameCapturedIsHeld, FrameAudioIsCaptured,
     FrameUidIsHeld, FrameCallbackIsHooked, FrameMeterIsKept, FrameTeardownIsAlone,
     FrameDyingIsAlive, FrameTrackedByName DEF IInv, visit
<1>. QED
  BY <1>1, <1>2, <1>3, <1>4 DEF IInv

(* The walk ends. *)
LEMMA EndWalkKeeps ==
    ASSUME IInv, endWalk
    PROVE  IInv'
<1>. USE RegistryAssumption DEF sourceVars, listVars, meterVars, lockVars, callVars, deathVars,
      endVars
<1>1. TypeOK'
  BY DEF IInv, TypeOK, endWalk, TeardownAt
<1>2. TeardownIsAlone'
  BY DEF IInv, TypeOK, endWalk, TeardownAt, TeardownIsAlone
<1>3. LiveIsSignalled'
  BY DEF IInv, TypeOK, endWalk, TeardownAt, LiveIsSignalled, Alive
<1>4. ListedIsAlive'
  BY DEF IInv, TypeOK, endWalk, TeardownAt, ListedIsAlive, Alive
<1>5. Targets' /\ MtxOfStep' /\ HeldIsAlive' /\ CapturedIsHeld' /\ AudioIsCaptured' /\ UidIsHeld' /\ CallbackIsHooked' /\ MeterIsKept' /\ DyingIsAlive' /\ TrackedByName'
  BY FrameTargets, FrameMtxOfStep, FrameHeldIsAlive, FrameCapturedIsHeld, FrameAudioIsCaptured,
     FrameUidIsHeld, FrameCallbackIsHooked, FrameMeterIsKept, FrameDyingIsAlive,
     FrameTrackedByName DEF IInv, endWalk
<1>. QED
  BY <1>1, <1>2, <1>3, <1>4, <1>5 DEF IInv

(* Leaked sources and scenes are released. *)
LEMMA ReleaseLeakedKeeps ==
    ASSUME IInv, releaseLeaked
    PROVE  IInv'
<1>. USE RegistryAssumption DEF sourceVars, listVars, meterVars, lockVars, callVars, deathVars,
      endVars
<1>1. TypeOK'
  BY DEF IInv, TypeOK, releaseLeaked, TeardownAt
<1>2. HeldIsAlive'
  BY DEF IInv, TypeOK, releaseLeaked, HeldIsAlive, Alive
<1>3. CapturedIsHeld'
  BY DEF IInv, TypeOK, releaseLeaked, Owners, CapturedIsHeld, Keeps
<1>4. UidIsHeld'
  BY DEF IInv, TypeOK, releaseLeaked, Owners, UidIsHeld, Targets
<1>5. TeardownIsAlone'
  BY DEF IInv, TypeOK, releaseLeaked, TeardownAt, TeardownIsAlone
<1>6. LiveIsSignalled'
  BY DEF IInv, TypeOK, releaseLeaked, TeardownAt, LiveIsSignalled, Alive
<1>7. ListedIsAlive'
  BY DEF IInv, TypeOK, releaseLeaked, TeardownAt, ListedIsAlive, Alive
<1>8. Targets' /\ MtxOfStep' /\ AudioIsCaptured' /\ CallbackIsHooked' /\ MeterIsKept' /\ DyingIsAlive' /\ TrackedByName'
  BY FrameTargets, FrameMtxOfStep, FrameAudioIsCaptured, FrameCallbackIsHooked, FrameMeterIsKept,
     FrameDyingIsAlive, FrameTrackedByName DEF IInv, releaseLeaked
<1>. QED
  BY <1>1, <1>2, <1>3, <1>4, <1>5, <1>6, <1>7, <1>8 DEF IInv
-----------------------------------------------------------------------------
LEMMA InvInit == Init => IInv
<1>. SUFFICES ASSUME Init PROVE IInv
  OBVIOUS
<1>. USE RegistryAssumption DEF Init
<1>1. TypeOK
  <2>1. IdleCall \in [at : CallSteps, meter : Meters \cup {NoSource}, source : Sources \cup {NoSource}]
    BY DEF IdleCall, CallSteps
  <2>2. audio \in [at : {"idle", "capture", "level", "touch"}, meter : Meters \cup {NoSource},
                   source : Sources \cup {NoSource}]
    BY DEF IdleAudio
  <2>. QED
    BY <2>1, <2>2 DEF TypeOK
<1>2. Targets /\ MtxOfStep /\ MeterIsKept /\ TeardownIsAlone
  BY DEF Targets, MtxOfStep, MeterIsKept, TeardownIsAlone, IdleCall, IdleAudio
<1>3. HeldIsAlive /\ CapturedIsHeld /\ AudioIsCaptured /\ UidIsHeld /\ CallbackIsHooked
  BY DEF HeldIsAlive, CapturedIsHeld, AudioIsCaptured, UidIsHeld, CallbackIsHooked, IdleCall,
     IdleAudio
<1>4. DyingIsAlive /\ LiveIsSignalled /\ TrackedByName /\ ListedIsAlive
  BY DEF DyingIsAlive, LiveIsSignalled, TrackedByName, ListedIsAlive, Alive
<1>. QED
  BY <1>1, <1>2, <1>3, <1>4 DEF IInv

LEMMA InvStutter ==
    ASSUME IInv, UNCHANGED vars
    PROVE  IInv'
<1>. USE DEF vars, sourceVars, listVars, meterVars, lockVars, callVars, deathVars, endVars
<1>1. TypeOK'
  BY DEF IInv, TypeOK
<1>2. Targets' /\ MtxOfStep' /\ HeldIsAlive' /\ CapturedIsHeld' /\ AudioIsCaptured' /\ UidIsHeld'
  BY FrameTargets, FrameMtxOfStep, FrameHeldIsAlive, FrameCapturedIsHeld, FrameAudioIsCaptured,
     FrameUidIsHeld DEF IInv
<1>3. /\ CallbackIsHooked' /\ MeterIsKept' /\ TeardownIsAlone' /\ DyingIsAlive'
      /\ LiveIsSignalled' /\ TrackedByName' /\ ListedIsAlive'
  BY FrameCallbackIsHooked, FrameMeterIsKept, FrameTeardownIsAlone, FrameDyingIsAlive,
     FrameLiveIsSignalled, FrameTrackedByName, FrameListedIsAlive DEF IInv
<1>. QED
  BY <1>1, <1>2, <1>3 DEF IInv

LEMMA InvStep == IInv /\ [Next]_vars => IInv'
<1>. SUFFICES ASSUME IInv, [Next]_vars PROVE IInv'
  OBVIOUS
<1>1. ASSUME NEW c \in Callers, CallBegins(c) PROVE IInv'
  BY <1>1, Global_source_create_cbKeeps, SetNameKeeps, ReleaseKeeps, ShownKeeps, CreateMeterKeeps,
     DestroyKeeps, AttachKeeps, DetachKeeps, GlobalQueryKeeps DEF CallBegins
<1>2. ASSUME NEW c \in Callers, CallStep(c) PROVE IInv'
  BY <1>2, RemoveCallbackKeeps, DestroyMeterKeeps, AttachSourceKeeps, FinishDetachKeeps, AskedKeeps,
     GetAudioDataKeeps, GotAudioDataKeeps DEF CallStep
<1>3. CASE (\E s \in Sources, m \in Meters : audioCaptured(s, m)) \/ AudioStep
  BY <1>3, AudioCapturedKeeps, LevelsUpdatedKeeps, OBSCallbackKeeps, LevelsTakenKeeps DEF AudioStep
<1>4. CASE DestroyStep \/ \E s \in Sources : workerDrops(s)
  BY <1>4, DestroySourceKeeps, RemoveSourceKeeps, Global_source_destroy_cbKeeps, WorkerDropsKeeps
     DEF DestroyStep
<1>5. CASE beginTeardown \/ TeardownStep
  BY <1>5, BeginTeardownKeeps, ClearCallbackKeeps, ClearedCallbacksKeeps, ClearMeterKeeps,
     DrainKeeps,
     JoinWorkerKeeps, BeginWalkKeeps, VisitKeeps, EndWalkKeeps, ReleaseLeakedKeeps DEF TeardownStep
<1>6. CASE UNCHANGED vars
  BY <1>6, InvStutter
<1>. QED
  BY <1>1, <1>2, <1>3, <1>4, <1>5, <1>6 DEF Next

LEMMA Invariance == Spec => []IInv
  BY InvInit, InvStep, PTL DEF Spec

-----------------------------------------------------------------------------
(* The variables of the registry, the meters and the teardown have their      *)
(* types.                                                                    *)
THEOREM TypeCorrect == Spec => []TypeOK
  BY Invariance, PTL DEF IInv

(* A level callback, a query that reads levels and a Detach find the source   *)
(* and the meter they use alive, and the audio lists never outlive a meter.  *)
LEMMA InUseIsAlive == IInv => UsesAlive
<1>. SUFFICES ASSUME IInv PROVE UsesAlive
  OBVIOUS
<1>1. \A s \in Sources : capture[s] # {} => Alive(s) /\ dying # s
  BY DEF IInv, CapturedIsHeld, HeldIsAlive
<1>2. audio.at # "idle" => Alive(audio.source) /\ audio.meter \in volmeters
  BY <1>1 DEF IInv, Targets, AudioIsCaptured, CapturedIsHeld
<1>3. \A m \in Meters : uidSource[m] # NoSource => uidSource[m] \in Sources /\ Alive(uidSource[m])
  BY DEF IInv, TypeOK, UidIsHeld, HeldIsAlive
<1>4. audio.at = "touch" => uidSource[audio.meter] \in Sources /\ Alive(uidSource[audio.meter])
  BY <1>3 DEF IInv, Targets, CallbackIsHooked
<1>5. ASSUME NEW c \in Callers PROVE /\ call[c].at = "read" => Alive(call[c].source)
                                     /\ call[c].at = "detach" => call[c].meter \in volmeters
  BY <1>3, RegistryAssumption DEF IInv, Targets, MeterIsKept
<1>6. \A s \in Sources : capture[s] \subseteq volmeters
  BY DEF IInv, CapturedIsHeld
<1>. QED
  BY <1>2, <1>4, <1>5, <1>6 DEF UsesAlive

(* Through releases, detachments, renames, queries and the teardown in any    *)
(* order, whoever uses a source or a meter without a reference of it finds it *)
(* alive, and ids and the polled map lead to sources that exist.             *)
THEOREM NeverDangles == Spec => []NothingDangles
<1>1. IInv => NothingDangles
  BY InUseIsAlive DEF IInv, NothingDangles
<1>. QED
  BY <1>1, Invariance, PTL
=============================================================================
