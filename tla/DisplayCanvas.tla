---------------------------- MODULE DisplayCanvas ----------------------------
(***************************************************************************)
(* The displays (nodeobs_common.cpp, nodeobs_display.cpp) and the video     *)
(* canvases they draw (osn-video.cpp).  A display keeps a plain pointer to   *)
(* its canvas, which the graphics thread reads in every frame, and libobs    *)
(* frees a canvas that is removed.  displaysMutex and three flags keep the   *)
(* two apart while calls run on several threads.  What a call does under     *)
(* the mutex is one action; what it does outside is a step of its own.       *)
(***************************************************************************)
EXTENDS Naturals, FiniteSets

CONSTANTS
    Callers,     \* threads that serve calls
    Keys,        \* the names the frontend gives to displays
    Ids,         \* the ids the manager gives to canvases
    Pointers,    \* the addresses libobs gives to canvases, used again once free
    Videos,      \* settings of a canvas
    MaxDisplays, \* bound: displays made
    MaxCalls     \* bound: calls made

ASSUME DisplayAssumption == MaxDisplays \in Nat

VARIABLES
    displays,     \* the display of each key, or 0
    object,       \* the displays made: "new", "alive" or "deleted", canvas, draw callback
    contexts,      \* the canvas of each id: a set of one pointer, or none
    live,         \* the canvases libobs knows
    running,      \* the settings each canvas runs with, or none when unknown
    lastApplied,  \* lastAppliedVideo
    removing,     \* videoContextRemovalInProgress
    detaching,    \* displayDetachInProgress
    shuttingDown, \* displaysShuttingDown
    call,         \* what each caller does
    drawn,        \* the display the graphics thread draws, or 0
    count         \* calls made so far

canvasVars == <<contexts, live, running, lastApplied>>
displayVars == <<displays, object, drawn>>
gateVars == <<removing, detaching, shuttingDown>>
displayCanvasVars == <<displayVars, canvasVars, gateVars, call, count>>

IdleCall == [at |-> "idle", id |-> {}, canvas |-> {}, video |-> {}, doomed |-> {}, used |-> {}, result |-> "none"]

DisplayInit ==
    /\ displays = [k \in Keys |-> 0]
    /\ object = [d \in 1..MaxDisplays |-> [state |-> "new", canvas |-> {}, hooked |-> FALSE]]
    /\ contexts = [i \in Ids |-> {}] /\ live = {}
    /\ running = [p \in Pointers |-> {}] /\ lastApplied = [p \in Pointers |-> {}]
    /\ removing = FALSE /\ detaching = FALSE /\ shuttingDown = FALSE
    /\ call = [c \in Callers |-> IdleCall]
    /\ drawn = 0
    /\ count = 0

Alive == {d \in DOMAIN object : object[d].state = "alive"}
Made == Cardinality({d \in DOMAIN object : object[d].state # "new"})

Begins(c) == call[c].at = "idle" /\ count < MaxCalls /\ count' = count + 1

\* displaysMutex: a call that uses a display holds it over two steps.
Unlocked == \A c \in Callers : call[c].at # "use"
Locks(c) == Begins(c) /\ Unlocked

Goes(c, step) == call' = [call EXCEPT ![c].at = step]
Returns(c) == call' = [call EXCEPT ![c] = IdleCall]

-----------------------------------------------------------------------------
(* Displays *)

neverWaits == TRUE

\* What a new display waits for.
MayCreate == ~removing

\* The window, the libobs display and its draw callback, for a canvas or, with
\* no id, for the main one.  When they cannot be made the call still answers Ok.
createDisplay(c, k, i) ==
    /\ Locks(c) /\ MayCreate
    /\ ~shuttingDown /\ displays[k] = 0 /\ Made < MaxDisplays
    /\ \E canvas \in IF i = {} THEN {{}} ELSE {contexts[j] : j \in i} \ {{}} :
        object' = [object EXCEPT ![Made + 1] = [state |-> "alive", canvas |-> canvas, hooked |-> TRUE]]
    /\ displays' = [displays EXCEPT ![k] = Made + 1]
    /\ UNCHANGED <<drawn, canvasVars, gateVars, call>>

stillDrawing(d) == TRUE

\* remove_draw_callback waits for the callback that runs.
CallbackDone(d) == drawn # d

Detached(o) == [o EXCEPT !.canvas = {}, !.hooked = FALSE]
Deleted(o) == [Detached(o) EXCEPT !.state = "deleted"]

acceptsAlways == TRUE

\* Whether a call may reach the displays by their keys.
AcceptsCalls == ~shuttingDown

destroyDisplay(c, k) ==
    /\ Locks(c) /\ AcceptsCalls
    /\ displays[k] # 0 /\ CallbackDone(displays[k])
    /\ object' = [object EXCEPT ![displays[k]] = Deleted(@)]
    /\ displays' = [displays EXCEPT ![k] = 0]
    /\ UNCHANGED <<drawn, canvasVars, gateVars, call>>

\* The calls that resize, move and colour a display, or read its preview area.
BeginUse(c, k) ==
    /\ Locks(c) /\ AcceptsCalls
    /\ displays[k] # 0
    /\ call' = [call EXCEPT ![c] = [IdleCall EXCEPT !.at = "use", !.used = {displays[k]}]]
    /\ UNCHANGED <<displayVars, canvasVars, gateVars>>

\* It has read the canvas and the source of the display.
EndUse(c) ==
    /\ call[c].at = "use"
    /\ Returns(c)
    /\ UNCHANGED <<displayVars, canvasVars, gateVars, count>>

GatesOpen == ~removing /\ ~detaching

\* detachDisplays takes the displays it finds and leaves them registered.
BeginDetach(c) ==
    /\ Locks(c) /\ GatesOpen /\ ~shuttingDown
    /\ call' = [call EXCEPT ![c] = [IdleCall EXCEPT !.at = "detach", !.doomed = Alive]]
    /\ shuttingDown' = TRUE /\ detaching' = TRUE
    /\ UNCHANGED <<displayVars, canvasVars, removing>>

DetachCanvas(c, d) ==
    /\ call[c].at = "detach" /\ d \in call[c].doomed /\ CallbackDone(d)
    /\ object' = [object EXCEPT ![d] = Detached(@)]
    /\ call' = [call EXCEPT ![c].doomed = @ \ {d}]
    /\ UNCHANGED <<displays, drawn, canvasVars, gateVars, count>>

\* shutdownDisplays empties the registry and deletes what was in it.
BeginShutdown(c) ==
    /\ Locks(c) /\ GatesOpen
    /\ call' = [call EXCEPT ![c] = [IdleCall EXCEPT !.at = "delete", !.doomed = Alive]]
    /\ displays' = [k \in Keys |-> 0]
    /\ shuttingDown' = TRUE /\ detaching' = TRUE
    /\ UNCHANGED <<object, drawn, canvasVars, removing>>

DeleteDisplay(c, d) ==
    /\ call[c].at = "delete" /\ d \in call[c].doomed /\ CallbackDone(d)
    /\ object' = [object EXCEPT ![d] = Deleted(@)]
    /\ call' = [call EXCEPT ![c].doomed = @ \ {d}]
    /\ UNCHANGED <<displays, drawn, canvasVars, gateVars, count>>

EndDetach(c) ==
    /\ Unlocked /\ call[c].at \in {"detach", "delete"} /\ call[c].doomed = {}
    /\ detaching' = FALSE
    /\ Returns(c)
    /\ UNCHANGED <<displayVars, canvasVars, removing, shuttingDown, count>>

\* Displays that were only detached keep the calls refused.
resetDisplayShutdownState(c) ==
    /\ Locks(c) /\ GatesOpen
    /\ shuttingDown' = (shuttingDown /\ \E k \in Keys : displays[k] # 0)
    /\ UNCHANGED <<displayVars, canvasVars, removing, detaching, call>>

\* A frame of a display, on the graphics thread, between the two.
BeginDraw(d) ==
    /\ drawn = 0 /\ object[d].hooked
    /\ drawn' = d
    /\ UNCHANGED <<displays, object, canvasVars, gateVars, call, count>>

EndDraw ==
    /\ drawn # 0
    /\ drawn' = 0
    /\ UNCHANGED <<displays, object, canvasVars, gateVars, call, count>>

-----------------------------------------------------------------------------
(* Canvases *)

\* The frontend changes the settings of a canvas while no other call changes
\* or removes one.
Quiet == \A c \in Callers : call[c].at \in {"idle", "detach", "delete", "use"}
NoSetter == \A c \in Callers : call[c].at \notin {"set", "skip"}

addVideoContext(c) ==
    /\ Begins(c)
    /\ \E p \in Pointers \ live, i \in Ids :
        /\ contexts[i] = {} /\ \A j \in Ids : p \notin contexts[j]
        /\ contexts' = [contexts EXCEPT ![i] = {p}]
        /\ live' = live \cup {p}
        /\ running' = [running EXCEPT ![p] = {}]
    /\ UNCHANGED <<displayVars, lastApplied, gateVars, call>>

neverInUse(p) == FALSE

\* A registered display that draws a canvas keeps it.
InUse(p) == \E k \in Keys : displays[k] # 0 /\ object[displays[k]].canvas = {p}

BeginRemoval(c, i) ==
    /\ Locks(c) /\ GatesOpen /\ NoSetter
    /\ \E p \in contexts[i] :
        /\ ~InUse(p)
        /\ call' = [call EXCEPT ![c] = [IdleCall EXCEPT !.at = "remove", !.id = {i}, !.canvas = {p}]]
    /\ removing' = TRUE
    /\ UNCHANGED <<displayVars, canvasVars, detaching, shuttingDown>>

\* libobs: a failure other than a refusal can leave every canvas torn down.
TornDown == [p \in Pointers |-> {}]

\* The optimizer was cancelled and connecting streams stopped, or the first
\* took too long and the call gives up.
RemoveFromLibobs(c) ==
    /\ call[c].at = "remove"
    /\ \E result \in {"removed", "reinitialization_failed", "refused", "failed"} :
        /\ call' = [call EXCEPT ![c].at = "record", ![c].result = result]
        /\ live' = IF result \in {"removed", "reinitialization_failed"} THEN live \ call[c].canvas ELSE live
        /\ running' = IF result \in {"reinitialization_failed", "failed"} THEN TornDown ELSE running
    /\ UNCHANGED <<displayVars, contexts, lastApplied, gateVars, count>>

forgetNothing(canvas) == lastApplied

Forget(canvas) == [p \in Pointers |-> IF p \in canvas THEN {} ELSE lastApplied[p]]

invalidateNothing == lastApplied

InvalidateAppliedVideoInfo == [p \in Pointers |-> {}]

RecordRemoval(c) ==
    /\ call[c].at = "record"
    /\ contexts' = IF call[c].result \in {"removed", "reinitialization_failed"}
                  THEN [i \in Ids |-> IF i \in call[c].id THEN {} ELSE contexts[i]] ELSE contexts
    /\ lastApplied' = CASE call[c].result = "removed" -> Forget(call[c].canvas)
                        [] call[c].result = "refused" -> lastApplied
                        [] OTHER -> InvalidateAppliedVideoInfo
    /\ Goes(c, "end")
    /\ UNCHANGED <<displayVars, live, running, gateVars, count>>

EndVideoContextRemoval(c) ==
    /\ Unlocked /\ call[c].at = "end"
    /\ removing' = FALSE
    /\ Returns(c)
    /\ UNCHANGED <<displayVars, canvasVars, detaching, shuttingDown, count>>

VideoInfoUnchanged(p, v) == lastApplied[p] = {v}

\* SetVideoContext: settings that were applied last are not applied again.
SetVideoContext(c, i, v) ==
    /\ Begins(c) /\ Quiet
    /\ \E p \in contexts[i] :
        call' = [call EXCEPT ![c] = [IdleCall EXCEPT !.at = IF VideoInfoUnchanged(p, v) THEN "skip" ELSE "set",
                                                 !.canvas = {p}, !.video = {v}]]
    /\ UNCHANGED <<displayVars, canvasVars, gateVars>>

SkipVideo(c) ==
    /\ call[c].at = "skip"
    /\ Returns(c)
    /\ UNCHANGED <<displayVars, canvasVars, gateVars, count>>

\* The settings run, or they fail, or the optimizer does not stop in time.
ApplyVideo(c) ==
    /\ call[c].at = "set"
    /\ \/ /\ running' = [p \in Pointers |-> IF p \in call[c].canvas THEN call[c].video ELSE running[p]]
          /\ lastApplied' = [p \in Pointers |-> IF p \in call[c].canvas THEN call[c].video ELSE lastApplied[p]]
       \/ running' = TornDown /\ lastApplied' = InvalidateAppliedVideoInfo
       \/ UNCHANGED <<running, lastApplied>>
    /\ Returns(c)
    /\ UNCHANGED <<displayVars, contexts, live, gateVars, count>>

\* The service and the advanced settings apply settings of their own.
ResetVideo(c) ==
    /\ Begins(c) /\ Quiet
    /\ running' = TornDown /\ lastApplied' = InvalidateAppliedVideoInfo
    /\ UNCHANGED <<displayVars, contexts, live, gateVars, call>>

-----------------------------------------------------------------------------
Step(c) ==
    \/ \E d \in DOMAIN object : DetachCanvas(c, d) \/ DeleteDisplay(c, d)
    \/ EndDetach(c) \/ EndUse(c)
    \/ RemoveFromLibobs(c) \/ RecordRemoval(c) \/ EndVideoContextRemoval(c)
    \/ SkipVideo(c) \/ ApplyVideo(c)

DisplayNext ==
    \/ \E c \in Callers :
        \/ Step(c)
        \/ \E k \in Keys, i \in {{}} \cup {{j} : j \in Ids} : createDisplay(c, k, i)
        \/ \E k \in Keys : destroyDisplay(c, k) \/ BeginUse(c, k)
        \/ BeginDetach(c) \/ BeginShutdown(c) \/ resetDisplayShutdownState(c)
        \/ addVideoContext(c) \/ ResetVideo(c)
        \/ \E i \in Ids : BeginRemoval(c, i) \/ \E v \in Videos : SetVideoContext(c, i, v)
    \/ \E d \in DOMAIN object : BeginDraw(d)
    \/ EndDraw

DisplaySpec == DisplayInit /\ [][DisplayNext]_displayCanvasVars

\* A display has a canvas that libobs knows for as long as a frame may read it,
\* and no call uses a display that another one detaches or deletes: displays,
\* frames, removals, detaching and shutting down meet only under displaysMutex.
CanvasOutlivesDisplays ==
    /\ \A d \in Alive : object[d].canvas \subseteq live
    /\ \A k \in Keys : displays[k] # 0 => displays[k] \in Alive
    /\ \A c \in Callers : call[c].doomed \subseteq Alive
    /\ \A c, b \in Callers : call[c].used \subseteq Alive \ call[b].doomed
    /\ drawn # 0 => drawn \in Alive /\ object[drawn].hooked

\* A call that skips settings because they were applied last does so on a
\* canvas that runs with them: not on another canvas at the same address, nor
\* after a failure or another part of the server has changed what runs.
SkippedIsApplied ==
    \A c \in Callers : call[c].at = "skip" => \A p \in call[c].canvas : running[p] = call[c].video
=============================================================================
