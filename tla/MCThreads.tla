------------------------------ MODULE MCThreads ------------------------------
(* The shutdown of the server, its screenshots and its displays on small     *)
(* instances: two outputs; three screenshots under a cap of two; two callers, *)
(* two displays and two canvases at two addresses.  The three share no state, *)
(* and a behaviour uses one of them.                                         *)
EXTENDS Shutdown, Screenshot, DisplayCanvas, TLC

CONSTANTS t1, t2

VARIABLE part

SomeTrackers == {t1, t2}

ThreadsInit ==
    /\ part \in {"shutdown", "screenshots", "displays"}
    /\ ShutdownInit /\ (part # "shutdown" => managed = {})
    /\ ScreenshotInit /\ DisplayInit
ThreadsNext ==
    \/ part = "shutdown" /\ ShutdownNext /\ UNCHANGED <<part, shotVars, displayCanvasVars>>
    \/ part = "screenshots" /\ ScreenshotNext /\ UNCHANGED <<part, allVars, displayCanvasVars>>
    \/ part = "displays" /\ DisplayNext /\ UNCHANGED <<part, allVars, shotVars>>
ThreadsVars == <<part, allVars, shotVars, displayCanvasVars>>

\* No fair action of one part can be taken while the other runs.
ThreadsSpec == ThreadsInit /\ [][ThreadsNext]_ThreadsVars /\ ShutdownFairness /\ ScreenshotFairness

\* A shutdown ends, by itself or by the watchdog, and a client that polls for its
\* screenshot is answered, although frames, outputs and the encoder may be stuck.
ThreadsEnd == ShutdownEnds /\ PollsEnd
=============================================================================
