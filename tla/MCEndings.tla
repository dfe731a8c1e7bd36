------------------------------ MODULE MCEndings ------------------------------
(* What ends: in the server a session with two callers, a hardware test of    *)
(* two outputs, and a YouTube probe that shares its connection with another   *)
(* destination; in the client two runs that each tell one event.  The two     *)
(* share no state, and a behaviour uses one of them.                          *)
EXTENDS OptimizerSession

CONSTANTS c1, c2, h1, h2

TwoCallers  == {c1, c2}
TwoAttempts == {h1, h2}

VARIABLES part,
    activeSessionId, workerStop, lastEventSequence, jsThread, lifecycle, poller, run, finish, queue, tsfn,
    handled, up, session, emitted, unread, faults, calls

Client == INSTANCE OptimizerClient WITH
    Runs <- 1 .. 2, MaxEvents <- 0, MaxFaults <- 1, MaxCalls <- 2, delivered <- handled

clientVars == <<activeSessionId, workerStop, lastEventSequence, jsThread, lifecycle, poller, run, finish, queue,
                tsfn, handled, up, session, emitted, unread, faults, calls>>

EndingsInit == part \in {"server", "client"} /\ Init /\ Client!Init
EndingsNext ==
    \/ part = "server" /\ Next /\ UNCHANGED <<part, clientVars>>
    \/ part = "client" /\ Client!Next /\ UNCHANGED <<part, vars>>

\* No fair action of one part can be taken while the other runs.
EndingsSpec == EndingsInit /\ [][EndingsNext]_<<part, vars, clientVars>> /\ Fairness /\ Client!Fairness

\* Every call that is made and every run of the server comes to an end, and so does
\* every attempt of a client to end the run it has.
RunsSettle == EverythingEnds /\ Client!AttemptsEnd
=============================================================================
