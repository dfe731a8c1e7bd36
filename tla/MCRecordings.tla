---------------------------- MODULE MCRecordings ----------------------------
(* Recordings on small instances: two simple recordings whose starts race    *)
(* the end of the one before; and a lossless simple and an advanced one that *)
(* libobs keeps beyond their release and that are split into files.  A       *)
(* behaviour uses one of the two.                                            *)
EXTENDS FileOutput

CONSTANTS o1, o2

AllOutputs == {o1, o2}

VARIABLES part, registered2, output2, stopped2, counted2, claim2, target2, run2, active2, stopCall2,
    connected2, disk2, api2

Kept == INSTANCE FileOutput WITH
    Simple <- {o1}, Qualities <- {"Lossless"}, Bases <- {"rec", "split"}, MaxCounter <- 1,
    Settled <- TRUE, Shared <- TRUE, Splitting <- TRUE,
    registered <- registered2, output <- output2, stopped <- stopped2, counted <- counted2, claim <- claim2,
    target <- target2, run <- run2, active <- active2, stopCall <- stopCall2, connected <- connected2,
    disk <- disk2, api <- api2

keptVars == <<registered2, output2, stopped2, counted2, claim2, target2, run2, active2, stopCall2,
              connected2, disk2, api2>>

BothInit == part \in {"simple", "kept"} /\ Init /\ Kept!Init
BothNext ==
    \/ part = "simple" /\ Next /\ UNCHANGED <<part, keptVars>>
    \/ part = "kept" /\ Kept!Next /\ UNCHANGED <<part, vars>>

\* No fair action of the first part can be taken while the other runs.
BothSpec == BothInit /\ [][BothNext]_<<part, vars, keptVars>> /\ Fairness

\* Deletions leave nothing behind (DeletionsAreClean) also when libobs keeps
\* the output, splits its file, or has it write uncompressed.
KeptAreClean == Kept!DeletionsAreClean
=============================================================================
