----------------------- MODULE ShutdownWatchdogProofs -----------------------
(* Proofs about ShutdownWatchdog and Shutdown, for any number of outputs: the *)
(* watchdog's count agrees with the trackers, the shutdown uses the watchdog  *)
(* as ShutdownWatchdog says, and it ends within its budgets.                 *)
EXTENDS Shutdown, FiniteSetTheorems, TLAPS

Inv == TypeOK /\ CountMatchesTrackers

(* The sets whose cardinalities are counted are finite. *)
LEMMA CountedSetsFinite ==
    /\ IsFiniteSet(Active) /\ IsFiniteSet(Adding) /\ IsFiniteSet(Removing)
    /\ Cardinality(Active) \in Nat
    /\ Cardinality(Adding) \in Nat
    /\ Cardinality(Removing) \in Nat
<1>1. Active \in SUBSET Trackers /\ Adding \in SUBSET Threads /\ Removing \in SUBSET Threads
  BY DEF Active, Adding, Removing
<1>2. IsFiniteSet(Trackers) /\ IsFiniteSet(Threads)
  BY WatchdogAssumption
<1>3. IsFiniteSet(Active) /\ IsFiniteSet(Adding) /\ IsFiniteSet(Removing)
  BY <1>1, <1>2, FS_Subset
<1>. QED
  BY <1>3, FS_CardinalityType

(* A step that leaves the trackers alone leaves the count right. *)
LEMMA SameTrackers ==
    ASSUME CountMatchesTrackers, UNCHANGED trackerVars
    PROVE  CountMatchesTrackers'
BY DEF CountMatchesTrackers, trackerVars, Active, Adding, Removing

(* What a watchdog step preserves of the types. *)
LEMMA TypePreserved ==
    ASSUME TypeOK, [Next]_vars
    PROVE  TypeOK'
<1>. USE WatchdogAssumption DEF TypeOK, clockVars, trackerVars, Running
<1>1. ASSUME NEW s \in Stages, NEW b \in Budgets, Arm(s, b) PROVE TypeOK'
  BY <1>1 DEF Arm, NoCap
<1>2. ASSUME NEW b \in Budgets, Kick(b) PROVE TypeOK'
  BY <1>2 DEF Kick
<1>3. ASSUME NEW c \in Caps, SetCap(c) PROVE TypeOK'
  BY <1>3 DEF SetCap
<1>4. CASE Disarm
  BY <1>4 DEF Disarm
<1>5. ASSUME NEW th \in Threads, NEW t \in Trackers, Begin(th, t) PROVE TypeOK'
  BY <1>5 DEF Begin
<1>6. ASSUME NEW th \in Threads, NEW t \in Trackers, End(th, t) PROVE TypeOK'
  BY <1>6 DEF End
<1>7. ASSUME NEW th \in Threads, AddFinalizing(th) PROVE TypeOK'
  BY <1>7 DEF AddFinalizing, Idle, FreshStep
<1>8. CASE Expire
  BY <1>8 DEF Expire
<1>9. CASE Terminate
  BY <1>9 DEF Terminate
<1>10. CASE Tick
  BY <1>10 DEF Tick
<1>11. CASE UNCHANGED vars
  BY <1>11 DEF vars
<1>. QED
  BY <1>1, <1>2, <1>3, <1>4, <1>5, <1>6, <1>7, <1>8, <1>9, <1>10, <1>11
     DEF Next, CallerNext, TrackerNext

(* Begin() adds a tracker and an addition still to be made. *)
LEMMA BeginKeepsCount ==
    ASSUME Inv, NEW th \in Threads, NEW t \in Trackers, Begin(th, t)
    PROVE  CountMatchesTrackers'
<1>. USE DEF Inv, TypeOK, Idle
<1>1. /\ t \notin Active /\ th \notin Adding
      /\ Active' = Active \cup {t}
      /\ Adding' = Adding \cup {th}
      /\ Removing' = Removing
      /\ finalizing' = finalizing
  BY DEF Begin, Active, Adding, Removing
<1>2. /\ Cardinality(Active \cup {t}) = Cardinality(Active) + 1
      /\ Cardinality(Adding \cup {th}) = Cardinality(Adding) + 1
  BY <1>1, CountedSetsFinite, FS_AddElement
<1>. QED
  BY <1>1, <1>2, CountedSetsFinite DEF CountMatchesTrackers

(* End() takes a tracker away and leaves a removal to be made. *)
LEMMA EndKeepsCount ==
    ASSUME Inv, NEW th \in Threads, NEW t \in Trackers, End(th, t)
    PROVE  CountMatchesTrackers'
<1>. USE DEF Inv, TypeOK, Idle
<1>1. /\ t \in Active /\ th \notin Removing
      /\ Active' = Active \ {t}
      /\ Removing' = Removing \cup {th}
      /\ Adding' = Adding
      /\ finalizing' = finalizing
  BY DEF End, Active, Adding, Removing
<1>2. /\ Cardinality(Active \ {t}) = Cardinality(Active) - 1
      /\ Cardinality(Removing \cup {th}) = Cardinality(Removing) + 1
  BY <1>1, CountedSetsFinite, FS_AddElement, FS_RemoveElement
<1>. QED
  BY <1>1, <1>2, CountedSetsFinite DEF CountMatchesTrackers

(* AddFinalizing() settles what its caller had still to add or to remove. *)
LEMMA AddKeepsCount ==
    ASSUME Inv, NEW th \in Threads, AddFinalizing(th)
    PROVE  CountMatchesTrackers'
<1>. USE DEF Inv, TypeOK, Idle
<1>1. Active' = Active /\ finalizing' = finalizing + pending[th]
  BY DEF AddFinalizing, Active
<1>2. CASE pending[th] = 1
  <2>1. th \in Adding /\ Adding' = Adding \ {th} /\ Removing' = Removing
    BY <1>2 DEF AddFinalizing, Adding, Removing
  <2>2. Cardinality(Adding \ {th}) = Cardinality(Adding) - 1
    BY <2>1, CountedSetsFinite, FS_RemoveElement
  <2>. QED
    BY <1>1, <1>2, <2>1, <2>2, CountedSetsFinite DEF CountMatchesTrackers
<1>3. CASE pending[th] = -1
  <2>1. th \in Removing /\ Removing' = Removing \ {th} /\ Adding' = Adding
    BY <1>3 DEF AddFinalizing, Adding, Removing
  <2>2. Cardinality(Removing \ {th}) = Cardinality(Removing) - 1
    BY <2>1, CountedSetsFinite, FS_RemoveElement
  <2>. QED
    BY <1>1, <1>3, <2>1, <2>2, CountedSetsFinite DEF CountMatchesTrackers
<1>. QED
  BY <1>2, <1>3 DEF AddFinalizing

LEMMA InvInit ==
    ASSUME Init
    PROVE  Inv
<1>1. TypeOK
  <2>1. active \in [Trackers -> BOOLEAN]
    BY Zenon DEF Init
  <2>2. pending \in [Threads -> {-1, 0, 1}]
    BY DEF Init, Idle
  <2>3. now \in 0..MaxNow /\ cap \in [at : Int, limit : Nat]
    BY WatchdogAssumption DEF Init, NoCap
  <2>4. budget \in Nat /\ deadline \in Nat /\ finalizing \in Int
    BY DEF Init
  <2>5. /\ armed \in BOOLEAN
        /\ stage \in Stages \cup {NoStage}
        /\ runner \in {"none", "waiting", "expiring", "terminated"}
    BY Zenon DEF Init
  <2>. QED
    BY <2>1, <2>2, <2>3, <2>4, <2>5, Zenon DEF TypeOK
<1>2. Active = {} /\ Adding = {} /\ Removing = {} /\ finalizing = 0
  BY DEF Init, Active, Adding, Removing, Idle
<1>. QED
  BY <1>1, <1>2, FS_EmptySet DEF Inv, CountMatchesTrackers

LEMMA InvStep ==
    ASSUME Inv, [Next]_vars
    PROVE  Inv'
<1>1. TypeOK'
  BY TypePreserved DEF Inv
<1>2. CountMatchesTrackers'
  <2>1. CASE TrackerNext
    BY <2>1, BeginKeepsCount, EndKeepsCount, AddKeepsCount DEF TrackerNext
  <2>2. CASE UNCHANGED trackerVars
    BY <2>2, SameTrackers DEF Inv
  <2>3. ASSUME CallerNext \/ Expire \/ Terminate \/ Tick \/ UNCHANGED vars
        PROVE  UNCHANGED trackerVars
    BY <2>3 DEF CallerNext, Arm, Kick, SetCap, Disarm, Expire, Terminate, Tick, vars
  <2>. QED
    BY <2>1, <2>2, <2>3 DEF Next
<1>. QED
  BY <1>1, <1>2 DEF Inv

(* Every state of the watchdog has the declared types. *)
THEOREM TypeCorrect == Spec => []TypeOK
<1>1. Spec => []Inv
  BY InvInit, InvStep, PTL DEF Spec
<1>2. Inv => TypeOK
  BY DEF Inv
<1>. QED
  BY <1>1, <1>2, PTL

(* Whatever threads race on Begin() and End(), the watchdog's count and the  *)
(* calls of AddFinalizing() still to be made add up to the trackers that     *)
(* have begun and not ended, for any number of outputs and threads.          *)
THEOREM CountCorrect == Spec => []CountMatchesTrackers
<1>1. Spec => []Inv
  BY InvInit, InvStep, PTL DEF Spec
<1>2. Inv => CountMatchesTrackers
  BY DEF Inv
<1>. QED
  BY <1>1, <1>2, PTL

-----------------------------------------------------------------------------
(* The shutdown *)

Pcs == {"serving", "prepare", "cap", "stop", "next", "delete", "release", "teardown", "exited"}
InOutputs == {"cap", "stop", "next", "delete", "release"}

ShutdownTypeOK ==
    /\ pc \in Pcs
    /\ managed \in SUBSET Trackers /\ freed \in SUBSET Trackers /\ left \in SUBSET Trackers
    /\ byClient \in BOOLEAN
    /\ start \in Nat /\ lastStep \in Nat /\ lastBusy \in Nat
    /\ start <= now /\ lastStep <= now /\ lastBusy <= now

\* The watchdog is armed only in a shutdown, by the stage that is under way.
ArmedInStage ==
    /\ pc \notin {"serving", "exited"} => runner # "none"
    /\ armed /\ pc # "exited" =>
          \/ pc = "prepare" /\ stage = "Prepare"
          \/ pc \in InOutputs /\ stage = "Outputs"
          \/ pc = "teardown" /\ stage = "Teardown"

\* How far the clock may have come in each stage.
WithinBudgets ==
    /\ pc \in {"prepare", "teardown"} => deadline >= now /\ cap = NoCap
    /\ pc = "prepare" => deadline = start + PrepareBudget
    /\ pc = "cap" => now <= start + PrepareBudget /\ cap = NoCap
    /\ pc \in InOutputs \ {"cap"} => /\ cap # NoCap /\ now <= cap.at
                                     /\ cap.at <= start + PrepareBudget + OutputCap
    /\ pc = "teardown" => deadline <= start + PrepareBudget + OutputCap + TeardownBudget

\* The step of the outputs' stage that is under way began no earlier than the
\* last output was deleted and the last one had finished.
StepIsFresh ==
    armed /\ pc \in InOutputs =>
        /\ budget = OutputStep
        /\ deadline >= lastStep + OutputStep
        /\ finalizing <= 0 => deadline >= lastBusy + OutputStep
        /\ pc = "cap" => lastStep = now

\* What is left to delete, and that only it can be finalizing.
LeftIsManaged ==
    /\ pc \in {"prepare", "cap", "stop"} => freed = {}
    /\ pc \in {"next", "delete", "release", "teardown"} => left = managed \ freed
    /\ pc = "teardown" => left = {} /\ pending["main"] = Idle
    /\ pc \in {"delete", "release"} => current \in Trackers
    /\ \A t \in Trackers :
          active[t] => t \in managed \ freed \/ (t = current /\ pc \in {"delete", "release"})

ShutdownInv ==
    /\ Inv /\ ShutdownTypeOK
    /\ ArmedInStage /\ WithinBudgets /\ StepIsFresh /\ LeftIsManaged

\* What the constants give.
LEMMA Constants ==
    /\ PrepareBudget \in Nat \ {0} /\ OutputStep \in Nat \ {0} /\ TeardownBudget \in Nat \ {0}
    /\ OutputCap \in Nat \ {0}
    /\ PrepareBudget \in Budgets /\ OutputStep \in Budgets /\ TeardownBudget \in Budgets
    /\ OutputCap \in Caps
    /\ "main" \in Threads /\ "signal" \in Threads
    /\ "Prepare" \in Stages /\ "Outputs" \in Stages /\ "Teardown" \in Stages
  BY WatchdogAssumption, ShutdownAssumption

(* Every step of the shutdown is one of the watchdog, or leaves it alone. *)
LEMMA WatchdogStep ==
    ASSUME [ShutdownNext]_allVars, ShutdownTypeOK, LeftIsManaged
    PROVE  [Next]_vars
<1>. USE Constants
<1>1. CASE MainStep
  <2>1. CASE ArmPrepare \/ ClientDestroys \/ ArmOutputs \/ ArmTeardown
    BY <2>1 DEF ArmPrepare, ClientDestroys, ArmOutputs, ArmTeardown, Next, CallerNext
  <2>2. CASE SetOutputsCap \/ DisarmAfterClient
    BY <2>2 DEF SetOutputsCap, DisarmAfterClient, Next, CallerNext
  <2>3. ASSUME NEW t \in Trackers, ClientStops(t) \/ DeleteNext(t) PROVE Next
    BY <2>3 DEF ClientStops, DeleteNext, Next, CallerNext, TrackerNext
  <2>4. CASE DeleteStops \/ ReleaseEnds
    <3>1. current \in Trackers
      BY <2>4 DEF DeleteStops, ReleaseEnds, MainAt, LeftIsManaged
    <3>. QED
      BY <2>4, <3>1 DEF DeleteStops, ReleaseEnds, Next, TrackerNext
  <2>5. CASE StopDone \/ DeleteIdle \/ Exit
    BY <2>5 DEF StopDone, DeleteIdle, Exit
  <2>. QED
    BY <1>1, <2>1, <2>2, <2>3, <2>4, <2>5 DEF MainStep
<1>2. ASSUME NEW t \in Trackers, StopSignal(t) PROVE Next
  BY <1>2 DEF StopSignal, Next, TrackerNext
<1>3. ASSUME NEW th \in Threads, TrackerAdds(th) PROVE Next
  BY <1>3 DEF TrackerAdds, Next, TrackerNext
<1>4. CASE WatchdogExpires \/ WatchdogTerminates \/ TimePasses
  BY <1>4 DEF WatchdogExpires, WatchdogTerminates, TimePasses, Next
<1>5. CASE UNCHANGED allVars
  BY <1>5 DEF allVars
<1>. QED
  BY <1>1, <1>2, <1>3, <1>4, <1>5 DEF ShutdownNext

\* The parts that the watchdog's own specification does not keep.
ShutdownParts == ShutdownTypeOK /\ ArmedInStage /\ WithinBudgets /\ StepIsFresh /\ LeftIsManaged

(* The server's last client has gone. *)
LEMMA ArmPrepareKeeps ==
    ASSUME ShutdownInv, ArmPrepare
    PROVE  ShutdownParts'
<1>. USE Constants DEF ShutdownInv, Inv, TypeOK, ArmPrepare, Arm, MayShutDown, Stepped, MainAt,
      clockVars, trackerVars, objects, history, mainVars, vars
<1>1. ShutdownTypeOK'
  <2>1. byClient' \in BOOLEAN
    BY Zenon
  <2>. QED
    BY <2>1 DEF ShutdownTypeOK, Pcs, LeftIsManaged
<1>2. ArmedInStage'
  BY DEF ArmedInStage, InOutputs, ShutdownTypeOK
<1>3. WithinBudgets'
  BY DEF WithinBudgets, InOutputs, ArmedInStage, NoCap, ShutdownTypeOK
<1>4. StepIsFresh'
  BY DEF StepIsFresh, InOutputs, WithinBudgets, ArmedInStage, ShutdownTypeOK, NoCap
<1>5. LeftIsManaged'
  BY DEF LeftIsManaged, ShutdownTypeOK, Idle
<1>. QED
  BY <1>1, <1>2, <1>3, <1>4, <1>5 DEF ShutdownParts

(* A client has the server shut down. *)
LEMMA ClientDestroysKeeps ==
    ASSUME ShutdownInv, ClientDestroys
    PROVE  ShutdownParts'
<1>. USE Constants DEF ShutdownInv, Inv, TypeOK, ClientDestroys, Arm, MayShutDown, Stepped, MainAt,
      clockVars, trackerVars, objects, history, mainVars, vars
<1>1. ShutdownTypeOK'
  BY DEF ShutdownTypeOK, Pcs, LeftIsManaged
<1>2. ArmedInStage'
  BY DEF ArmedInStage, InOutputs, ShutdownTypeOK
<1>3. WithinBudgets'
  BY DEF WithinBudgets, InOutputs, ArmedInStage, NoCap, ShutdownTypeOK
<1>4. StepIsFresh'
  BY DEF StepIsFresh, InOutputs, WithinBudgets, ArmedInStage, ShutdownTypeOK, NoCap
<1>5. LeftIsManaged'
  BY DEF LeftIsManaged, ShutdownTypeOK, Idle
<1>. QED
  BY <1>1, <1>2, <1>3, <1>4, <1>5 DEF ShutdownParts

(* The stage of the outputs begins. *)
LEMMA ArmOutputsKeeps ==
    ASSUME ShutdownInv, ArmOutputs
    PROVE  ShutdownParts'
<1>. USE Constants DEF ShutdownInv, Inv, TypeOK, ArmOutputs, Arm, Stepped, MainAt, clockVars,
      trackerVars, objects, history, mainVars, vars
<1>1. ShutdownTypeOK'
  BY DEF ShutdownTypeOK, Pcs, LeftIsManaged
<1>2. ArmedInStage'
  BY DEF ArmedInStage, InOutputs, ShutdownTypeOK
<1>3. WithinBudgets'
  BY DEF WithinBudgets, InOutputs, ArmedInStage, NoCap, ShutdownTypeOK
<1>4. StepIsFresh'
  BY DEF StepIsFresh, InOutputs, WithinBudgets, ArmedInStage, ShutdownTypeOK, NoCap
<1>5. LeftIsManaged'
  BY DEF LeftIsManaged, ShutdownTypeOK, Idle
<1>. QED
  BY <1>1, <1>2, <1>3, <1>4, <1>5 DEF ShutdownParts

(* The stage of the outputs gets its cap. *)
LEMMA SetOutputsCapKeeps ==
    ASSUME ShutdownInv, SetOutputsCap
    PROVE  ShutdownParts'
<1>. USE Constants DEF ShutdownInv, Inv, TypeOK, SetOutputsCap, SetCap, MainAt, clockVars,
      trackerVars, objects, history, mainVars, vars
<1>1. ShutdownTypeOK'
  BY DEF ShutdownTypeOK, Pcs, LeftIsManaged
<1>2. ArmedInStage'
  BY DEF ArmedInStage, InOutputs, ShutdownTypeOK
<1>3. WithinBudgets'
  BY DEF WithinBudgets, InOutputs, ArmedInStage, NoCap, ShutdownTypeOK
<1>4. StepIsFresh'
  BY DEF StepIsFresh, InOutputs, WithinBudgets, ArmedInStage, ShutdownTypeOK, NoCap
<1>5. LeftIsManaged'
  BY DEF LeftIsManaged, ShutdownTypeOK, Idle
<1>. QED
  BY <1>1, <1>2, <1>3, <1>4, <1>5 DEF ShutdownParts

(* What comes before the outputs has been stopped. *)
LEMMA StopDoneKeeps ==
    ASSUME ShutdownInv, StopDone
    PROVE  ShutdownParts'
<1>. USE Constants DEF ShutdownInv, Inv, TypeOK, StopDone, MainAt, Running, clockVars, trackerVars,
      objects, history, mainVars, vars
<1>1. ShutdownTypeOK'
  BY DEF ShutdownTypeOK, Pcs, LeftIsManaged
<1>2. ArmedInStage'
  BY DEF ArmedInStage, InOutputs, ShutdownTypeOK
<1>3. WithinBudgets'
  BY DEF WithinBudgets, InOutputs, ArmedInStage, NoCap, ShutdownTypeOK
<1>4. StepIsFresh'
  BY DEF StepIsFresh, InOutputs, WithinBudgets, ArmedInStage, ShutdownTypeOK, NoCap
<1>5. LeftIsManaged'
  BY DEF LeftIsManaged, ShutdownTypeOK, Idle
<1>. QED
  BY <1>1, <1>2, <1>3, <1>4, <1>5 DEF ShutdownParts

(* A client stops an output. *)
LEMMA ClientStopsKeeps ==
    ASSUME ShutdownInv, NEW t \in Trackers, ClientStops(t)
    PROVE  ShutdownParts'
<1>. USE Constants DEF ShutdownInv, Inv, TypeOK, ClientStops, Begin, MainAt, clockVars, trackerVars,
      objects, history, mainVars, vars
<1>1. ShutdownTypeOK'
  BY DEF ShutdownTypeOK, Pcs, LeftIsManaged
<1>2. ArmedInStage'
  BY DEF ArmedInStage, InOutputs, ShutdownTypeOK
<1>3. WithinBudgets'
  BY DEF WithinBudgets, InOutputs, ArmedInStage, NoCap, ShutdownTypeOK
<1>4. StepIsFresh'
  BY DEF StepIsFresh, InOutputs, WithinBudgets, ArmedInStage, ShutdownTypeOK, NoCap
<1>5. LeftIsManaged'
  BY DEF LeftIsManaged, ShutdownTypeOK, Idle
<1>. QED
  BY <1>1, <1>2, <1>3, <1>4, <1>5 DEF ShutdownParts

(* The next output is going to be deleted. *)
LEMMA DeleteNextKeeps ==
    ASSUME ShutdownInv, NEW t \in Trackers, DeleteNext(t)
    PROVE  ShutdownParts'
<1>. USE Constants DEF ShutdownInv, Inv, TypeOK, DeleteNext, Kick, Stepped, MainAt, clockVars,
      trackerVars, objects, history, mainVars, vars
<1>1. ShutdownTypeOK'
  BY DEF ShutdownTypeOK, Pcs, LeftIsManaged
<1>2. ArmedInStage'
  BY DEF ArmedInStage, InOutputs, ShutdownTypeOK
<1>3. WithinBudgets'
  BY DEF WithinBudgets, InOutputs, ArmedInStage, NoCap, ShutdownTypeOK
<1>4. StepIsFresh'
  BY DEF StepIsFresh, InOutputs, WithinBudgets, ArmedInStage, ShutdownTypeOK, NoCap
<1>5. LeftIsManaged'
  BY DEF LeftIsManaged, ShutdownTypeOK, Idle
<1>. QED
  BY <1>1, <1>2, <1>3, <1>4, <1>5 DEF ShutdownParts

(* An output that is deleted is asked to stop. *)
LEMMA DeleteStopsKeeps ==
    ASSUME ShutdownInv, DeleteStops
    PROVE  ShutdownParts'
<1>. USE Constants DEF ShutdownInv, Inv, TypeOK, DeleteStops, Begin, MainAt, clockVars, trackerVars,
      objects, history, mainVars, vars
<1>1. ShutdownTypeOK'
  BY DEF ShutdownTypeOK, Pcs, LeftIsManaged
<1>2. ArmedInStage'
  BY DEF ArmedInStage, InOutputs, ShutdownTypeOK
<1>3. WithinBudgets'
  BY DEF WithinBudgets, InOutputs, ArmedInStage, NoCap, ShutdownTypeOK
<1>4. StepIsFresh'
  BY DEF StepIsFresh, InOutputs, WithinBudgets, ArmedInStage, ShutdownTypeOK, NoCap
<1>5. LeftIsManaged'
  BY DEF LeftIsManaged, ShutdownTypeOK, Idle
<1>. QED
  BY <1>1, <1>2, <1>3, <1>4, <1>5 DEF ShutdownParts

(* An output that is deleted was not active. *)
LEMMA DeleteIdleKeeps ==
    ASSUME ShutdownInv, DeleteIdle
    PROVE  ShutdownParts'
<1>. USE Constants DEF ShutdownInv, Inv, TypeOK, DeleteIdle, Running, MainAt, clockVars,
      trackerVars, objects, history, mainVars, vars
<1>1. ShutdownTypeOK'
  BY DEF ShutdownTypeOK, Pcs, LeftIsManaged
<1>2. ArmedInStage'
  BY DEF ArmedInStage, InOutputs, ShutdownTypeOK
<1>3. WithinBudgets'
  BY DEF WithinBudgets, InOutputs, ArmedInStage, NoCap, ShutdownTypeOK
<1>4. StepIsFresh'
  BY DEF StepIsFresh, InOutputs, WithinBudgets, ArmedInStage, ShutdownTypeOK, NoCap
<1>5. LeftIsManaged'
  BY DEF LeftIsManaged, ShutdownTypeOK, Idle
<1>. QED
  BY <1>1, <1>2, <1>3, <1>4, <1>5 DEF ShutdownParts

(* An output has been released. *)
LEMMA ReleaseEndsKeeps ==
    ASSUME ShutdownInv, ReleaseEnds
    PROVE  ShutdownParts'
<1>. USE Constants DEF ShutdownInv, Inv, TypeOK, ReleaseEnds, End, Running, MainAt, vars, clockVars,
      trackerVars, objects, history, mainVars, vars
<1>1. ShutdownTypeOK'
  BY DEF ShutdownTypeOK, Pcs, LeftIsManaged
<1>2. ArmedInStage'
  BY DEF ArmedInStage, InOutputs, ShutdownTypeOK
<1>3. WithinBudgets'
  BY DEF WithinBudgets, InOutputs, ArmedInStage, NoCap, ShutdownTypeOK
<1>4. StepIsFresh'
  BY DEF StepIsFresh, InOutputs, WithinBudgets, ArmedInStage, ShutdownTypeOK, NoCap
<1>5. LeftIsManaged'
  BY DEF LeftIsManaged, ShutdownTypeOK, Idle
<1>. QED
  BY <1>1, <1>2, <1>3, <1>4, <1>5 DEF ShutdownParts

(* The stage of the teardown begins. *)
LEMMA ArmTeardownKeeps ==
    ASSUME ShutdownInv, ArmTeardown
    PROVE  ShutdownParts'
<1>. USE Constants DEF ShutdownInv, Inv, TypeOK, ArmTeardown, Arm, Stepped, MainAt, clockVars,
      trackerVars, objects, history, mainVars, vars
<1>1. ShutdownTypeOK'
  BY DEF ShutdownTypeOK, Pcs, LeftIsManaged
<1>2. ArmedInStage'
  BY DEF ArmedInStage, InOutputs, ShutdownTypeOK
<1>3. WithinBudgets'
  BY DEF WithinBudgets, InOutputs, ArmedInStage, NoCap, ShutdownTypeOK
<1>4. StepIsFresh'
  BY DEF StepIsFresh, InOutputs, WithinBudgets, ArmedInStage, ShutdownTypeOK, NoCap
<1>5. LeftIsManaged'
  BY DEF LeftIsManaged, ShutdownTypeOK, Idle
<1>. QED
  BY <1>1, <1>2, <1>3, <1>4, <1>5 DEF ShutdownParts

(* The process ends. *)
LEMMA ExitKeeps ==
    ASSUME ShutdownInv, Exit
    PROVE  ShutdownParts'
<1>. USE Constants DEF ShutdownInv, Inv, TypeOK, Exit, MainAt, Running, clockVars, trackerVars,
      objects, history, mainVars, vars
<1>1. ShutdownTypeOK'
  BY DEF ShutdownTypeOK, Pcs, LeftIsManaged
<1>2. ArmedInStage'
  BY DEF ArmedInStage, InOutputs, ShutdownTypeOK
<1>3. WithinBudgets'
  BY DEF WithinBudgets, InOutputs, ArmedInStage, NoCap, ShutdownTypeOK
<1>4. StepIsFresh'
  BY DEF StepIsFresh, InOutputs, WithinBudgets, ArmedInStage, ShutdownTypeOK, NoCap
<1>5. LeftIsManaged'
  BY DEF LeftIsManaged, ShutdownTypeOK, Idle
<1>. QED
  BY <1>1, <1>2, <1>3, <1>4, <1>5 DEF ShutdownParts

(* The process goes on after a client's call. *)
LEMMA DisarmAfterClientKeeps ==
    ASSUME ShutdownInv, DisarmAfterClient
    PROVE  ShutdownParts'
<1>. USE Constants DEF ShutdownInv, Inv, TypeOK, DisarmAfterClient, Disarm, MainAt, clockVars,
      trackerVars, objects, history, mainVars, vars
<1>1. ShutdownTypeOK'
  BY DEF ShutdownTypeOK, Pcs, LeftIsManaged
<1>2. ArmedInStage'
  BY DEF ArmedInStage, InOutputs, ShutdownTypeOK
<1>3. WithinBudgets'
  BY DEF WithinBudgets, InOutputs, ArmedInStage, NoCap, ShutdownTypeOK
<1>4. StepIsFresh'
  BY DEF StepIsFresh, InOutputs, WithinBudgets, ArmedInStage, ShutdownTypeOK, NoCap
<1>5. LeftIsManaged'
  BY DEF LeftIsManaged, ShutdownTypeOK, Idle
<1>. QED
  BY <1>1, <1>2, <1>3, <1>4, <1>5 DEF ShutdownParts

(* libobs tells that an output has stopped. *)
LEMMA StopSignalKeeps ==
    ASSUME ShutdownInv, NEW t \in Trackers, StopSignal(t)
    PROVE  ShutdownParts'
<1>. USE Constants DEF ShutdownInv, Inv, TypeOK, StopSignal, End, clockVars, trackerVars, objects,
      history, mainVars, vars
<1>1. ShutdownTypeOK'
  BY DEF ShutdownTypeOK, Pcs, LeftIsManaged
<1>2. ArmedInStage'
  BY DEF ArmedInStage, InOutputs, ShutdownTypeOK
<1>3. WithinBudgets'
  BY DEF WithinBudgets, InOutputs, ArmedInStage, NoCap, ShutdownTypeOK
<1>4. StepIsFresh'
  BY DEF StepIsFresh, InOutputs, WithinBudgets, ArmedInStage, ShutdownTypeOK, NoCap
<1>5. LeftIsManaged'
  BY DEF LeftIsManaged, ShutdownTypeOK, Idle
<1>. QED
  BY <1>1, <1>2, <1>3, <1>4, <1>5 DEF ShutdownParts

(* A thread adds to the count of outputs. *)
LEMMA TrackerAddsKeeps ==
    ASSUME ShutdownInv, NEW th \in Threads, TrackerAdds(th)
    PROVE  ShutdownParts'
<1>. USE Constants DEF ShutdownInv, Inv, TypeOK, TrackerAdds, AddFinalizing, FreshStep, Idle,
      clockVars, trackerVars, objects, history, mainVars, vars
<1>1. ShutdownTypeOK'
  BY DEF ShutdownTypeOK, Pcs, LeftIsManaged
<1>2. ArmedInStage'
  BY DEF ArmedInStage, InOutputs, ShutdownTypeOK
<1>3. WithinBudgets'
  BY DEF WithinBudgets, InOutputs, ArmedInStage, NoCap, ShutdownTypeOK
<1>4. StepIsFresh'
  BY DEF StepIsFresh, InOutputs, WithinBudgets, ArmedInStage, ShutdownTypeOK, NoCap
<1>5. LeftIsManaged'
  BY DEF LeftIsManaged, ShutdownTypeOK, Idle
<1>. QED
  BY <1>1, <1>2, <1>3, <1>4, <1>5 DEF ShutdownParts

(* The watchdog expires. *)
LEMMA WatchdogExpiresKeeps ==
    ASSUME ShutdownInv, WatchdogExpires
    PROVE  ShutdownParts'
<1>. USE Constants DEF ShutdownInv, Inv, TypeOK, WatchdogExpires, Expire, clockVars, trackerVars,
      objects, history, mainVars, vars
<1>1. ShutdownTypeOK'
  BY DEF ShutdownTypeOK, Pcs, LeftIsManaged
<1>2. ArmedInStage'
  BY DEF ArmedInStage, InOutputs, ShutdownTypeOK
<1>3. WithinBudgets'
  BY DEF WithinBudgets, InOutputs, ArmedInStage, NoCap, ShutdownTypeOK
<1>4. StepIsFresh'
  BY DEF StepIsFresh, InOutputs, WithinBudgets, ArmedInStage, ShutdownTypeOK, NoCap
<1>5. LeftIsManaged'
  BY DEF LeftIsManaged, ShutdownTypeOK, Idle
<1>. QED
  BY <1>1, <1>2, <1>3, <1>4, <1>5 DEF ShutdownParts

(* The watchdog ends the process. *)
LEMMA WatchdogTerminatesKeeps ==
    ASSUME ShutdownInv, WatchdogTerminates
    PROVE  ShutdownParts'
<1>. USE Constants DEF ShutdownInv, Inv, TypeOK, WatchdogTerminates, Terminate, clockVars,
      trackerVars, objects, history, mainVars, vars
<1>1. ShutdownTypeOK'
  BY DEF ShutdownTypeOK, Pcs, LeftIsManaged
<1>2. ArmedInStage'
  BY DEF ArmedInStage, InOutputs, ShutdownTypeOK
<1>3. WithinBudgets'
  BY DEF WithinBudgets, InOutputs, ArmedInStage, NoCap, ShutdownTypeOK
<1>4. StepIsFresh'
  BY DEF StepIsFresh, InOutputs, WithinBudgets, ArmedInStage, ShutdownTypeOK, NoCap
<1>5. LeftIsManaged'
  BY DEF LeftIsManaged, ShutdownTypeOK, Idle
<1>. QED
  BY <1>1, <1>2, <1>3, <1>4, <1>5 DEF ShutdownParts

(* A unit of time passes. *)
LEMMA TimePassesKeeps ==
    ASSUME ShutdownInv, TimePasses
    PROVE  ShutdownParts'
<1>. USE Constants DEF ShutdownInv, Inv, TypeOK, TimePasses, Tick, Running, IsExpired, CapReached,
      clockVars, trackerVars, objects, history, mainVars, vars
<1>1. ShutdownTypeOK'
  BY DEF ShutdownTypeOK, Pcs, LeftIsManaged
<1>2. ArmedInStage'
  BY DEF ArmedInStage, InOutputs, ShutdownTypeOK
<1>3. WithinBudgets'
  BY DEF WithinBudgets, InOutputs, ArmedInStage, NoCap, ShutdownTypeOK
<1>4. StepIsFresh'
  BY DEF StepIsFresh, InOutputs, WithinBudgets, ArmedInStage, ShutdownTypeOK, NoCap
<1>5. LeftIsManaged'
  BY DEF LeftIsManaged, ShutdownTypeOK, Idle
<1>. QED
  BY <1>1, <1>2, <1>3, <1>4, <1>5 DEF ShutdownParts

LEMMA ShutdownInvInit ==
    ASSUME ShutdownInit
    PROVE  ShutdownInv
<1>1. Inv
  BY InvInit DEF ShutdownInit
<1>2. ShutdownTypeOK
  <2>1. byClient \in BOOLEAN
    BY Zenon DEF ShutdownInit
  <2>. QED
    BY <2>1 DEF ShutdownInit, Init, ShutdownTypeOK, Pcs
<1>3. ArmedInStage /\ WithinBudgets /\ StepIsFresh /\ LeftIsManaged
  BY DEF ShutdownInit, Init, ArmedInStage, WithinBudgets, StepIsFresh, LeftIsManaged, InOutputs
<1>. QED
  BY <1>1, <1>2, <1>3 DEF ShutdownInv

LEMMA ShutdownInvStep ==
    ASSUME ShutdownInv, [ShutdownNext]_allVars
    PROVE  ShutdownInv'
<1>1. Inv'
  BY WatchdogStep, InvStep DEF ShutdownInv
<1>2. ShutdownParts'
  <2>1. CASE MainStep
    BY <2>1, ArmPrepareKeeps, ClientDestroysKeeps, ArmOutputsKeeps, SetOutputsCapKeeps,
       StopDoneKeeps,
       ClientStopsKeeps, DeleteNextKeeps, DeleteStopsKeeps, DeleteIdleKeeps, ReleaseEndsKeeps,
       ArmTeardownKeeps, ExitKeeps, DisarmAfterClientKeeps DEF MainStep
  <2>2. CASE UNCHANGED allVars
    BY <2>2 DEF ShutdownInv, ShutdownParts, ShutdownTypeOK, ArmedInStage, WithinBudgets,
       StepIsFresh,
                LeftIsManaged, allVars, vars, clockVars, trackerVars, mainVars, objects, history
  <2>. QED
    BY <2>1, <2>2, StopSignalKeeps, TrackerAddsKeeps, WatchdogExpiresKeeps, WatchdogTerminatesKeeps,
       TimePassesKeeps DEF ShutdownNext
<1>. QED
  BY <1>1, <1>2 DEF ShutdownInv, ShutdownParts

LEMMA ShutdownInvariance == ShutdownSpec => []ShutdownInv
  BY ShutdownInvInit, ShutdownInvStep, PTL DEF ShutdownSpec

-----------------------------------------------------------------------------
(* Whatever the shutdown does to the watchdog and to the trackers is what     *)
(* ShutdownWatchdog allows its callers.                                      *)
THEOREM ShutdownUsesWatchdog == ShutdownSpec => Spec
<1>1. ShutdownInit => Init
  BY DEF ShutdownInit
<1>2. ShutdownInv /\ [ShutdownNext]_allVars => [Next]_vars
  BY WatchdogStep DEF ShutdownInv
<1>. QED
  BY <1>1, <1>2, ShutdownInvariance, PTL DEF ShutdownSpec, Spec

(* However long its steps take, whatever number of outputs are finalizing and *)
(* whichever of them never do, a shutdown is over, or the process ended,      *)
(* within the sum of the budgets.                                            *)
THEOREM ShutdownWithinBudgets == ShutdownSpec => []BoundedShutdown
<1>1. ShutdownInv => BoundedShutdown
  BY Constants DEF ShutdownInv, Inv, TypeOK, ShutdownTypeOK, WithinBudgets, Pcs, InOutputs,
     BoundedShutdown, ShuttingDown
<1>. QED
  BY <1>1, ShutdownInvariance, PTL

(* Whichever of DeleteOutput() and OnStopped() ends a tracker, none counts as *)
(* finalizing when the teardown begins.                                      *)
THEOREM TeardownFindsNone == ShutdownSpec => []NoneFinalizingAtTeardown
<1>1. ASSUME ShutdownInv, pc = "teardown", pending["signal"] = Idle
      PROVE  finalizing = 0
  <2>1. Active = {} /\ Adding = {} /\ Removing = {}
    BY <1>1, ShutdownAssumption DEF ShutdownInv, LeftIsManaged, Active, Adding, Removing, Idle
  <2>2. Cardinality({}) = 0
    BY FS_EmptySet
  <2>. QED
    BY <1>1, <2>1, <2>2 DEF ShutdownInv, Inv, TypeOK, CountMatchesTrackers
<1>2. ShutdownInv => NoneFinalizingAtTeardown
  BY <1>1 DEF NoneFinalizingAtTeardown
<1>. QED
  BY <1>2, ShutdownInvariance, PTL

(* The watchdog decides to end the process only in a shutdown, and before the *)
(* cap it ends the outputs' stage only when for a whole step no output was    *)
(* deleted and none counted as finalizing.                                   *)
THEOREM KilledWhenStuck == ShutdownSpec => KilledOnlyWhenStuck
<1>1. ASSUME ShutdownInv, WatchdogExpires
      PROVE  /\ ShuttingDown
             /\ stage = "Outputs" /\ ~CapReached
                  => now - lastStep >= OutputStep /\ now - lastBusy >= OutputStep
  <2>1. armed /\ pc # "exited" /\ runner = "waiting" /\ IsExpired
    BY <1>1 DEF WatchdogExpires, Expire
  <2>2. ShuttingDown
    BY <1>1, <2>1 DEF ShutdownInv, ArmedInStage, ShuttingDown, InOutputs
  <2>3. ASSUME stage = "Outputs", ~CapReached
        PROVE  now - lastStep >= OutputStep /\ now - lastBusy >= OutputStep
    <3>1. pc \in InOutputs
      BY <1>1, <2>1, <2>3 DEF ShutdownInv, ArmedInStage
    <3>2. now >= deadline /\ ~(cap # NoCap /\ finalizing > 0)
      BY <2>1, <2>3 DEF IsExpired
    <3>3. pc # "cap"
      BY <1>1, <2>1, <3>1, <3>2, Constants DEF ShutdownInv, Inv, TypeOK, StepIsFresh, ShutdownTypeOK
    <3>4. finalizing <= 0
      BY <1>1, <3>1, <3>2, <3>3 DEF ShutdownInv, Inv, TypeOK, WithinBudgets
    <3>. QED
      BY <1>1, <2>1, <3>1, <3>2, <3>4, Constants DEF ShutdownInv, Inv, TypeOK, StepIsFresh,
         ShutdownTypeOK
  <2>. QED
    BY <2>2, <2>3
<1>2. ShutdownInv /\ [ShutdownNext]_allVars
        => [WatchdogExpires =>
              /\ ShuttingDown
              /\ stage = "Outputs" /\ ~CapReached
                   => now - lastStep >= OutputStep /\ now - lastBusy >= OutputStep]_allVars
  BY <1>1
<1>. QED
  BY <1>2, ShutdownInvariance, PTL DEF ShutdownSpec, KilledOnlyWhenStuck
=============================================================================
