-------------------------- MODULE ShutdownWatchdog --------------------------
(* osn::ShutdownWatchdog and osn::FinalizeTracker of                         *)
(* obs-studio-server/source/shutdown-watchdog.hpp/.cpp: the process-wide     *)
(* watchdog that terminates the server when a stage of its shutdown outlives *)
(* its budget.  Each method of the watchdog runs under m_mtx and is one      *)
(* action; Begin() and End() of a tracker are two steps each, because the    *)
(* exchange on m_active and the call of AddFinalizing() are not atomic       *)
(* together and libobs' signal thread races the thread that deletes the      *)
(* output.  Time is counted in whole units; Tick is the steady clock.        *)
EXTENDS Integers, FiniteSets

CONSTANTS Trackers,     \* the FinalizeTrackers, one per osn::Output
          Threads,      \* threads that call Begin() and End()
          Stages,       \* names passed to Arm()
          Budgets,      \* budgets passed to Arm() and Kick()
          Caps,         \* caps passed to SetCap()
          MaxNow        \* bound: the clock stops here

ASSUME WatchdogAssumption ==
    /\ IsFiniteSet(Trackers)
    /\ IsFiniteSet(Threads)
    /\ Budgets \subseteq Nat \ {0}
    /\ Caps \subseteq Nat \ {0}
    /\ MaxNow \in Nat

NoCap   == [at |-> -1, limit |-> 0]
NoStage == "none"
Idle    == 0        \* pending[th]: thread th is in no AddFinalizing() call

VARIABLES now, armed, stage, budget, deadline, cap, finalizing,
          active,   \* m_active of each tracker
          pending,  \* the delta each thread has exchanged but not yet added
          runner    \* where Run() stands

clockVars   == <<armed, stage, budget, deadline, cap>>
trackerVars == <<finalizing, active, pending>>
vars == <<now, clockVars, trackerVars, runner>>

Init ==
    /\ now = 0
    /\ armed = FALSE
    /\ stage = NoStage
    /\ budget = 0
    /\ deadline = 0
    /\ cap = NoCap
    /\ finalizing = 0
    /\ active = [t \in Trackers |-> FALSE]
    /\ pending = [th \in Threads |-> Idle]
    /\ runner = "none"

Running == runner # "terminated"

-----------------------------------------------------------------------------
(* The calls of the thread that shuts the process down. *)

Arm(s, b) ==
    /\ Running
    /\ armed' = TRUE
    /\ stage' = s
    /\ budget' = b
    /\ deadline' = now + b
    /\ cap' = NoCap
    /\ runner' = IF runner = "none" THEN "waiting" ELSE runner
    /\ UNCHANGED <<now, trackerVars>>

Kick(b) ==
    /\ Running
    /\ budget'   = IF armed THEN b ELSE budget
    /\ deadline' = IF armed THEN now + b ELSE deadline
    /\ UNCHANGED <<now, armed, stage, cap, trackerVars, runner>>

SetCap(c) ==
    /\ Running
    /\ cap' = [at |-> now + c, limit |-> c]
    /\ UNCHANGED <<now, armed, stage, budget, deadline, trackerVars, runner>>

Disarm ==
    /\ Running
    /\ armed' = FALSE
    /\ UNCHANGED <<now, stage, budget, deadline, cap, trackerVars, runner>>

-----------------------------------------------------------------------------
(* FinalizeTracker: exchange m_active, then AddFinalizing() if it changed. *)

Begin(th, t) ==
    /\ Running
    /\ pending[th] = Idle
    /\ ~active[t]
    /\ active' = [active EXCEPT ![t] = TRUE]
    /\ pending' = [pending EXCEPT ![th] = 1]
    /\ UNCHANGED <<now, clockVars, finalizing, runner>>

\* Begin() on a tracker that has begun and End() on one that has not change nothing.
\* Mutant: End() without the test of what m_active was.
EndUnchecked(th, t) ==
    /\ Running
    /\ pending[th] = Idle
    /\ active' = [active EXCEPT ![t] = FALSE]
    /\ pending' = [pending EXCEPT ![th] = -1]
    /\ UNCHANGED <<now, clockVars, finalizing, runner>>

End(th, t) ==
    /\ Running
    /\ pending[th] = Idle
    /\ active[t]
    /\ active' = [active EXCEPT ![t] = FALSE]
    /\ pending' = [pending EXCEPT ![th] = -1]
    /\ UNCHANGED <<now, clockVars, finalizing, runner>>

\* Each output gets a fresh step once it finishes finalizing.
\* Mutant: the deadline stays where it was.
NoFreshStep(delta) == FALSE

FreshStep(delta) == finalizing + delta = 0 /\ delta < 0 /\ armed /\ cap # NoCap

AddFinalizing(th) ==
    /\ Running
    /\ pending[th] # Idle
    /\ finalizing' = finalizing + pending[th]
    /\ deadline' = IF FreshStep(pending[th]) THEN now + budget ELSE deadline
    /\ pending' = [pending EXCEPT ![th] = Idle]
    /\ UNCHANGED <<now, armed, stage, budget, cap, active, runner>>

-----------------------------------------------------------------------------
(* Run(): poll under the lock, call m_onExpired without it; its   *)
(* arguments only word the log line. *)

\* Mutant: the cap is ignored while outputs are finalizing.
NeverCapped == FALSE

CapReached == cap # NoCap /\ now >= cap.at

IsExpired ==
    \/ CapReached
    \/ now >= deadline /\ ~(cap # NoCap /\ finalizing > 0)

Expire ==
    /\ runner = "waiting"
    /\ armed
    /\ IsExpired
    /\ armed' = FALSE
    /\ runner' = "expiring"
    /\ UNCHANGED <<now, stage, budget, deadline, cap, trackerVars>>

\* TerminateSelf(): the log line may take up to a second, then the process ends.
Terminate ==
    /\ runner = "expiring"
    /\ runner' = "terminated"
    /\ UNCHANGED <<now, clockVars, trackerVars>>

Tick ==
    /\ Running
    /\ now < MaxNow
    /\ now' = now + 1
    /\ UNCHANGED <<clockVars, trackerVars, runner>>

-----------------------------------------------------------------------------
CallerNext ==
    \/ \E s \in Stages, b \in Budgets : Arm(s, b)
    \/ \E b \in Budgets : Kick(b)
    \/ \E c \in Caps : SetCap(c)
    \/ Disarm

TrackerNext ==
    \E th \in Threads :
        \/ \E t \in Trackers : Begin(th, t) \/ End(th, t)
        \/ AddFinalizing(th)

Next == CallerNext \/ TrackerNext \/ Expire \/ Terminate \/ Tick

Spec == Init /\ [][Next]_vars

-----------------------------------------------------------------------------
TypeOK ==
    /\ now \in 0..MaxNow
    /\ armed \in BOOLEAN
    /\ stage \in Stages \cup {NoStage}
    /\ budget \in Nat
    /\ deadline \in Nat
    /\ cap \in [at : Int, limit : Nat]
    /\ finalizing \in Int
    /\ active \in [Trackers -> BOOLEAN]
    /\ pending \in [Threads -> {-1, 0, 1}]
    /\ runner \in {"none", "waiting", "expiring", "terminated"}

Active  == {t \in Trackers : active[t]}
Adding  == {th \in Threads : pending[th] = 1}
Removing == {th \in Threads : pending[th] = -1}

(* m_finalizing plus the AddFinalizing() calls still to be made is the       *)
(* number of trackers between Begin() and End(), whatever threads race on a  *)
(* tracker: a count that drifts up would let a hung shutdown run to the cap, *)
(* one that drifts down would kill an output that is still writing its file. *)
CountMatchesTrackers ==
    finalizing + Cardinality(Adding) - Cardinality(Removing) = Cardinality(Active)

=============================================================================
