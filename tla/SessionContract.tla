-------------------------- MODULE SessionContract --------------------------
(* What the auto-optimizer's session API promises its callers, without the   *)
(* threads, locks and outputs behind it: one session at a time, which ends   *)
(* once, with one outcome, and is closed only when it has ended.             *)
CONSTANTS Sessions, NoSession

VARIABLES state,  \* of every session, "none" before it is created
          active  \* the session the server knows, or NoSession

vars == <<state, active>>

Outcomes == {"complete", "cancelled", "failed"}

Init ==
    /\ state = [s \in Sessions |-> "none"]
    /\ active = NoSession

Goto(s, from, to) ==
    /\ state[s] = from
    /\ state' = [state EXCEPT ![s] = to]

Create(s) ==
    /\ active = NoSession
    /\ Goto(s, "none", "created")
    /\ active' = s

\* A session that was never started can only be cancelled, or fail to start.
Run(s) == Goto(s, "created", "running") /\ UNCHANGED active

Drop(s) == Goto(s, "created", "cancelled") /\ UNCHANGED active

Refuse(s) == Goto(s, "created", "failed") /\ UNCHANGED active

End(s, outcome) == Goto(s, "running", outcome) /\ UNCHANGED active

Close(s) == (\E outcome \in Outcomes : Goto(s, outcome, "closed")) /\ UNCHANGED active

Forget(s) ==
    /\ active = s
    /\ state[s] = "closed"
    /\ active' = NoSession
    /\ UNCHANGED state

Next == \E s \in Sessions :
    \/ Create(s) \/ Run(s) \/ Drop(s) \/ Refuse(s) \/ Close(s) \/ Forget(s)
    \/ \E outcome \in Outcomes : End(s, outcome)

Spec == Init /\ [][Next]_vars
=============================================================================
