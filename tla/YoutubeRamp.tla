----------------------------- MODULE YoutubeRamp -----------------------------
(* The YouTube bandwidth test of runRtmpProbe() once its ingest has been     *)
(* confirmed: a baseline of two or three samples, rungs of rising target,    *)
(* and the confirmation of a rung under pressure by a drain, a control at    *)
(* the last accepted target, a retry and a sustained retry.  What the        *)
(* network delivers and drops, how late a sample ends and when the test is   *)
(* interrupted are chosen by the environment.                                *)
EXTENDS ProbePolicy

CONSTANTS Workloads,   \* [shared, perOutput, platformCap]
          ElapsedMs,   \* what connecting and confirming may have taken
          Transports,  \* [drop, congestion]: what a sample may observe
          Shares,      \* measured / expected throughput, in percent
          DelaysMs,    \* how late one segment may end
          SurplusBytes \* what one segment may send beyond its estimate

ASSUME RampAssumption ==
    /\ Workloads \subseteq [shared : BOOLEAN, perOutput : Int, platformCap : Int]
    /\ Transports \subseteq [drop : Nat, congestion : Nat]
    /\ Shares \subseteq Nat

VARIABLES workload, phase,
          index, activeTarget,
          remainingMs, totalProbeBytes, \* youtubeBudget
          samples,                      \* of the baseline
          baseline, lastAccepted,
          rampEvidence, recommendationEvidenceUsable,
          confirmationEpisodes,
          first, lowRecovered,          \* of the episode
          stability, sourceUnderfill,
          result,                       \* [success, safeKbps, errorCode]
          share,                        \* environment: of the estimate that is sent
          disturbed,                    \* environment: a segment was late or sent more,
          lateMs, surplus,              \* how late since the last decision, and that it sent more
          supported, pressed            \* history: see RecommendsWhatHeld

budgetVars  == <<remainingMs, totalProbeBytes, disturbed, lateMs, surplus>>
ladderVars  == <<index, baseline, samples>>
verdictVars == <<lastAccepted, rampEvidence, recommendationEvidenceUsable, sourceUnderfill>>
episodeVars == <<confirmationEpisodes, first, lowRecovered>>
fixed       == <<workload, share>>
history     == <<supported, pressed>>
vars == <<phase, activeTarget, stability, result, budgetVars, ladderVars, verdictVars,
          episodeVars, fixed, history>>

maximumBitrate(w) == youtubeProbeMaximumBitrateKbps(w.shared, w.perOutput)
ceiling(w) == effectiveProbeCeilingKbps(maximumBitrate(w), w.platformCap)
limits == youtubeProbeBudgetLimits(workload.shared, ceiling(workload))
plannedTargets == youtubeProbeTargets(ceiling(workload))
baselineTarget == plannedTargets[1]
plannedTarget == plannedTargets[index]
NoPressure == -1
NoMetrics == [throughput |-> 0, drop |-> 0, high |-> 0, severe |-> 0]

\* kYoutubeProbeInitialBitrateKbps, and 15 s of it while the ingest is confirmed.
Init ==
    /\ workload \in Workloads
    /\ share \in Shares
    /\ phase = "begin"
    /\ index = 1
    /\ activeTarget = min(1000, ceiling(workload))
    /\ \E ms \in ElapsedMs : remainingMs = limits.timeoutMs - ms
    /\ totalProbeBytes = estimatedYoutubeSampleBytes(1000, 15000)
    /\ samples = <<>>
    /\ baseline = [decision |-> "NeedsThird", reference |-> NoMetrics]
    /\ lastAccepted = [target |-> 0, metrics |-> NoMetrics]
    /\ rampEvidence = NoEvidence
    /\ recommendationEvidenceUsable = FALSE
    /\ confirmationEpisodes = 0
    /\ first = 0
    /\ lowRecovered = FALSE
    /\ stability = "stable"
    /\ sourceUnderfill = FALSE
    /\ result = [success |-> FALSE, safeKbps |-> 0, errorCode |-> "none"]
    /\ disturbed = FALSE
    /\ lateMs = 0
    /\ surplus = FALSE
    /\ supported = 0
    /\ pressed = NoPressure

fits(cost) == youtubeBudgetFits(limits, remainingMs, totalProbeBytes, cost)

fail(errorCode) ==
    /\ phase' = "done"
    /\ result' = [result EXCEPT !.errorCode = errorCode]

\* Ends the ladder; Summary draws the result.
finish(errorCode) ==
    /\ phase' = "summary"
    /\ result' = [result EXCEPT !.errorCode = errorCode]

goto(to) == phase' = to /\ UNCHANGED result

-----------------------------------------------------------------------------
(* Time and bytes.                                                           *)

\* A segment of ms at a target.  Bound: one segment of a test ends late or
\* sends more than estimated.
spend(target, ms) ==
    \E delay \in DelaysMs \cup {0}, over \in {0, SurplusBytes} :
        /\ delay + over > 0 => ~disturbed
        /\ disturbed' = (disturbed \/ delay + over > 0)
        /\ lateMs' = lateMs + delay
        /\ surplus' = (surplus \/ over > 0)
        /\ remainingMs' = remainingMs - ms - delay
        /\ totalProbeBytes' =
             totalProbeBytes + (estimatedYoutubeSampleBytes(target, ms) \div 100) * share + over

settleMs(target) == IF target # activeTarget THEN kYoutubeProbeSettleMs ELSE 0

sampleStarts(target, ms) ==
    /\ totalProbeBytes < limits.maximumBytes
    /\ remainingMs >= settleMs(target) + ms

Observations(target) ==
    LET expected == target + kYoutubeProbeAudioBitrateKbps
    IN  {[measured |-> (expected * r) \div 100,
          metrics |-> [throughput |-> r * 100, drop |-> t.drop,
                       high |-> t.congestion, severe |-> t.congestion]]
           : t \in Transports, r \in {r \in Shares : r <= share}}

\* runYoutubeProbeSample() returns TRUE with one of the Observations.
measures(target, ms) ==
    /\ sampleStarts(target, ms)
    /\ spend(target, settleMs(target) + ms)
    /\ totalProbeBytes' <= limits.maximumBytes
    /\ activeTarget' = target

\* runYoutubeProbeSample() returns FALSE and so does the test: cancelled, disconnected,
\* without data, or out of time or bytes.
sampleFails(target, ms) ==
    /\ \/ fail("interrupted") /\ UNCHANGED budgetVars
       \/ ~sampleStarts(target, ms) /\ fail("budget_exhausted") /\ UNCHANGED budgetVars
       \/ /\ sampleStarts(target, ms)
          /\ spend(target, settleMs(target) + ms)
          /\ totalProbeBytes' > limits.maximumBytes
          /\ fail("budget_exhausted")
    /\ activeTarget' = target
    /\ UNCHANGED <<ladderVars, verdictVars, episodeVars, stability, history>>

Loads(s) == classifyYoutubeProbeLoad(s.metrics, baseline)
Pressed(s) == Loads(s) = "TransportPressure"

\* History: the most any sample has carried.
observed(target, s) ==
    supported' = max(supported, IF youtubeThroughputAtTarget(s.metrics) THEN target
                                ELSE min(s.measured, target))

-----------------------------------------------------------------------------
(* The baseline.                                                             *)

Begin ==
    /\ phase = "begin"
    /\ IF fits(addSample(addSample(NoCost, activeTarget, baselineTarget), baselineTarget, baselineTarget))
       THEN goto("baseline")
       ELSE finish("baseline_budget_exhausted")
    /\ UNCHANGED <<activeTarget, stability, budgetVars, ladderVars, verdictVars, episodeVars, history>>

\* A baseline decision b, from two samples or from three.
settleBaseline(b) ==
    LET load == classifyYoutubeProbeLoad(b.reference, b)
        basis == IF Len(samples) = 2 THEN min(samples[1].measured, samples[2].measured)
                 ELSE medianOfThree(samples[1].measured, samples[2].measured, samples[3].measured)
    IN  IF b.decision = "Unstable"
        THEN /\ finish("unstable_connection")
             /\ stability' = "unstable"
             /\ UNCHANGED <<baseline, verdictVars>>
        ELSE /\ baseline' = b
             /\ stability' = IF b.decision = "Impaired" THEN "degraded"
                             ELSE IF Len(samples) = 3 THEN "variable" ELSE stability
             /\ sourceUnderfill' = (load = "SourceUnderfill")
             /\ rampEvidence' = IF load = "SourceUnderfill"
                                THEN observeTransportCleanLowerBound(rampEvidence, basis, baselineTarget)
                                ELSE observeAcceptedTarget(baselineTarget)
             /\ lastAccepted' = [target |-> baselineTarget, metrics |-> b.reference]
             /\ recommendationEvidenceUsable' = (baselineTarget >= ceiling(workload))
             /\ IF baselineTarget >= ceiling(workload) THEN finish("none") ELSE goto("step")

measureBaseline ==
    /\ phase = "baseline"
    /\ \/ /\ measures(baselineTarget, kYoutubeProbeSampleMs)
          /\ \E s \in Observations(baselineTarget) :
                samples' = Append(samples, s) /\ observed(baselineTarget, s)
          /\ goto(IF samples = <<>> THEN "baseline" ELSE "assess")
          /\ UNCHANGED <<index, baseline, verdictVars, episodeVars, stability, pressed>>
       \/ sampleFails(baselineTarget, kYoutubeProbeSampleMs)

assessBaseline ==
    /\ phase = "assess"
    /\ LET two == assessYoutubeBaseline(samples[1].metrics, samples[2].metrics)
           third == two.decision = "NeedsThird"
       IN  \/ /\ ~third
              /\ settleBaseline(two)
           \/ /\ third /\ Len(samples) = 3
              /\ settleBaseline(resolveYoutubeBaseline([i \in 1..3 |-> samples[i].metrics]))
           \/ /\ third /\ Len(samples) = 2
              /\ IF fits(addSample(NoCost, activeTarget, baselineTarget))
                 THEN goto("baseline") ELSE finish("baseline_confirmation_budget_exhausted")
              /\ UNCHANGED <<baseline, verdictVars, stability>>
    /\ samples' = IF phase' = "baseline" THEN samples ELSE <<>>
    /\ UNCHANGED <<index, activeTarget, budgetVars, episodeVars, history>>

-----------------------------------------------------------------------------
(* A rung.                                                                   *)

nextStep ==
    /\ phase = "step"
    /\ lateMs' = 0
    /\ first' = 0 /\ lowRecovered' = FALSE
    /\ IF index + 1 \in DOMAIN plannedTargets
       THEN LET step == decideYoutubeRampStep(limits, remainingMs, totalProbeBytes, activeTarget,
                            baselineTarget, lastAccepted.target, plannedTargets[index + 1],
                            rampEvidence.validated, confirmationEpisodes)
            IN  /\ index' = IF step = "Measure" THEN index + 1 ELSE index
                /\ IF step = "Measure" THEN goto("high") ELSE finish("none")
                /\ recommendationEvidenceUsable' = (step = "FinishValidated")
       ELSE finish("none") /\ UNCHANGED <<index, recommendationEvidenceUsable>>
    /\ UNCHANGED <<activeTarget, stability, remainingMs, totalProbeBytes, disturbed, surplus, baseline, samples,
                   lastAccepted, rampEvidence, sourceUnderfill, confirmationEpisodes, history>>

\* A rung without pressure, measured or confirmed.  A target clipped below its
\* rung is the ceiling.
accept(s) ==
    /\ sourceUnderfill' = (Loads(s) = "SourceUnderfill")
    /\ rampEvidence' = IF Loads(s) = "SourceUnderfill"
                       THEN observeTransportCleanLowerBound(rampEvidence, s.measured, plannedTarget)
                       ELSE observeAcceptedTarget(plannedTarget)
    /\ lastAccepted' = [target |-> plannedTarget, metrics |-> s.metrics]
    /\ recommendationEvidenceUsable' = (plannedTarget >= ceiling(workload))
    /\ IF plannedTarget >= ceiling(workload) THEN finish("none") ELSE goto("step")

\* A rung that cannot carry its target, of which measured is known.
confirmCapacity(measured) ==
    /\ rampEvidence' = observeConfirmedCapacity(measured, plannedTarget)
    /\ sourceUnderfill' = FALSE
    /\ recommendationEvidenceUsable' = TRUE
    /\ finish("none")
    /\ UNCHANGED lastAccepted

\* The decision the rung's first sample leads to.
confirmLater ==
    /\ confirmationEpisodes' = confirmationEpisodes + 1
    /\ IF confirmationEpisodes' > kYoutubeProbeMaximumConfirmationEpisodes
       THEN finish("unstable_connection") /\ stability' = "unstable"
       ELSE IF youtubeBudgetFits(limits, remainingMs', totalProbeBytes',
                   youtubeConfirmationCost(baselineTarget, lastAccepted.target, plannedTarget))
       THEN goto("drain") /\ UNCHANGED stability
       ELSE finish("none") /\ stability' = IF stability = "stable" THEN "variable" ELSE stability

measureHigh ==
    LET ms == youtubeProbeRampSampleMs(plannedTarget)
    IN  /\ phase = "high"
        /\ \/ /\ measures(plannedTarget, ms)
              /\ \E s \in Observations(plannedTarget) :
                    /\ observed(plannedTarget, s)
                    /\ \/ ~Pressed(s) /\ accept(s) /\ UNCHANGED <<confirmationEpisodes, first, stability, pressed>>
                       \/ /\ Pressed(s) /\ confirmLater
                          /\ first' = s.measured
                          /\ pressed' = min(s.measured, plannedTarget)
                          /\ UNCHANGED verdictVars
              /\ UNCHANGED <<ladderVars, lowRecovered>>
           \/ sampleFails(plannedTarget, ms)

-----------------------------------------------------------------------------
(* The confirmation of a rung under pressure.                                *)

recoveryWaitMs == min(kYoutubeProbeRecoveryMaximumMs, remainingMs)

\* waitForYoutubeRecoveryDrain(): a second without congestion or drops within 10 s.
recoveryDrain ==
    /\ phase = "drain"
    /\ activeTarget' = baselineTarget
    /\ \/ fail("interrupted") /\ UNCHANGED <<budgetVars, stability>>
       \/ remainingMs < 1000 /\ fail("recovery_deadline_exhausted") /\ UNCHANGED <<budgetVars, stability>>
       \/ /\ remainingMs >= 1000
          /\ \E ms \in {1000, recoveryWaitMs} :
                /\ spend(baselineTarget, ms)
                /\ \/ totalProbeBytes' > limits.maximumBytes /\ fail("budget_exhausted") /\ UNCHANGED stability
                   \/ totalProbeBytes' <= limits.maximumBytes /\ goto("low") /\ UNCHANGED stability
                   \/ /\ totalProbeBytes' <= limits.maximumBytes
                      /\ ms = recoveryWaitMs
                      /\ finish("recovery_timeout")
                      /\ stability' = "unstable"
    /\ UNCHANGED <<ladderVars, verdictVars, episodeVars, history>>

measureLow ==
    LET target == lastAccepted.target
    IN  /\ phase = "low"
        /\ \/ /\ measures(target, kYoutubeProbeSampleMs)
              /\ \E s \in Observations(target) :
                    /\ lowRecovered' = youtubeLowControlRecovered(s.metrics, lastAccepted.metrics, baseline)
                    /\ observed(target, s)
              /\ goto("retry")
              /\ UNCHANGED <<ladderVars, verdictVars, confirmationEpisodes, first, stability, pressed>>
           \/ sampleFails(target, kYoutubeProbeSampleMs)

\* What the control and the retry of the rung decide.
confirm(s) ==
    LET decision == decideYoutubeConfirmation(lowRecovered, ~Pressed(s))
    IN  \/ /\ decision = "CapacityKnee"
           /\ confirmCapacity(youtubeConfirmedPressureCapacityKbps(first, s.measured, plannedTarget))
           /\ UNCHANGED stability
        \/ /\ decision = "TransientRecovered"
           /\ goto("sustain")
           /\ stability' = IF stability = "stable" THEN "variable" ELSE stability
           /\ UNCHANGED verdictVars
        \/ /\ decision \in {"Inconsistent", "PathUnstable"}
           /\ finish("unstable_connection")
           /\ stability' = "unstable"
           /\ UNCHANGED verdictVars

retryHigh ==
    /\ phase = "retry"
    /\ \/ /\ measures(plannedTarget, kYoutubeProbeSampleMs)
          /\ \E s \in Observations(plannedTarget) :
                /\ confirm(s)
                /\ observed(plannedTarget, s)
                /\ pressed' = IF Pressed(s) THEN min(pressed, s.measured) ELSE pressed
          /\ UNCHANGED <<ladderVars, episodeVars>>
       \/ sampleFails(plannedTarget, kYoutubeProbeSampleMs)

\* A clean retry may have been carried by a burst: the rung counts once a longer
\* sample has been clean too.
sustainHigh ==
    /\ phase = "sustain"
    /\ \/ /\ measures(plannedTarget, kYoutubeProbeSustainedSampleMs)
          /\ \E s \in Observations(plannedTarget) :
                /\ \/ Pressed(s) /\ confirmCapacity(s.measured)
                   \/ ~Pressed(s) /\ accept(s)
                /\ observed(plannedTarget, s)
                /\ pressed' = IF Pressed(s) THEN min(s.measured, plannedTarget) ELSE NoPressure
          /\ UNCHANGED <<ladderVars, episodeVars, stability>>
       \/ sampleFails(plannedTarget, kYoutubeProbeSustainedSampleMs)

Summary ==
    LET usable == /\ stability # "unstable"
                  /\ rampEvidence.passedStep /\ recommendationEvidenceUsable
        safe   == effectiveProbeCeilingKbps(rampEvidence.validated, workload.platformCap)
        noStep == IF stability # "unstable" /\ rampEvidence.passedStep
                  THEN "inconclusive" ELSE "no_passing_step"
    IN  /\ phase = "summary"
        /\ phase' = "done"
        /\ stability' = IF sourceUnderfill /\ stability = "stable" THEN "source_underfill" ELSE stability
        /\ result' = IF usable
                     THEN [result EXCEPT !.success = (safe > 0), !.safeKbps = safe]
                     ELSE [result EXCEPT !.errorCode = IF @ = "none" THEN noStep ELSE @]
        /\ UNCHANGED <<activeTarget, budgetVars, ladderVars, verdictVars, episodeVars, history>>

Next ==
    /\ \/ Begin \/ measureBaseline \/ assessBaseline
       \/ nextStep \/ measureHigh
       \/ recoveryDrain \/ measureLow \/ retryHigh \/ sustainHigh
       \/ Summary
    /\ UNCHANGED fixed

Spec == Init /\ [][Next]_vars

-----------------------------------------------------------------------------
(* A target is recommended only if a sample carried it, and never above what *)
(* a rung delivered while it was under pressure, unless a sustained sample   *)
(* of that rung was clean: "Never turn an unconfirmed failure at the higher  *)
(* target into success" (auto-optimizer-probe-policy.hpp, before             *)
(* decideYoutubeRampStep).  pressed is what an unresolved rung delivered.    *)
RecommendsWhatHeld ==
    result.success =>
        /\ result.safeKbps \in 1..supported
        /\ pressed # NoPressure => result.safeKbps <= pressed

(* With a reserve, a rung is measured only while its failure can still be    *)
(* confirmed and sustained: as long as segments send no more than estimated  *)
(* and end at most one slack late since the step was decided, a test that    *)
(* has validated a target never ends for want of time, bytes or episodes.    *)
ReserveSuffices ==
    phase = "done" /\ limits.reserveConfirmation /\ rampEvidence.validated > 0
        /\ lateMs <= SlackMs /\ ~surplus
    => result.success \/ result.errorCode \in {"unstable_connection", "recovery_timeout", "interrupted"}
=============================================================================
