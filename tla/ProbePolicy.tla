----------------------------- MODULE ProbePolicy -----------------------------
(* The decisions of auto-optimizer-probe-policy.hpp that a YouTube bandwidth *)
(* test is made of: its ladder of targets, its budget of time and bytes, and *)
(* what one, two or three samples say of the path.  Ratios are basis points. *)
EXTENDS Integers, Sequences, FiniteSets

kYoutubeProbeAudioBitrateKbps == 128
kYoutubeProbeSampleMs == 5000
kYoutubeProbeSettleMs == 500
kYoutubeProbeSustainedSampleMs == 10000
kYoutubeProbeRecoveryMaximumMs == 10000
kYoutubeProbeMaximumConfirmationEpisodes == 2
SlackMs == 250

min(a, b) == IF a <= b THEN a ELSE b
max(a, b) == IF a >= b THEN a ELSE b

-----------------------------------------------------------------------------
(* The ladder.                                                               *)

youtubeProbeMaximumBitrateKbps(sharedUpload, perOutputMaximumKbps) ==
    IF sharedUpload THEN max(10000, 2 * min(max(perOutputMaximumKbps, 1), 8000)) ELSE 10000

effectiveProbeCeilingKbps(maximumKbps, platformMaximumKbps) ==
    IF platformMaximumKbps > 0 THEN min(maximumKbps, platformMaximumKbps) ELSE maximumKbps

Rungs == <<1000, 2000, 4000, 6000, 8000, 10000, 12000, 16000>>

\* The rungs up to the first that the ceiling clips.
youtubeProbeTargets(ceiling) ==
    [i \in {i \in 1..8 : i = 1 \/ Rungs[i - 1] < ceiling} |-> min(Rungs[i], ceiling)]

youtubeProbeRampSampleMs(target) == IF target > 10000 THEN 10000 ELSE 5000

-----------------------------------------------------------------------------
(* The budget.                                                               *)

youtubeProbeBudgetLimits(sharedUpload, ceiling) ==
    IF sharedUpload /\ ceiling > 12000
    THEN [maximumBytes |-> 128 * 1024 * 1024, timeoutMs |-> 150000, reserveConfirmation |-> TRUE]
    ELSE [maximumBytes |-> 64 * 1024 * 1024, timeoutMs |-> 100000, reserveConfirmation |-> FALSE]

\* payload * 115 / 100, in a form that stays below 2^31.
estimatedYoutubeSampleBytes(target, ms) ==
    LET payload == ((target + kYoutubeProbeAudioBitrateKbps) * ms) \div 8
    IN  IF target <= 0 \/ ms <= 0 THEN 0 ELSE payload + (payload * 15) \div 100

NoCost == [durationMs |-> SlackMs, bytes |-> 0, valid |-> TRUE]

addSegment(cost, target, ms) ==
    [durationMs |-> cost.durationMs + ms,
     bytes |-> cost.bytes + estimatedYoutubeSampleBytes(target, ms),
     valid |-> cost.valid /\ target > 0 /\ ms > 0]

addSample(cost, activeTarget, target) ==
    addSegment(cost, target,
        kYoutubeProbeSampleMs + IF target # activeTarget THEN kYoutubeProbeSettleMs ELSE 0)

youtubeConfirmationCost(baseline, lastAccepted, next) ==
    LET drained   == addSegment(NoCost, baseline, kYoutubeProbeRecoveryMaximumMs)
        sustained == addSegment(drained, next, kYoutubeProbeSustainedSampleMs)
    IN  addSample(addSample(sustained, next, lastAccepted), lastAccepted, next)

youtubeBudgetFits(limits, remainingMs, bytesUsed, cost) ==
    /\ cost.valid
    /\ remainingMs > cost.durationMs
    /\ bytesUsed <= limits.maximumBytes
    /\ cost.bytes <= limits.maximumBytes - bytesUsed

rungCost(activeTarget, next) ==
    LET extraMs == youtubeProbeRampSampleMs(next) - kYoutubeProbeSampleMs
    IN  addSample(IF extraMs > 0 THEN addSegment(NoCost, next, extraMs) ELSE NoCost, activeTarget, next)

withConfirmation(cost, confirmation, episodes) ==
    [durationMs |-> cost.durationMs + confirmation.durationMs,
     bytes |-> cost.bytes + confirmation.bytes,
     valid |-> /\ cost.valid /\ confirmation.valid
               /\ episodes < kYoutubeProbeMaximumConfirmationEpisodes]

\* The mistake of a step that is measured although its failure could not be confirmed.
decideWithoutReserve(limits, remainingMs, bytesUsed, active, baseline, lastAccepted, next, validated, episodes) ==
    IF youtubeBudgetFits(limits, remainingMs, bytesUsed, rungCost(active, next)) THEN "Measure"
    ELSE IF limits.reserveConfirmation /\ validated > 0 THEN "FinishValidated"
    ELSE "Inconclusive"

decideYoutubeRampStep(limits, remainingMs, bytesUsed, active, baseline, lastAccepted, next, validated, episodes) ==
    LET rung == rungCost(active, next)
        cost == IF limits.reserveConfirmation
                THEN withConfirmation(rung, youtubeConfirmationCost(baseline, lastAccepted, next), episodes)
                ELSE rung
    IN  IF youtubeBudgetFits(limits, remainingMs, bytesUsed, cost) THEN "Measure"
        ELSE IF limits.reserveConfirmation /\ validated > 0 THEN "FinishValidated"
        ELSE "Inconclusive"

-----------------------------------------------------------------------------
(* Samples: [throughput, drop, high, severe].                                *)

classifyYoutubeProbeTransport(s) ==
    IF s.drop > 500 \/ s.high > 3000 \/ s.severe > 1000 THEN "Hard"
    ELSE IF s.drop <= 200 /\ s.high <= 1000 /\ s.severe <= 200 THEN "Clean"
    ELSE "Marginal"

youtubeThroughputAtTarget(s) == s.throughput >= 9000

Worse(s, t, drop, high, severe) ==
    s.drop > t.drop + drop \/ s.high > t.high + high \/ s.severe > t.severe + severe

youtubeBaselineSamplesSimilar(s, t) == ~Worse(s, t, 100, 1000, 500) /\ ~Worse(t, s, 100, 1000, 500)

medianOfThree(a, b, c) == (a + b + c) - min(a, min(b, c)) - max(a, max(b, c))

conservativeReference(s, t) ==
    [throughput |-> min(s.throughput, t.throughput), drop |-> max(s.drop, t.drop),
     high |-> max(s.high, t.high), severe |-> max(s.severe, t.severe)]

medianReference(s, t, u) ==
    [throughput |-> medianOfThree(s.throughput, t.throughput, u.throughput),
     drop |-> medianOfThree(s.drop, t.drop, u.drop),
     high |-> medianOfThree(s.high, t.high, u.high),
     severe |-> medianOfThree(s.severe, t.severe, u.severe)]

assessYoutubeBaseline(s, t) ==
    LET c == <<classifyYoutubeProbeTransport(s), classifyYoutubeProbeTransport(t)>>
        similar == youtubeBaselineSamplesSimilar(s, t)
    IN  [reference |-> conservativeReference(s, t),
         decision |-> CASE c = <<"Hard", "Hard">> -> "Unstable"
                        [] c = <<"Clean", "Clean">> /\ similar -> "Clean"
                        [] c = <<"Marginal", "Marginal">> /\ similar -> "Impaired"
                        [] OTHER -> "NeedsThird"]

resolveYoutubeBaseline(samples) ==
    LET reference == medianReference(samples[1], samples[2], samples[3])
        hard == {i \in 1..3 : classifyYoutubeProbeTransport(samples[i]) = "Hard"}
        class == classifyYoutubeProbeTransport(reference)
    IN  [reference |-> reference,
         decision |-> IF Cardinality(hard) >= 2 \/ class = "Hard" THEN "Unstable"
                      ELSE IF class = "Clean" THEN "Clean" ELSE "Impaired"]

youtubeTransportAccepted(s, baseline) ==
    \/ classifyYoutubeProbeTransport(s) = "Clean"
    \/ /\ baseline.decision = "Impaired"
       /\ classifyYoutubeProbeTransport(s) # "Hard"
       /\ ~Worse(s, baseline.reference, 100, 1000, 500)

classifyYoutubeProbeLoad(s, baseline) ==
    IF ~youtubeTransportAccepted(s, baseline) THEN "TransportPressure"
    ELSE IF youtubeThroughputAtTarget(s) THEN "Accepted" ELSE "SourceUnderfill"

youtubeLowControlRecovered(control, original, baseline) ==
    youtubeTransportAccepted(control, baseline) /\ ~Worse(control, original, 100, 1000, 500)

decideYoutubeConfirmation(lowRecovered, highAccepted) ==
    CASE lowRecovered /\ highAccepted  -> "TransientRecovered"
      [] lowRecovered /\ ~highAccepted -> "CapacityKnee"
      [] ~lowRecovered /\ highAccepted -> "Inconsistent"
      [] OTHER -> "PathUnstable"

\* The mistake of believing the better of two samples under pressure.
greaterPressureCapacity(first, retry, target) == min(max(first, retry), target)
youtubeConfirmedPressureCapacityKbps(first, retry, target) == min(min(first, retry), target)

-----------------------------------------------------------------------------
(* YoutubeRampEvidence, of which only validatedVideoKbps decides anything.   *)

NoEvidence == [passedStep |-> FALSE, validated |-> 0]

observeAcceptedTarget(target) == [passedStep |-> TRUE, validated |-> target]

observeTransportCleanLowerBound(evidence, measured, target) ==
    [passedStep |-> TRUE, validated |-> max(evidence.validated, min(measured, target))]

observeConfirmedCapacity(measured, target) == [passedStep |-> TRUE, validated |-> min(measured, target)]
=============================================================================
