--------------------------- MODULE PositionPolicy ---------------------------
(***************************************************************************)
(* The deterministic policy (modules/policy/policy.ts, judgment-           *)
(* validation.ts) and the monitor of an open position that calls it        *)
(* (modules/operations/jobs/monitoring.ts): what is done with a judgment,  *)
(* or without one.                                                         *)
(*                                                                         *)
(* Probabilities, confidences and scores are whole numbers of 1/Unit;      *)
(* scores reach from 0 to 3 * Unit.  OutOfDomain stands for everything     *)
(* that is not a number of the domain.  Definitions introduced as "Bug:"   *)
(* are as in JobQueue.                                                     *)
(***************************************************************************)
EXTENDS Integers, FiniteSets, SequencesExt

CONSTANTS
    Unit,               \* how many parts make a probability of 1
    SumTolerance,       \* PROBABILITY_SUM_TOLERANCE
    RoundingTolerance,  \* SCORE_ROUNDING_TOLERANCE
    NoJudgment,         \* null: the judgment failed, or is not an object
    Policy              \* a PolicyConfiguration

OutOfDomain == -1
Directions == {"up", "flat", "down"}
ScoreLevels == 0..3

IsUnit(x) == x \in 0..Unit
IsScore(x) == x \in 0..(3 * Unit)

Entry == Policy.positionEntry
Hold == Policy.positionHold
Sprint == Policy.sprint

\* createPolicyEngine: each threshold in its domain, and no downside score
\* that may enter or be held and must be left as well.
ValidPolicy ==
    /\ \A x \in {Entry.upProbability, Entry.directionConfidence, Entry.scoreConfidence,
                 Hold.directionConfidence, Hold.scoreConfidence, Hold.downExitProbability,
                 Sprint.selectedProbability, Sprint.directionConfidence,
                 Sprint.evidenceConfidence} : IsUnit(x)
    /\ \A x \in {Entry.setupScore, Entry.evidenceScore, Entry.maximumDownsideScore,
                 Hold.maximumDownsideScoreExclusive, Hold.hazardExitScore,
                 Sprint.evidenceScore} : IsScore(x)
    /\ Entry.maximumDownsideScore < Hold.maximumDownsideScoreExclusive
    /\ Hold.maximumDownsideScoreExclusive <= Hold.hazardExitScore

\* POLICY_V1
PolicyV1 ==
    LET Tenths(n) == (n * Unit) \div 10
        Hundredths(n) == (n * Unit) \div 100
    IN  [positionEntry |-> [upProbability |-> Tenths(6), directionConfidence |-> Tenths(5),
                            setupScore |-> 2 * Unit, evidenceScore |-> 2 * Unit,
                            maximumDownsideScore |-> Unit, scoreConfidence |-> Tenths(5)],
         positionHold |-> [directionConfidence |-> Tenths(5),
                           maximumDownsideScoreExclusive |-> 2 * Unit,
                           scoreConfidence |-> Tenths(5), downExitProbability |-> Hundredths(55),
                           hazardExitScore |-> 2 * Unit],
         sprint |-> [selectedProbability |-> Hundredths(55), directionConfidence |-> Tenths(5),
                     evidenceScore |-> 2 * Unit, evidenceConfidence |-> Tenths(5)]]

ASSUME PolicyAssumption ==
    /\ Unit \in Nat \ {0}
    /\ SumTolerance \in Nat /\ RoundingTolerance \in Nat
    /\ ValidPolicy

-----------------------------------------------------------------------------
(* Judgments *)

Distance(x, y) == IF x < y THEN y - x ELSE x - y

ValidDistribution(p, keys) ==
    /\ DOMAIN p = keys
    /\ \A k \in keys : IsUnit(p[k])
    /\ Distance(SumFunction(p), Unit) <= SumTolerance

\* The choice must be among the most probable ones.
ValidDirection(a) ==
    /\ a.choice \in Directions
    /\ IsUnit(a.confidence)
    /\ ValidDistribution(a.probabilities, Directions)
    /\ \A d \in Directions : a.probabilities[d] - a.probabilities[a.choice] <= SumTolerance

\* The score must be the mean of its own distribution.
ValidScore(a) ==
    /\ IsScore(a.score)
    /\ IsUnit(a.confidence)
    /\ ValidDistribution(a.probabilities, ScoreLevels)
    /\ Distance(SumFunction([l \in ScoreLevels |-> l * a.probabilities[l]]), a.score)
         <= RoundingTolerance

IsPolicyJudgmentValid(j) ==
    /\ j # NoJudgment
    /\ ValidDirection(j.direction)
    /\ ValidScore(j.setup_quality)
    /\ ValidScore(j.downside_hazard)
    /\ ValidScore(j.evidence_sufficiency)

-----------------------------------------------------------------------------
(* Entry *)

\* classifyMarketRisk, which throws for an index out of its domain
ClassifyMarketRisk(index) ==
    IF index \notin 0..100 THEN "none"
    ELSE IF index <= 34 THEN "LOW" ELSE IF index <= 64 THEN "MEDIUM" ELSE "HIGH"

JudgedFitToEnter(j) ==
    /\ j.direction.choice = "up"
    /\ j.direction.probabilities["up"] >= Entry.upProbability
    /\ j.direction.confidence >= Entry.directionConfidence
    /\ j.setup_quality.score >= Entry.setupScore
    /\ j.setup_quality.confidence >= Entry.scoreConfidence
    /\ j.evidence_sufficiency.score >= Entry.evidenceScore
    /\ j.evidence_sufficiency.confidence >= Entry.scoreConfidence
    /\ j.downside_hazard.score <= Entry.maximumDownsideScore
    /\ j.downside_hazard.confidence >= Entry.scoreConfidence

\* evaluatePositionEntry: enter only if all fourteen gates pass.
EvaluatePositionEntry(j, quality, risk, sizing) ==
    IF /\ IsPolicyJudgmentValid(j) /\ JudgedFitToEnter(j)
       /\ quality.valid /\ quality.fresh
       /\ risk.band = ClassifyMarketRisk(risk.index) /\ risk.band # "HIGH"
       /\ sizing.valid /\ sizing.shares > 0 /\ sizing.plannedLoss > 0 /\ sizing.notional > 0
    THEN "ENTER" ELSE "WAIT"

-----------------------------------------------------------------------------
(* Hold and exit *)

\* Bug: a judgment that is missing or malformed is no reason to let go.
HoldsWithoutJudgment(j) ==
    \/ ~IsPolicyJudgmentValid(j)
    \/ /\ j.direction.choice \in {"up", "flat"}
       /\ j.direction.confidence >= Hold.directionConfidence
       /\ j.downside_hazard.score < Hold.maximumDownsideScoreExclusive
       /\ j.downside_hazard.confidence >= Hold.scoreConfidence

HoldGatesPass(j) ==
    /\ IsPolicyJudgmentValid(j)
    /\ j.direction.choice \in {"up", "flat"}
    /\ j.direction.confidence >= Hold.directionConfidence
    /\ j.downside_hazard.score < Hold.maximumDownsideScoreExclusive
    /\ j.downside_hazard.confidence >= Hold.scoreConfidence

\* The reasons to exit, the ones that hold first in the order of the code.
\* The judgment comes after the stop, the horizon and the data, so that they
\* are applied even where the judgment failed.
ExitRules(j, quality, p) ==
    <<[reason |-> "stop", applies |-> p.completedSessionLow <= p.stopPrice],
      [reason |-> "horizon", applies |-> p.eligibleSessionsHeld >= p.horizonSessions],
      [reason |-> "data_invalidated",
       applies |-> ~quality.valid \/ ~quality.fresh \/ p.stopPrice <= 0
                     \/ p.completedSessionLow < 0 \/ p.horizonSessions <= 0],
      [reason |-> "judgment_down",
       applies |-> /\ IsPolicyJudgmentValid(j)
                   /\ j.direction.choice = "down"
                   /\ j.direction.probabilities["down"] >= Hold.downExitProbability],
      [reason |-> "downside_hazard",
       applies |-> /\ IsPolicyJudgmentValid(j)
                   /\ j.downside_hazard.score >= Hold.hazardExitScore
                   /\ j.downside_hazard.confidence >= Hold.scoreConfidence]>>

ExitReason(j, quality, p) ==
    LET due == {i \in 1..5 : ExitRules(j, quality, p)[i].applies}
    IN  IF due = {} THEN "none" ELSE ExitRules(j, quality, p)[Min(due)].reason

\* Bug: a provisional hold forgets the failures before it.
EvaluateForgetfully(j, quality, p) ==
    LET why == ExitReason(j, quality, p)
    IN  IF why # "none"
        THEN [action |-> "EXIT", reason |-> why, failures |-> p.consecutiveHoldFailures]
        ELSE [action |-> "HOLD", reason |-> "none",
              failures |-> IF HoldGatesPass(j) THEN 0 ELSE 1]

\* evaluateOpenPosition: the first failed hold is provisional, the second in a
\* row exits.
EvaluateOpenPosition(j, quality, p) ==
    LET why == ExitReason(j, quality, p)
        failures == p.consecutiveHoldFailures + 1
    IN  IF why # "none"
        THEN [action |-> "EXIT", reason |-> why, failures |-> p.consecutiveHoldFailures]
        ELSE IF HoldGatesPass(j)
        THEN [action |-> "HOLD", reason |-> "none", failures |-> 0]
        ELSE IF failures >= 2
        THEN [action |-> "EXIT", reason |-> "two_consecutive_hold_failures",
              failures |-> failures]
        ELSE [action |-> "HOLD", reason |-> "none", failures |-> failures]

\* monitorOpenPosition: a judgment that throws is evaluated as none at all.
MonitorOpenPosition(judged, quality, p) ==
    EvaluateOpenPosition(IF judged.status = "failed" THEN NoJudgment ELSE judged.answers,
                         quality, p)

-----------------------------------------------------------------------------
(* Sprint *)

\* evaluateSprint: the selected direction, or PASS unless all seven gates pass
EvaluateSprint(j, quality) ==
    IF /\ IsPolicyJudgmentValid(j)
       /\ quality.valid /\ quality.fresh
       /\ j.direction.probabilities[j.direction.choice] >= Sprint.selectedProbability
       /\ j.direction.confidence >= Sprint.directionConfidence
       /\ j.evidence_sufficiency.score >= Sprint.evidenceScore
       /\ j.evidence_sufficiency.confidence >= Sprint.evidenceConfidence
    THEN j.direction.choice ELSE "PASS"
=============================================================================
