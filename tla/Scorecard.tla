------------------------------ MODULE Scorecard ------------------------------
(***************************************************************************)
(* The scorecard (modules/scorecard): which forecasts are scored, how, and *)
(* what may be claimed of them.                                            *)
(*                                                                         *)
(* Probabilities are whole numbers of 1/Whole.  A mean is kept as its sum, *)
(* the count beside it; logarithms, rates and labels are left out.         *)
(* Definitions introduced as "Bug:" are as in JobQueue.                    *)
(***************************************************************************)
EXTENDS Integers, FiniteSets, SequencesExt

CONSTANTS
    Whole,                 \* how many parts make a probability of 1
    MinimumForecasts, MinimumDistinctDates, MinimumPerActiveHorizon,
    MinimumBucket          \* minimumCount of a reliability bucket

ASSUME ScorecardAssumption ==
    /\ Whole \in Nat /\ Whole > 0 /\ Whole % 5 = 0
    /\ {MinimumForecasts, MinimumDistinctDates, MinimumPerActiveHorizon, MinimumBucket}
         \subseteq Nat \ {0}

ScoreDirections == <<"up", "flat", "down">>
NoLabel == "none"

-----------------------------------------------------------------------------
(* Metrics *)

\* validateDistribution
IsDistribution(p) ==
    /\ p \in [ToSet(ScoreDirections) -> 0..Whole]
    /\ SumFunction(p) = Whole

Square(x) == x * x
Observed(d, label) == IF d = label THEN Whole ELSE 0

\* multiclassBrier, times 3 * Whole^2
MulticlassBrier(p, label) ==
    LET Add(sum, d) == sum + Square(p[d] - Observed(d, label))
    IN  FoldLeft(Add, 0, ScoreDirections)

\* topDirection: the first of the most probable ones
TopDirection(p) ==
    LET Better(best, d) == IF p[d] > p[best] THEN d ELSE best
    IN  FoldLeft(Better, "up", ScoreDirections)

OneHot(label) == [d \in ToSet(ScoreDirections) |-> Observed(d, label)]

MomentumDistribution(trailing, band) ==
    OneHot(IF trailing > band THEN "up" ELSE IF trailing < -band THEN "down" ELSE "flat")

\* baseBuckets: five ranges, the last one closed, without the empty ones
InRange(k, x) ==
    /\ (k - 1) * Whole <= 5 * x
    /\ 5 * x < k * Whole \/ (k = 5 /\ x = Whole)

RangeOf(scores, k) ==
    [lower |-> k - 1, upper |-> k, observations |-> {s \in scores : InRange(k, s.confidence)}]

AddRange(scores, buckets, k) ==
    IF RangeOf(scores, k).observations = {} THEN buckets
    ELSE Append(buckets, RangeOf(scores, k))

BaseBuckets(scores) ==
    LET Add(buckets, k) == AddRange(scores, buckets, k)
    IN  FoldLeft(Add, <<>>, <<1, 2, 3, 4, 5>>)

\* createReliabilityBuckets: ranges are merged upwards until each has the
\* minimum, and what is left over joins the last one.
Joined(a, b) ==
    [lower |-> a.lower, upper |-> b.upper, observations |-> a.observations \cup b.observations]

Merge(a, b) ==
    LET open == IF a.open = <<>> THEN b ELSE Joined(a.open[1], b)
    IN  IF Cardinality(open.observations) >= MinimumBucket
        THEN [done |-> Append(a.done, open), open |-> <<>>]
        ELSE [a EXCEPT !.open = <<open>>]

Closed(merged) ==
    IF merged.open = <<>> THEN merged.done
    ELSE IF merged.done = <<>>
    THEN <<[lower |-> 0, upper |-> 5, observations |-> merged.open[1].observations]>>
    ELSE Append(Front(merged.done), Joined(Last(merged.done), merged.open[1]))

ReliabilityBuckets(scores) ==
    Closed(FoldLeft(Merge, [done |-> <<>>, open |-> <<>>], BaseBuckets(scores)))

-----------------------------------------------------------------------------
(* Scores *)

\* activeOutcome: the one active version; any other number of them throws.
Ambiguous(r) == Cardinality({o \in r.history : o.active}) # 1

\* Bug: the first version counts, corrected or not.
OriginalOutcome(r) ==
    IF r.history = {} THEN NoLabel ELSE (CHOOSE o \in r.history : ~o.corrects).label

ActiveOutcome(r) ==
    IF r.history = {} THEN NoLabel ELSE (CHOOSE o \in r.history : o.active).label

ScoreForecast(r) ==
    LET label == ActiveOutcome(r)
        top == TopDirection(r.probabilities)
    IN  [forecast |-> r.id, date |-> r.date, outcome |-> label, confidence |-> r.probabilities[top],
         correct |-> top = label,
         brier |-> MulticlassBrier(r.probabilities, label),
         alwaysUpBrier |-> MulticlassBrier(OneHot("up"), label),
         momentumBrier |-> MulticlassBrier(MomentumDistribution(r.trailing, r.band), label)]

\* clusteredDelta: dates count alike, however many forecasts each has.  The
\* sum over the dates, each of them times its own count.
ClusteredDelta(scores, Baseline(_)) ==
    LET dates == {s.date : s \in scores}
        On(d) == {s \in scores : s.date = d}
    IN  [d \in dates |-> [count |-> Cardinality(On(d)),
                          sum |-> MapThenSumSet(LAMBDA s : s.brier - Baseline(s), On(d))]]

\* The records the scorecard is given: one per forecast, with an active outcome
\* if it is resolved.
Complete(records) ==
    /\ IsFiniteSet(records)
    /\ \A r, q \in records : r.id = q.id => r = q
    /\ \A r \in records :
          /\ r.lifecycle \in {"published", "resolved", "void", "failed"}
          /\ IsDistribution(r.probabilities)
          /\ r.lifecycle = "resolved" =>
                r.forecast /\ r.date # {} /\ ~Ambiguous(r) /\ ActiveOutcome(r) # NoLabel

-----------------------------------------------------------------------------
(* Aggregation *)

Prospective(records) == {r \in records : r.cohort = "prospective"}
PublishedRecords(records) == {r \in Prospective(records) : r.lifecycle # "failed"}

Scoreable(records) ==
    {r \in Prospective(records) :
        /\ r.lifecycle = "resolved" /\ r.attestation = "timely"
        /\ r.forecast                       \* it has probabilities
        /\ ActiveOutcome(r) # NoLabel}

Excluded(records) ==
    [externallyUnverified |->
        {r \in Prospective(records) : r.lifecycle = "resolved" /\ r.attestation # "timely"},
     failed |-> {r \in Prospective(records) : r.lifecycle = "failed"},
     fixtureOrRetrospective |-> records \ Prospective(records),
     unresolved |-> {r \in Prospective(records) : r.lifecycle = "published"},
     void |-> {r \in Prospective(records) : r.lifecycle = "void"}]

\* Bug: a horizon is only asked for once it has a score.
ReadyWhereScored(records) ==
    LET scored == Scoreable(records)
        horizons == {r.horizon : r \in scored}
    IN  /\ Cardinality(scored) >= MinimumForecasts
        /\ Cardinality({r.date : r \in scored}) >= MinimumDistinctDates
        /\ horizons # {}
        /\ \A h \in horizons :
              Cardinality({r \in scored : r.horizon = h}) >= MinimumPerActiveHorizon

\* comparisonReady: a horizon that is published has to have its forecasts scored.
ComparisonReady(records) ==
    LET scored == Scoreable(records)
        horizons == {r.horizon : r \in PublishedRecords(records)}
    IN  /\ Cardinality(scored) >= MinimumForecasts
        /\ Cardinality({r.date : r \in scored}) >= MinimumDistinctDates
        /\ horizons # {}
        /\ \A h \in horizons :
              Cardinality({r \in scored : r.horizon = h}) >= MinimumPerActiveHorizon

\* The published forecasts that took a side: coverageRate, as a set
Covered(records) ==
    {r \in PublishedRecords(records) :
        IF r.mode = "position" THEN r.action = "enter" ELSE r.action # "pass"}

MixesVersions(records) ==
    \/ Cardinality({r.model : r \in Scoreable(records)}) > 1
    \/ Cardinality({r.policy : r \in Scoreable(records)}) > 1

\* aggregateScorecard throws if one of those it scores is ambiguous, or has
\* probabilities that are not a distribution, or no date.  A record here always
\* has its trailing return and its band, which are asked for as well.
Throws(records) ==
    \E r \in Prospective(records) :
        /\ r.lifecycle = "resolved" /\ r.attestation = "timely" /\ r.forecast
        /\ \/ Ambiguous(r)
           \/ ~IsDistribution(r.probabilities)
           \/ ActiveOutcome(r) # NoLabel /\ r.date = {}

AggregateScorecard(records) ==
    LET scores == {ScoreForecast(r) : r \in Scoreable(records)}
    IN  [attempts |-> Cardinality(Prospective(records)),
         published |-> Cardinality(PublishedRecords(records)),
         covered |-> Cardinality(Covered(records)),
         scores |-> scores,
         hits |-> Cardinality({s \in scores : s.correct}),
         brier |-> MapThenSumSet(LAMBDA s : s.brier, scores),
         reliability |-> ReliabilityBuckets(scores),
         overAlwaysUp |-> ClusteredDelta(scores, LAMBDA s : s.alwaysUpBrier),
         overMomentum |-> ClusteredDelta(scores, LAMBDA s : s.momentumBrier),
         mixture |-> MixesVersions(records),
         excluded |-> Excluded(records),
         claim |-> ComparisonReady(records)]
=============================================================================
