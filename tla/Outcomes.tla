------------------------------- MODULE Outcomes -------------------------------
(***************************************************************************)
(* What a forecast came to: when its resolution falls due (modules/        *)
(* operations/jobs/scheduler.ts), how it is resolved from what is known    *)
(* then (outcomes.ts) and which direction that is (modules/policy/         *)
(* outcomes.ts).                                                           *)
(*                                                                         *)
(* Sessions are numbers, the calendar a set of them.  A forecast has its   *)
(* mode, horizon, cutoff (a session) and close (the adjusted close there). *)
(***************************************************************************)
EXTENDS Integers, FiniteSets, SequencesExt

Nowhere == [status |-> "error"]

-----------------------------------------------------------------------------
(* Sessions *)

EligibleSessionsAfter(cutoff, calendar) == {s \in calendar : s > cutoff}

\* Bug: the cutoff counts as the first session of the horizon.
NthCountingCutoff(cutoff, n, calendar) ==
    IF n < 1 \/ cutoff \notin calendar THEN {}
    ELSE {s \in {cutoff} \cup EligibleSessionsAfter(cutoff, calendar) :
             Cardinality({t \in calendar : cutoff <= t /\ t <= s}) = n}

\* nthEligibleSession, as a set: empty where it throws, for a cutoff that is no
\* session or a calendar that does not reach the horizon.
NthEligibleSession(cutoff, n, calendar) ==
    IF n < 1 \/ cutoff \notin calendar THEN {}
    ELSE {s \in EligibleSessionsAfter(cutoff, calendar) :
             Cardinality({t \in calendar : cutoff < t /\ t <= s}) = n}

\* Bug: a forecast is due when its target is past.
DueWhenPast(forecasts, latest, calendar) ==
    {f \in forecasts : f.status = "published" /\ latest \in calendar
                       /\ \E s \in NthEligibleSession(f.cutoff, f.horizon, calendar) : s < latest}

\* enqueueDueOutcomeResolutions: which of the forecasts get a resolution job.  They
\* are taken in the order of their ids, and the first that is published and has no
\* target throws, with the jobs of those before it enqueued.
DueForResolution(forecasts, latest, calendar) ==
    LET published == {f \in forecasts : f.status = "published"}
        Target(f) == NthEligibleSession(f.cutoff, f.horizon, calendar)
    IN  {f \in published :
            /\ latest \in calendar
            /\ \E s \in Target(f) : s <= latest
            /\ \A g \in published : g.id < f.id => Target(g) # {}}

-----------------------------------------------------------------------------
(* Directions *)

\* flatBandFor, in thousandths; any other contract throws.
FlatBandFor(mode, horizon) ==
    CASE mode = "position" /\ horizon = 20 -> 20
      [] mode = "sprint" /\ horizon = 1 -> 5
      [] mode = "sprint" /\ horizon = 5 -> 15

Contracted(f) == <<f.mode, f.horizon>> \in {<<"position", 20>>, <<"sprint", 1>>, <<"sprint", 5>>}

\* resolveDirectionOutcome; the band's own ends are flat.
ResolveDirectionOutcome(value, f) ==
    LET change == 1000 * (value - f.close)
        band == FlatBandFor(f.mode, f.horizon) * f.close
    IN  IF change > band THEN "up" ELSE IF change < -band THEN "down" ELSE "flat"

-----------------------------------------------------------------------------
(* Resolution *)

\* resolved
Resolved(f, value, basis) ==
    IF value < 0 \/ ~Contracted(f) THEN Nowhere
    ELSE [status |-> "resolved", label |-> ResolveDirectionOutcome(value, f),
          value |-> value, basis |-> basis]

Pending(why) == [status |-> "pending", reason |-> why]
VoidFor(why) == [status |-> "void", reason |-> why]

\* A halt or delisting counts from after the cutoff up to the target.
Affects(life, f, target) ==
    life.type # "none" /\ f.cutoff < life.effective /\ life.effective <= target

NoValue == -1   \* undefined
NoReason == "none"

OrVoid(why, reason) == IF reason # NoReason THEN VoidFor(reason) ELSE Pending(why)

ResolveLifecycle(f, life, reason) ==
    IF life.type = "delisting" /\ life.official # NoValue
    THEN Resolved(f, life.official, "official_delisting_consideration")
    ELSE IF life.lastValue # NoValue
    THEN Resolved(f, life.lastValue, "last_defensible_value")
    ELSE OrVoid("LIFECYCLE_VALUE_PENDING", reason)

\* resolveForecastAtHorizon; closes are those of the bars of the target session.
ResolveForecastAtHorizon(f, calendar, asOf, closes, life, reason) ==
    LET target == NthEligibleSession(f.cutoff, f.horizon, calendar)
        at == CHOOSE s \in target : TRUE
    IN  IF f.close <= 0 \/ asOf \notin calendar \/ target = {} THEN Nowhere
        ELSE IF asOf < at THEN Pending("HORIZON_NOT_REACHED")
        ELSE IF Cardinality(closes) > 1 THEN Nowhere
        ELSE IF closes # {} THEN Resolved(f, CHOOSE v \in closes : TRUE, "exact_horizon_close")
        ELSE IF Affects(life, f, at) THEN ResolveLifecycle(f, life, reason)
        ELSE OrVoid("PROVIDER_BAR_DELAYED", reason)
=============================================================================
