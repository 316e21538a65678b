----------------------------- MODULE ForecastLife -----------------------------
(***************************************************************************)
(* A forecast from its publication to its score: the ledger (MemoryLedger) *)
(* holds it, resolvers work out what it came to from what the market shows *)
(* them (Outcomes) and record it, and the scorecard counts it (Scorecard). *)
(*                                                                         *)
(* A resolver reads and computes, and records later; in between bars are   *)
(* revised, others record, and it may die.  The ids it records under are   *)
(* made of the forecast and the number of outcomes it has, so that to do   *)
(* it again is to retry.  It works on behalf of the one job the scheduler  *)
(* enqueues for a forecast and its target, under a lease: when that runs   *)
(* out another may take the job while it goes on, and after MaxTries tries *)
(* the job is a dead letter.                                               *)
(*                                                                         *)
(* A behaviour in which the callers' repertoire is Publications goes on to *)
(* live through the sessions once its forecasts are published; in any      *)
(* other the callers send what they may to the ledger, and nothing else    *)
(* happens.                                                                *)
(***************************************************************************)
EXTENDS MemoryLedger, Outcomes, Scorecard

CONSTANTS
    Publications,  \* the requests that publish each of ForecastIds
    Calendar,      \* sessions of the exchange
    Watched,       \* bound: the sessions after which anything happens
    Values,        \* by forecast: adjusted closes a bar may show
    Lifecycles,    \* by forecast: halts and delistings there may be
    Others,        \* score records that do not come from this ledger
    Timely,        \* forecasts attested in time
    Resolvers,
    MaxTries,      \* maxAttempts of the jobs
    Troubled,      \* bound: the forecasts whose mishaps are counted
    MaxMishaps     \* bound: revisions, halts, delistings and bars given up

ASSUME LifeAssumption == ForecastIds \subseteq Nat
ASSUME PublicationsAssumption ==
    \A r \in Publications : r.op \in {"snapshot", "judgment", "decision", "publish"}
ASSUME EvidenceAssumption ==
    \A r \in Publications : r.op = "judgment" => IsDistribution(r.probabilities)
ASSUME OthersAssumption == Complete(Others) /\ \A r \in Others : r.id \notin ForecastIds
ASSUME CalendarAssumption ==
    /\ Calendar \subseteq Nat /\ Calendar # {} /\ IsFiniteSet(Calendar)
    /\ Watched \subseteq Calendar

ASSUME TriesAssumption == MaxTries \in Nat \ {0}

VARIABLES
    session,     \* the latest completed session
    closes,      \* by forecast: the close of its target's bar, as a set
    life,        \* by forecast: its halt or delisting
    reason,      \* by forecast: why its outcome was given up, if it was
    resolver,    \* what each resolver is about to record, as a sequence
    enqueued,    \* the forecasts that have had a job
    tries,       \* by forecast: how often its job was claimed
    fruitless,   \* history: how many of these ended with nothing recorded yet
    seen,        \* history: by forecast, the values ever published for it
    mishaps      \* revisions, halts, delistings and bars given up so far

marketVars == <<session, closes, life, reason, seen, mishaps>>
jobVars == <<enqueued, tries, fruitless>>
vars == <<ledgerVars, marketVars, resolver, jobVars>>

NoLife == [type |-> "none", effective |-> 0, official |-> NoValue, lastValue |-> NoValue]

Init ==
    /\ LedgerInit
    /\ session = Min(Calendar)
    /\ closes = [f \in ForecastIds |-> {}]
    /\ life = [f \in ForecastIds |-> NoLife]
    /\ reason = [f \in ForecastIds |-> NoReason]
    /\ resolver = [w \in Resolvers |-> <<>>]
    /\ enqueued = {}
    /\ tries = [f \in ForecastIds |-> 0]
    /\ fruitless = [f \in ForecastIds |-> 0]
    /\ seen = [f \in ForecastIds |-> {}]
    /\ mishaps = 0

Alive == repertoire = Publications /\ Len(forecasts) = Cardinality(ForecastIds)

\* What resolveForecastAtHorizon is told of a forecast
Terms(f) ==
    LET row == Head(Named(forecasts, f))
    IN  [cutoff |-> row.session, horizon |-> row.horizon, mode |-> row.mode,
         close |-> Head(Named(snapshots, row.snapshot)).close]

Target(f) == NthEligibleSession(Terms(f).cutoff, Terms(f).horizon, Calendar)
HasClosed(f) == \E s \in Target(f) : s <= session

-----------------------------------------------------------------------------
(* The market and its provider *)

SessionCloses ==
    /\ Alive
    /\ \E s \in Watched : s > session /\ session' = s
    /\ UNCHANGED <<ledgerVars, closes, life, reason, resolver, seen, mishaps, jobVars>>

\* A bar completes, or is revised.
BarArrives(f, v) ==
    /\ Alive /\ HasClosed(f) /\ closes[f] # {v}
    /\ closes[f] # {} => f \in Troubled /\ mishaps < MaxMishaps
    /\ closes' = [closes EXCEPT ![f] = {v}]
    /\ seen' = [seen EXCEPT ![f] = @ \cup {v}]
    /\ mishaps' = IF closes[f] = {} THEN mishaps ELSE mishaps + 1
    /\ UNCHANGED <<ledgerVars, session, life, reason, resolver, jobVars>>

HaltsOrDelists(f, l) ==
    /\ Alive /\ life[f] = NoLife /\ closes[f] = {} /\ l.effective <= session
    /\ f \in Troubled => mishaps < MaxMishaps
    /\ mishaps' = IF f \in Troubled THEN mishaps + 1 ELSE mishaps
    /\ life' = [life EXCEPT ![f] = l]
    /\ seen' = [seen EXCEPT ![f] = @ \cup ({l.official, l.lastValue} \ {NoValue})]
    /\ UNCHANGED <<ledgerVars, session, closes, reason, resolver, jobVars>>

\* An operator gives the bar up.
GivesUp(f) ==
    /\ Alive /\ HasClosed(f) /\ closes[f] = {} /\ reason[f] = NoReason
    /\ f \in Troubled /\ mishaps < MaxMishaps /\ mishaps' = mishaps + 1
    /\ reason' = [reason EXCEPT ![f] = "IRRECOVERABLE_MISSING_BAR"]
    /\ UNCHANGED <<ledgerVars, session, closes, life, resolver, seen, jobVars>>

-----------------------------------------------------------------------------
(* Resolvers *)

IdFor(f) == 10 * f + Cardinality(OwnRows(outcomes, f)) + 1

EventFor(f, type, cites) ==
    [id |-> IdFor(f), forecast |-> f, type |-> type, cites |-> cites, valid |-> TRUE]

OutcomeFor(f, verdict, corrects) ==
    [id |-> IdFor(f), forecast |-> f, label |-> verdict.label, value |-> verdict.value,
     corrects |-> corrects, valid |-> TRUE]

Verdict(f) == ResolveForecastAtHorizon(Terms(f), Calendar, session, closes[f], life[f], reason[f])

\* A run of the scheduler; a job that is there is left as it is, whatever
\* became of it.
EnqueueDueOutcomeResolutions ==
    /\ Alive
    /\ LET rows == {[id |-> f, status |-> StatusIn(events, f), cutoff |-> Terms(f).cutoff,
                     horizon |-> Terms(f).horizon] : f \in ForecastIds}
       IN  enqueued' = enqueued \cup {r.id : r \in DueForResolution(rows, session, Calendar)}
    /\ enqueued' # enqueued
    /\ UNCHANGED <<ledgerVars, marketVars, resolver, tries, fruitless>>

\* A resolver takes a forecast's job: one that waits, or one of which the lease
\* has run out.  It finds nothing to do for a forecast that has ended.
Claims(w, f) ==
    /\ Alive /\ resolver[w] = <<>>
    /\ f \in enqueued /\ tries[f] < MaxTries /\ StatusIn(events, f) = "published"
    /\ tries' = [tries EXCEPT ![f] = @ + 1]

\* It reads, up to what it will record
Read(w, f) ==
    /\ Claims(w, f)
    /\ LET v == Verdict(f) IN
        /\ v.status \in {"resolved", "void"}
        /\ resolver' = [resolver EXCEPT ![w] =
              <<IF v.status = "void" THEN [op |-> "void", event |-> EventFor(f, "void", None)]
                ELSE [op |-> "resolve", event |-> EventFor(f, "resolved", None),
                      outcome |-> OutcomeFor(f, v, None)]>>]
    /\ UNCHANGED <<ledgerVars, marketVars, enqueued, fruitless>>

\* A pending verdict fails the try: all a handler can do is to return, which
\* would complete the job for good, or to throw.
ReadsInVain(w, f) ==
    /\ Claims(w, f)
    /\ Verdict(f).status \notin {"resolved", "void"}
    /\ fruitless' = [fruitless EXCEPT ![f] = @ + 1]
    /\ UNCHANGED <<ledgerVars, marketVars, resolver, enqueued>>

\* A correction, for a bar that is not the one the active outcome was made of.
ReadAgain(w, f) ==
    LET active == ActiveIn(outcomes, f)
        last == LastOf(events, OwnRows(events, f))[1]
    IN  /\ Alive /\ resolver[w] = <<>>
        /\ active # <<>> /\ closes[f] # {} /\ active[1].value \notin closes[f]
        /\ Verdict(f).status = "resolved"
        /\ resolver' = [resolver EXCEPT ![w] =
              <<[op |-> "correct", event |-> EventFor(f, "correction", last.id),
                 outcome |-> OutcomeFor(f, Verdict(f), active[1].id)]>>]
        /\ UNCHANGED <<ledgerVars, marketVars, jobVars>>

Record(w) ==
    /\ resolver[w] # <<>>
    /\ Call(resolver[w][1])
    /\ resolver' = [resolver EXCEPT ![w] = <<>>]
    /\ UNCHANGED <<marketVars, jobVars>>

Dies(w) ==
    /\ resolver[w] # <<>>
    /\ resolver' = [resolver EXCEPT ![w] = <<>>]
    /\ LET r == resolver[w][1]
           f == r.event.forecast
       IN  fruitless' = IF StatusIn(events, f) # "published" THEN fruitless
                        ELSE [fruitless EXCEPT ![f] = @ + 1]
    /\ UNCHANGED <<ledgerVars, marketVars, enqueued, tries>>

-----------------------------------------------------------------------------
Sent == {a.request : a \in answered}

\* Callers that have published have nothing more to send.  Those that live on
\* have published one forecast after the other; the ledger is the same for any
\* order but for the order of its rows.
Calls ==
    /\ ~Alive
    /\ \E r \in repertoire :
          /\ repertoire = Publications =>
                r \notin Sent /\ \A q \in Publications : q.id < r.id => q \in Sent
          /\ Call(r)
    /\ UNCHANGED <<marketVars, resolver, jobVars>>

Housekeeping ==
    /\ repertoire # Publications
    /\ PurgeExpiredIdentifiers \/ TimePasses
    /\ UNCHANGED <<marketVars, resolver, jobVars>>

Next ==
    \/ Calls
    \/ Housekeeping
    \/ SessionCloses
    \/ \E f \in ForecastIds :
          \/ \E v \in Values[f] : BarArrives(f, v)
          \/ \E l \in Lifecycles[f] : HaltsOrDelists(f, l)
          \/ GivesUp(f)
          \/ \E w \in Resolvers : Read(w, f) \/ ReadsInVain(w, f) \/ ReadAgain(w, f)
    \/ EnqueueDueOutcomeResolutions
    \/ \E w \in Resolvers : Record(w) \/ Dies(w)

Spec == Init /\ [][Next]_vars

\* The scheduler runs again and again, a job that can be claimed is claimed in
\* the end, and a resolver that has read records or dies.  Nothing is asked of
\* the market.
FairSpec ==
    /\ Spec
    /\ WF_vars(EnqueueDueOutcomeResolutions)
    /\ \A f \in ForecastIds : SF_vars(\E w \in Resolvers : Read(w, f) \/ ReadsInVain(w, f))
    /\ \A w \in Resolvers : WF_vars(Record(w) \/ Dies(w))

-----------------------------------------------------------------------------
(* The scorecard *)

\* The scorecard's record of a forecast of the ledger
ScoreRecord(f) ==
    LET row == Head(Named(forecasts, f))
        active == ActiveIn(outcomes, f)
    IN  [id |-> f, cohort |-> "prospective", lifecycle |-> StatusIn(events, f),
         attestation |-> IF f \in Timely THEN "timely" ELSE "late", forecast |-> TRUE,
         history |-> {[id |-> o.id, label |-> o.label, active |-> <<o>> = active,
                       corrects |-> o.corrects # None] :
                         o \in {outcomes[i] : i \in OwnRows(outcomes, f)}},
         date |-> Target(f), horizon |-> row.horizon, mode |-> row.mode,
         action |-> Head(Named(decisions, row.decision)).action,
         model |-> row.version, policy |-> row.policy,
         probabilities |-> Head(Named(judgments, row.judgment)).probabilities,
         trailing |-> 0, band |-> 0]

Records == {ScoreRecord(f) : f \in Ids(forecasts)} \cup Others

-----------------------------------------------------------------------------
(* Properties *)

\* No verdict is recorded before its time or on other evidence: a forecast that
\* has ended was so only when its horizon had passed, a void one only when it
\* had been given up, and a resolved one has the direction of a value that was
\* published for it (outcomes.ts, with a resolver between reading and recording).
EndedOnItsEvidence ==
    \A f \in Ids(forecasts) \cap ForecastIds :
        Alive =>
          /\ StatusIn(events, f) # "published" =>
                Cardinality({s \in Calendar : Terms(f).cutoff < s /\ s <= session}) >= Terms(f).horizon
          /\ StatusIn(events, f) = "void" => reason[f] # NoReason
          /\ \A i \in DOMAIN outcomes : outcomes[i].forecast = f =>
                /\ outcomes[i].value \in seen[f]
                /\ outcomes[i].label = ResolveDirectionOutcome(outcomes[i].value, Terms(f))

\* The scorecard tells what the ledger holds: it throws at none of its records, as
\* long as their probabilities add up to exactly 1, as they do here; each of them
\* is scored or excluded under exactly one heading, scores are those of the active
\* outcome after any correction, and every score is in exactly one bucket, of
\* which the bounds tell the truth and which has the minimum, unless there is but
\* one bucket.
ScorecardIsTheLedgers ==
    Alive =>
      LET card == AggregateScorecard(Records)
          x == card.excluded
          b == card.reliability
      IN  /\ ~Throws(Records)
          /\ Cardinality(card.scores) + Cardinality(x.externallyUnverified) + Cardinality(x.failed)
               + Cardinality(x.fixtureOrRetrospective) + Cardinality(x.unresolved)
               + Cardinality(x.void) = Cardinality(Records)
          /\ \A s \in card.scores :
                s.forecast \in ForecastIds => s.outcome = ActiveIn(outcomes, s.forecast)[1].label
          /\ UNION {b[i].observations : i \in DOMAIN b} = card.scores
          /\ \A i, j \in DOMAIN b : i # j => b[i].observations \cap b[j].observations = {}
          /\ \A i \in DOMAIN b : \A s \in b[i].observations :
                b[i].lower * Whole <= 5 * s.confidence /\ 5 * s.confidence <= b[i].upper * Whole
          /\ Len(b) > 1 => \A i \in DOMAIN b : Cardinality(b[i].observations) >= MinimumBucket

\* Once the sample carries a claim it carries it for good, as long as nothing
\* new is published: not a horizon that is still to be resolved, not a void, not
\* a correction takes it back (comparisonReady asks for published horizons).
ClaimIsKept == [][Alive /\ ComparisonReady(Records) => ComparisonReady(Records)']_vars

\* A forecast whose outcome is known, or given up, is settled in the end, unless
\* its job is lost: none of the tries it has (scheduler.ts:341, queue.ts:137)
\* lived to record a verdict that was no longer pending.
KnownIsSettled ==
    \A f \in ForecastIds :
        Alive /\ Verdict(f).status \in {"resolved", "void"}
            ~> StatusIn(events, f) \in {"resolved", "void"} \/ fruitless[f] = MaxTries
=============================================================================
