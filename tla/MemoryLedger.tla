----------------------------- MODULE MemoryLedger -----------------------------
(***************************************************************************)
(* The repository in memory (modules/ledger/in-memory.ts), which the       *)
(* fixtures and the tests run on and which promises what the SQL ledger    *)
(* does: immutable records that may be sent again, one chain of evidence   *)
(* per forecast, resolutions that are recorded whole or not at all,        *)
(* numbered job attempts, and picks whose author is forgotten in time.     *)
(*                                                                         *)
(* Each method runs to its end without awaiting anything, so a call is one *)
(* step; callers make any of their calls at any time and any number of     *)
(* times.  A method that throws changes nothing but what is said here.     *)
(*                                                                         *)
(* A request is the input of a method.  content stands for the fields that *)
(* are hashed (the digest of a record is the record: SHA-256 is taken to   *)
(* have no collisions), and valid for the tests of finite numbers, digests *)
(* and non-empty texts.  Rows keep their input and lose createdAt, which   *)
(* every comparison of the code leaves out.  Definitions introduced as     *)
(* "Bug:" are as in JobQueue.                                              *)
(***************************************************************************)
EXTENDS Integers, Sequences, FiniteSets, FiniteSetsExt, SnapshotRecord

CONSTANTS
    Repertoires,  \* sets of requests: what the callers of a behaviour may send
    ForecastIds, OutcomeIds,
    Retention,    \* the longest life of a private identifier (30 days)
    MaxTime       \* bound on the clock

None == 0       \* undefined, for an id

Operations == {"snapshot", "judgment", "decision", "publish", "resolve", "correct", "void",
               "attempt", "pick", "analytics"}

TypeOfEvent == [resolve |-> "resolved", correct |-> "correction", void |-> "void"]

\* What the types of the methods say of their inputs (repository.ts): only a
\* correction's outcome names another one.  Ids are numbers here.
WellTyped(r) ==
    /\ r.op \in Operations
    /\ r.op = "publish" => r.id \in ForecastIds
    /\ r.op \in DOMAIN TypeOfEvent => r.event.type = TypeOfEvent[r.op] /\ r.event.id \in Nat
    /\ r.op \in {"resolve", "correct"} =>
          r.outcome.id \in Nat \ {None} /\ (r.outcome.corrects = None <=> r.op = "resolve")
    /\ r.op = "attempt" => r.number \in Int
    /\ r.op \in {"pick", "analytics"} => r.expires \in Int

ASSUME RequestAssumption == \A requests \in Repertoires : \A r \in requests : WellTyped(r)
ASSUME TimeAssumption == Retention \in Nat /\ MaxTime \in Nat

VARIABLES
    snapshots, judgments, decisions, forecasts, events, outcomes, attempts, picks,
    analytics, identifiers,   \* the records of the repository, in the order they came
    clock,         \* now()
    repertoire,    \* what the callers of this behaviour may send
    answered       \* history: the requests accepted, with what they were answered

ledgerVars == <<snapshots, judgments, decisions, forecasts, events, outcomes, attempts, picks,
                analytics, identifiers, clock, repertoire, answered>>

LedgerInit ==
    /\ snapshots = <<>> /\ judgments = <<>> /\ decisions = <<>> /\ forecasts = <<>>
    /\ events = <<>> /\ outcomes = <<>> /\ attempts = <<>> /\ picks = <<>> /\ analytics = <<>>
    /\ identifiers = {} /\ clock = 0 /\ answered = {}
    /\ repertoire \in Repertoires

Ids(rows) == {rows[i].id : i \in DOMAIN rows}

\* find, and filter(...).at(-1): the first and the last of the rows at some
\* positions, as a sequence that is empty where there is none.
FirstOf(rows, at) == IF at = {} THEN <<>> ELSE <<rows[Min(at)]>>
LastOf(rows, at) == IF at = {} THEN <<>> ELSE <<rows[Max(at)]>>

Named(rows, id) == FirstOf(rows, {i \in DOMAIN rows : rows[i].id = id})

-----------------------------------------------------------------------------
(* Answers *)

Refused == [status |-> "refused", value |-> <<>>]

\* A method looks first for the row its request may be about.  If there is one
\* the request is its repetition or a conflict; if there is none a row is made,
\* where the rest of the method allows it.
Answer(found, Same(_), allowed, row) ==
    IF found # <<>>
    THEN IF Same(Head(found)) THEN [status |-> "replayed", value |-> <<Head(found)>>] ELSE Refused
    ELSE IF allowed THEN [status |-> "created", value |-> <<row>>] ELSE Refused

-----------------------------------------------------------------------------
(* The chain of evidence *)

\* insertSnapshot
SnapshotContent(r) == [r EXCEPT !.id = None]

KnownSnapshot(r) ==
    FirstOf(snapshots, {i \in DOMAIN snapshots :
                            \/ snapshots[i].id = r.id
                            \/ SnapshotContent(snapshots[i]) = SnapshotContent(r)})

InsertSnapshot(r) ==
    IF ~SnapshotIsPast(r) THEN Refused
    ELSE Answer(KnownSnapshot(r), LAMBDA x : x = r, TRUE, r)

\* insertJudgment
InsertJudgment(r) ==
    IF r.snapshot \notin Ids(snapshots) THEN Refused
    ELSE Answer(Named(judgments, r.id), LAMBDA x : x = r, TRUE, r)

\* Bug: only the id of a decision is looked for.
DecidedTwice(r) ==
    IF r.judgment \notin Ids(judgments) THEN Refused
    ELSE Answer(Named(decisions, r.id), LAMBDA x : x = r, TRUE, r)

\* insertPolicyDecision: one per judgment; the id itself is not compared.
DecisionContent(r) == [r EXCEPT !.id = None]

KnownDecision(r) ==
    FirstOf(decisions, {i \in DOMAIN decisions :
                            decisions[i].id = r.id \/ decisions[i].judgment = r.judgment})

InsertPolicyDecision(r) ==
    IF r.judgment \notin Ids(judgments) THEN Refused
    ELSE Answer(KnownDecision(r), LAMBDA x : DecisionContent(x) = DecisionContent(r), TRUE, r)

\* The snapshot, judgment and decision of a forecast are there and each other's.
Chained(r) ==
    /\ r.snapshot \in Ids(snapshots) /\ r.judgment \in Ids(judgments)
    /\ r.decision \in Ids(decisions)
    /\ LET s == Head(Named(snapshots, r.snapshot))
           j == Head(Named(judgments, r.judgment))
           d == Head(Named(decisions, r.decision))
       IN  /\ j.snapshot = s.id /\ d.judgment = j.id
           /\ s.symbol = r.symbol /\ s.cutoff = r.cutoff /\ s.session = r.session
           /\ j.version = r.version /\ d.policy = r.policy

\* publishForecast
KnownForecast(r) == FirstOf(forecasts, {i \in DOMAIN forecasts : forecasts[i].key = r.key})

PublishForecast(r) ==
    Answer(KnownForecast(r), LAMBDA x : x = r,
           /\ r.id \notin Ids(forecasts)
           /\ Chained(r)
           /\ \A i \in DOMAIN forecasts : forecasts[i].judgment # r.judgment
           /\ r.horizon >= 1,
           r)

\* An id nobody else uses
Generated(rows) == -(Len(rows) + 1)

PublishedEvent(f) ==
    [id |-> Generated(events), forecast |-> f, type |-> "published", cites |-> None]

-----------------------------------------------------------------------------
(* The rebuilt projection: replay.ts *)

OwnRows(rows, f) == {i \in DOMAIN rows : rows[i].forecast = f}

\* forecastStatusById
StatusIn(evs, f) ==
    LET told == LastOf(evs, {i \in OwnRows(evs, f) : evs[i].type # "correction"})
    IN  IF told = <<>> THEN "absent" ELSE told[1].type

\* The events rebuildLedgerProjection does not throw on.
EventFits(before, e) ==
    /\ e.forecast \in Ids(forecasts) /\ e.id \notin Ids(before)
    /\ CASE e.type = "published" -> StatusIn(before, e.forecast) = "absent"
         [] e.type \in {"resolved", "void"} -> StatusIn(before, e.forecast) = "published"
         [] e.type = "correction" ->
              /\ StatusIn(before, e.forecast) \in {"resolved", "void"}
              /\ \E i \in DOMAIN before : before[i].id = e.cites /\ before[i].forecast = e.forecast

\* activeOutcomeByForecast: the last one, as a sequence that may be empty
ActiveIn(outs, f) == LastOf(outs, OwnRows(outs, f))

OutcomeFits(before, o) ==
    /\ o.forecast \in Ids(forecasts) /\ o.id \notin Ids(before)
    /\ LET active == ActiveIn(before, o.forecast)
       IN  IF o.corrects = None THEN active = <<>>
           ELSE active # <<>> /\ active[1].id = o.corrects

AllFit(rows, Fits(_, _)) == \A i \in DOMAIN rows : Fits(SubSeq(rows, 1, i - 1), rows[i])

Rebuilds ==
    /\ AllFit(events, EventFits)
    /\ \A f \in Ids(forecasts) : StatusIn(events, f) # "absent"
    /\ AllFit(outcomes, OutcomeFits)

-----------------------------------------------------------------------------
(* Resolutions *)

\* Bug: a forecast that is over may be ended again.
EndsAgain(e) ==
    /\ e.forecast \in Ids(forecasts) /\ e.valid
    /\ e.id \notin Ids(events)
    /\ IF e.type \in {"resolved", "void"} THEN StatusIn(events, e.forecast) # "absent"
       ELSE /\ StatusIn(events, e.forecast) \in {"resolved", "void"}
            /\ \E i \in DOMAIN events : events[i].id = e.cites /\ events[i].forecast = e.forecast

\* #appendForecastEvent
EventAllowed(e) ==
    /\ e.forecast \in Ids(forecasts) /\ e.valid
    /\ e.id \notin Ids(events)
    /\ IF e.type \in {"resolved", "void"} THEN StatusIn(events, e.forecast) = "published"
       ELSE /\ StatusIn(events, e.forecast) \in {"resolved", "void"}
            /\ \E i \in DOMAIN events : events[i].id = e.cites /\ events[i].forecast = e.forecast

\* Bug: the outcome is checked against the status from before its event.
OutcomeCheckedFirst(evs, o) ==
    /\ o.forecast \in Ids(forecasts) /\ o.id \notin Ids(outcomes) /\ o.valid
    /\ LET active == ActiveIn(outcomes, o.forecast)
       IN  IF o.corrects = None
           THEN StatusIn(events, o.forecast) = "resolved" /\ active = <<>>
           ELSE active # <<>> /\ active[1].id = o.corrects

\* #appendOutcome, after the event was appended
OutcomeAllowed(evs, o) ==
    /\ o.forecast \in Ids(forecasts) /\ o.id \notin Ids(outcomes) /\ o.valid
    /\ LET active == ActiveIn(outcomes, o.forecast)
       IN  IF o.corrects = None
           THEN StatusIn(evs, o.forecast) = "resolved" /\ active = <<>>
           ELSE active # <<>> /\ active[1].id = o.corrects

EventRow(e) == [id |-> e.id, forecast |-> e.forecast, type |-> e.type, cites |-> e.cites]

\* Bug: what was appended before the method threw stays.
KeptOnThrow(before, during) == during

\* The splice of resolveForecast and correctForecastOutcome
RolledBack(before, during) == before

\* resolveForecast and correctForecastOutcome: the event and the outcome are
\* there together or neither is.
Settle(r) ==
    LET event == Named(events, r.event.id)
        outcome == Named(outcomes, r.outcome.id)
    IN  IF event # <<>> \/ outcome # <<>>
        THEN IF event = <<EventRow(r.event)>> /\ outcome = <<r.outcome>>
             THEN [status |-> "replayed", value |-> <<r>>] ELSE Refused
        ELSE IF EventAllowed(r.event)
                /\ OutcomeAllowed(Append(events, EventRow(r.event)), r.outcome)
        THEN [status |-> "created", value |-> <<r>>] ELSE Refused

\* The events after a call that threw
AfterThrow(r) ==
    IF Named(events, r.event.id) = <<>> /\ Named(outcomes, r.outcome.id) = <<>>
         /\ EventAllowed(r.event)
    THEN RolledBack(events, Append(events, EventRow(r.event)))
    ELSE events

\* Bug: the transition is checked before the repetition is looked for.
VoidIfPublished(r) ==
    IF ~EventAllowed(r.event) THEN Refused
    ELSE Answer(Named(events, r.event.id), LAMBDA x : x = EventRow(r.event), TRUE, EventRow(r.event))

\* voidForecast
VoidForecast(r) ==
    Answer(Named(events, r.event.id), LAMBDA x : x = EventRow(r.event), EventAllowed(r.event),
           EventRow(r.event))

-----------------------------------------------------------------------------
(* Attempts *)

\* The last attempt there is at an operation
PreviousAttempt(key) == LastOf(attempts, {i \in DOMAIN attempts : attempts[i].key = key})

\* Bug: attempts are only found by their id.
AttemptById(r) ==
    Answer(Named(attempts, r.id), LAMBDA x : x = r,
           LET previous == PreviousAttempt(r.key) IN
           IF previous = <<>> THEN r.number = 1 ELSE previous[1].status # "succeeded",
           r)

\* recordJobAttempt: numbered from 1 without a gap, and none after a success
KnownAttempt(r) ==
    FirstOf(attempts, {i \in DOMAIN attempts :
                           \/ attempts[i].id = r.id
                           \/ attempts[i].key = r.key /\ attempts[i].number = r.number})

RecordJobAttempt(r) ==
    Answer(KnownAttempt(r), LAMBDA x : x = r,
           LET previous == PreviousAttempt(r.key) IN
           /\ r.number >= 1 /\ (r.status = "failed" => r.valid)
           /\ IF previous = <<>> THEN r.number = 1
              ELSE previous[1].status # "succeeded" /\ r.number = previous[1].number + 1,
           r)

-----------------------------------------------------------------------------
(* Visitors *)

\* Bug: an identifier lives as long as the visitor asks.
Uncapped(r) == r.expires

Capped(r) == IF r.expires < clock + Retention THEN r.expires ELSE clock + Retention

\* A pick is its visitor's one for the forecast, an analytics event stands alone.
ScopeOf(r) == IF r.op = "pick" THEN r.forecast ELSE r.id

\* #identifier: the one there is for this token, kind and scope, or a new one
IdentifierFor(r) ==
    LET known == {x \in identifiers :
                     x.kind = r.op /\ x.token = r.token /\ x.scope = ScopeOf(r)}
    IN  IF known # {} THEN CHOOSE x \in known : TRUE
        ELSE [kind |-> r.op, token |-> r.token, scope |-> ScopeOf(r), record |-> r.id,
              expires |-> Capped(r), created |-> clock]

PickRow(r) == [id |-> r.id, forecast |-> r.forecast, choice |-> r.choice]

\* recordVisitorPick: a pick there is under the identifier's record is the
\* answer, whoever made it.
RecordVisitorPick(r) ==
    IF r.forecast \notin Ids(forecasts) \/ r.expires <= clock THEN Refused
    ELSE Answer(Named(picks, IdentifierFor(r).record), LAMBDA x : TRUE,
                r.id \notin Ids(picks), PickRow(r))

\* recordAnalyticsEvent: nothing is kept without consent; an id that is there is
\* refused, so that an event cannot be sent again.
RecordAnalyticsEvent(r) ==
    IF ~r.consent THEN [status |-> "ignored", value |-> <<>>]
    ELSE IF r.id \in Ids(analytics) \/ r.expires <= clock THEN Refused
    ELSE [status |-> "created", value |-> <<[id |-> r.id, event |-> r.event]>>]

\* #identifier leaves its record even where its caller finds one of its own.
Identifies(r, a) ==
    \/ r.op = "pick" /\ r.forecast \in Ids(forecasts) /\ r.expires > clock
    \/ r.op = "analytics" /\ a.status = "created"

-----------------------------------------------------------------------------
(* Calls *)

Answers(r) ==
    CASE r.op = "snapshot" -> InsertSnapshot(r)
      [] r.op = "judgment" -> InsertJudgment(r)
      [] r.op = "decision" -> InsertPolicyDecision(r)
      [] r.op = "publish" -> PublishForecast(r)
      [] r.op \in {"resolve", "correct"} -> Settle(r)
      [] r.op = "void" -> VoidForecast(r)
      [] r.op = "attempt" -> RecordJobAttempt(r)
      [] r.op = "pick" -> RecordVisitorPick(r)
      [] r.op = "analytics" -> RecordAnalyticsEvent(r)

Kept(rows, op, r, a) == IF r.op = op /\ a.status = "created" THEN rows \o a.value ELSE rows

EventsAfter(r, a) ==
    CASE a.status = "created" /\ r.op = "publish" -> Append(events, PublishedEvent(r.id))
      [] a.status = "created" /\ r.op \in {"resolve", "correct", "void"} ->
            Append(events, EventRow(r.event))
      [] a.status = "refused" /\ r.op \in {"resolve", "correct"} -> AfterThrow(r)
      [] OTHER -> events

Call(r) ==
    LET a == Answers(r)
    IN  /\ snapshots' = Kept(snapshots, "snapshot", r, a)
        /\ judgments' = Kept(judgments, "judgment", r, a)
        /\ decisions' = Kept(decisions, "decision", r, a)
        /\ forecasts' = Kept(forecasts, "publish", r, a)
        /\ events' = EventsAfter(r, a)
        /\ outcomes' = IF r.op \in {"resolve", "correct"} /\ a.status = "created"
                       THEN Append(outcomes, r.outcome) ELSE outcomes
        /\ attempts' = Kept(attempts, "attempt", r, a)
        /\ picks' = Kept(picks, "pick", r, a)
        /\ analytics' = Kept(analytics, "analytics", r, a)
        /\ identifiers' = IF Identifies(r, a) THEN identifiers \cup {IdentifierFor(r)}
                          ELSE identifiers
        /\ answered' = IF a.status \in {"refused", "ignored"} THEN answered
                       ELSE answered \cup {[request |-> r, value |-> a.value]}
        /\ UNCHANGED <<clock, repertoire>>

\* purgeExpiredIdentifiers, at the present time
Purged == {x \in identifiers : x.expires > clock}

PurgeExpiredIdentifiers ==
    /\ identifiers' = Purged
    /\ UNCHANGED <<snapshots, judgments, decisions, forecasts, events, outcomes, attempts, picks,
                   analytics, clock, repertoire, answered>>

TimePasses ==
    /\ clock < MaxTime
    /\ clock' = clock + 1
    /\ UNCHANGED <<snapshots, judgments, decisions, forecasts, events, outcomes, attempts, picks,
                   analytics, identifiers, repertoire, answered>>

-----------------------------------------------------------------------------
(* Properties *)

\* What was accepted once is accepted for ever, with the same answer, whatever
\* was recorded since and whichever of its ids other requests have used.  A pick
\* is left out: once its identifier is purged, its visitor is a new one; and so is
\* an analytics event, which is refused when it is sent again.
RetriesGetTheSame ==
    \A a \in answered :
        a.request.op \notin {"pick", "analytics"} =>
            Answers(a.request).status # "refused" /\ Answers(a.request).value = a.value

VisitorsAreForgotten ==
    /\ \A x \in identifiers : x.expires <= x.created + Retention
    /\ \A x, y \in identifiers :
          x.kind = y.kind /\ x.token = y.token /\ x.scope = y.scope => x = y
    /\ \A x \in identifiers :
          x.record \in IF x.kind = "pick" THEN Ids(picks) ELSE Ids(analytics)

EvidenceIsExclusive ==
    /\ \A i, j \in DOMAIN forecasts : forecasts[i].judgment = forecasts[j].judgment => i = j
    /\ \A i, j \in DOMAIN decisions : decisions[i].judgment = decisions[j].judgment => i = j
    /\ \A i \in DOMAIN forecasts : Chained(forecasts[i])

AttemptsAreNumbered ==
    \A i \in DOMAIN attempts :
        LET own == {k \in DOMAIN attempts : attempts[k].key = attempts[i].key}
        IN  /\ attempts[i].number = Cardinality({k \in own : k <= i})
            /\ attempts[i].status = "succeeded" => \A k \in own : k <= i

\* Whatever was accepted and whatever threw, the records are ones the strict
\* rebuild takes, and a forecast has an outcome exactly if it is resolved: no
\* call leaves half of itself behind (replay.ts; in-memory.ts 434-590).  The
\* evidence of a forecast is its own and still says what the forecast was
\* published on.  The attempts of an operation are 1, 2, 3, ... and only the last
\* may have succeeded.  A visitor is known by one identifier per forecast picked
\* and per event that was consented to, for at most the retention time.
RecordsAreWhole ==
    /\ Rebuilds
    /\ \A f \in Ids(forecasts) :
          (StatusIn(events, f) = "resolved") <=> (ActiveIn(outcomes, f) # <<>>)
    /\ EvidenceIsExclusive
    /\ AttemptsAreNumbered
    /\ VisitorsAreForgotten

\* The repository keeps the promise the SQL ledger keeps.
History == INSTANCE ForecastHistory WITH
    Forecasts <- ForecastIds,
    OutcomeIds <- OutcomeIds,
    status <- [f \in ForecastIds |-> StatusIn(events, f)],
    inForce <- [f \in ForecastIds |-> Ids(ActiveIn(outcomes, f))],
    retired <- {outcomes[i].corrects : i \in DOMAIN outcomes} \ {None}

HistoryRefined == History!HistorySpec
=============================================================================
