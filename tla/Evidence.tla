------------------------------- MODULE Evidence -------------------------------
(***************************************************************************)
(* From the market to a decision: a provider publishes bars, revises them  *)
(* and announces actions and events; what it answers is made a snapshot    *)
(* (MarketSnapshot), the snapshot a request, the reply a judgment          *)
(* (JudgmentContract), and the judgment a decision (PositionPolicy, with   *)
(* the risk and the size of PositionRisk).                                 *)
(*                                                                         *)
(* The provider is outside the repository: it is what the interface        *)
(* MarketDataProvider and the validation of its answers are prepared for.  *)
(* It answers with the latest revision there is of everything, whatever    *)
(* the cutoff, and an answer may be used at any time after.                *)
(***************************************************************************)
EXTENDS MarketSnapshot, JudgmentContract, PositionRisk, SnapshotRecord

CONSTANTS
    Sessions,      \* the calendar, a sequence of days
    FirstDay,      \* the day a behaviour begins on
    LastInstant,   \* bound: the instant it ends at
    BaseBar(_, _), \* the bar of "symbol" or "benchmark" on a session
    Surprises,     \* what a provider may publish besides
    MaxSurprises,  \* bound: those of a behaviour
    Requests,      \* what may be asked for: a cutoff session, a symbol and its benchmark
    CloseOf(_),    \* the instant at which a session closes
    MaxAnswers,    \* bound: answers of the provider in a behaviour
    Replies, Contracts,
    Capital        \* what sizing is told

VARIABLES
    now,
    published,   \* all the provider has published, with the instant it did
    answers,     \* what it has answered
    evaluation   \* the evaluation the last step made, as a sequence, empty if it made none

vars == <<now, published, answers, evaluation>>

Named == {"symbol", "benchmark"}
SessionDays == ToSet(Sessions)

\* What is published, with an instant to be put in
Bars ==
    [id : Nat, kind : {"bar"}, of : Named, session : Nat, revision : Nat, name : Nat, hash : Nat,
     completed : BOOLEAN, open : Int, high : Int, low : Int, close : Int, volume : Int,
     rawOpen : Int, rawClose : Int, available : Nat]
Actions ==
    [id : Nat, kind : {"action"}, of : Named, effective : Nat, type : STRING, confirmed : BOOLEAN,
     verified : BOOLEAN, name : Nat, revision : Nat, hash : Nat, available : Nat]
Events ==
    [id : Nat, kind : {"event"}, of : {"symbol"}, type : STRING, session : Nat,
     confirmed : BOOLEAN, name : Nat, revision : Nat, hash : Nat, available : Nat]

Material == {BaseBar(of, d) : of \in Named, d \in SessionDays} \cup Surprises

ASSUME InstantAssumption ==
    /\ {FirstDay, LastInstant, MaxSurprises, MaxAnswers, Never} \subseteq Nat
    /\ 2 * FirstDay <= LastInstant
    /\ \A t \in 0..LastInstant : DayOf(t) = t \div 2
    /\ Sessions \in Seq(Nat) /\ \A r \in Requests : r.cutoff \in Nat

\* An id names one thing, and a revision of a bar is one bar.
ASSUME MaterialAssumption ==
    /\ Material \subseteq Bars \cup Actions \cup Events
    /\ \A of \in Named, d \in SessionDays :
          BaseBar(of, d).kind = "bar" /\ BaseBar(of, d).of = of /\ BaseBar(of, d).session = d
    /\ \A x, y \in Material : x.id = y.id => x = y
    /\ \A x, y \in Material :
          x.kind = "bar" /\ y.kind = "bar" /\ x.of = y.of /\ x.session = y.session
            /\ x.revision = y.revision => x = y

ASSUME ContractAssumption == \A c \in Contracts : ExpectedFlatBand(c.mode, c.horizon) # NoBand

At(fact, t) == [fact EXCEPT !.available = t]

RegularBars(day) == {At(BaseBar(of, day), 2 * day) : of \in Named}

Init ==
    /\ now = 2 * FirstDay
    /\ published = UNION {RegularBars(d) : d \in {x \in SessionDays : x <= FirstDay}}
    /\ answers = {}
    /\ evaluation = <<>>

-----------------------------------------------------------------------------
(* The provider *)

\* A day has two instants; at the first the bars of its session are there.
Ticks ==
    /\ now < LastInstant
    /\ now' = now + 1
    /\ published' = published \cup (IF now' % 2 = 0 /\ DayOf(now') \in SessionDays
                                    THEN RegularBars(DayOf(now')) ELSE {})
    /\ evaluation' = <<>>
    /\ UNCHANGED answers

\* What is published at an instant is there for whoever asks at that instant.
Publishes(fact) ==
    /\ \A p \in answers : p.fetched < now
    /\ fact.kind = "bar" => fact.session <= DayOf(now)
    /\ \A f \in published : f.id # fact.id
    /\ Cardinality({f \in published : \E s \in Surprises : s.id = f.id}) < MaxSurprises
    /\ published' = published \cup {At(fact, now)}
    /\ evaluation' = <<>>
    /\ UNCHANGED <<now, answers>>

Facts(known, kind, of) == {f \in known : f.kind = kind /\ f.of = of}

\* The latest revision of each bar
Latest(known, of) ==
    {f \in Facts(known, "bar", of) : \A g \in Facts(known, "bar", of) :
        g.session = f.session => g.revision <= f.revision}

\* ... in the order of the sessions
InOrder(bars) ==
    LET Place(b) == Cardinality({x \in bars : x.session <= b.session})
    IN  [i \in 1..Cardinality(bars) |-> CHOOSE b \in bars : Place(b) = i]

AnswerName == -1
CalendarName == -2
EventsName == -3

\* What it answers at an instant
Answer(known, r, t) ==
    [instrument |-> r.symbol, benchmark |-> r.benchmark,
     name |-> AnswerName, revision |-> t, hash |-> 0, available |-> t,
     cutoff |-> r.cutoff, fetched |-> t, updated |-> t,
     bars |-> InOrder(Latest(known, "symbol")),
     benchmarkBars |-> InOrder(Latest(known, "benchmark")),
     actions |-> Facts(known, "action", "symbol"),
     benchmarkActions |-> Facts(known, "action", "benchmark"),
     calendar |-> [name |-> CalendarName, revision |-> 1, hash |-> 0, available |-> 0,
                   sessions |-> Sessions],
     events |-> [name |-> EventsName, revision |-> t, hash |-> 0, available |-> t,
                 asOf |-> r.cutoff, through |-> Newest(Sessions),
                 events |-> Facts(known, "event", "symbol")]]

\* fetchMarketData
Fetch(r) ==
    /\ Cardinality(answers) < MaxAnswers
    /\ answers' = answers \cup {Answer(published, r, now)}
    /\ evaluation' = <<>>
    /\ UNCHANGED <<now, published>>

-----------------------------------------------------------------------------
(* The evaluation *)

\* marketRiskFromFeatures; computeMarketRisk throws out of these domains.
RiskDefined(f) ==
    /\ \A r \in {f.volatilityPercentile, f.gapRiskPercentile} : r.d > 0 /\ r.n \in 0..r.d
    /\ f.drawdown \in -1000..0 /\ f.atr.n >= 0 /\ f.sessionsToKnownEvent >= 0

RiskOf(state) ==
    LET f == state.features
        Percent(r) == (100 * r.n) \div r.d
        index == MarketRiskIndex(
            [volatility |-> Percent(f.volatilityPercentile), gap |-> Percent(f.gapRiskPercentile),
             drawdown |-> (-f.drawdown) \div 10,
             atr |-> (100 * f.atr.n) \div (f.atr.d * state.latestAdjustedClose),
             sessionsToEvent |-> f.sessionsToKnownEvent])
    IN  [index |-> index, band |-> ClassifyMarketRisk(index)]

Sized(state) ==
    SizeLongPosition(state.latestAdjustedClose, state.features.atr.n \div state.features.atr.d, Capital)

Fresh == [valid |-> TRUE, fresh |-> TRUE]

Decision(mode, state, judgment) ==
    IF mode = "position"
    THEN EvaluatePositionEntry(judgment, Fresh, RiskOf(state), Sized(state))
    ELSE EvaluateSprint(judgment, Fresh)

\* One evaluation of an answer of the provider, with the present time for its
\* knowledge cutoff; a reply that is refused is no judgment.
Evaluate(p) ==
    \E snapshot \in BuildMarketSnapshot(p, p.cutoff, now), c \in Contracts, reply \in Replies :
        LET judgment == IF ReplyAccepted(reply, {Requested}) THEN AnswersOf(reply) ELSE NoJudgment
        IN  /\ BuildJudgmentRequest(snapshot.state, c.mode, c.horizon, "scored", NoBand) # {}
            /\ evaluation' = <<[state |-> snapshot.state, judgment |-> judgment, mode |-> c.mode,
                                action |-> Decision(c.mode, snapshot.state, judgment)]>>
            /\ UNCHANGED <<now, published, answers>>

Next ==
    \/ Ticks
    \/ \E fact \in Surprises : Publishes(fact)
    \/ \E r \in Requests : Fetch(r)
    \/ \E p \in answers : Evaluate(p)

Spec == Init /\ [][Next]_vars

-----------------------------------------------------------------------------
(* Properties *)

\* What was known of the sessions up to a cutoff, and of the events, when the
\* provider answered
KnownTo(p) ==
    {f \in published : /\ f.available <= p.fetched
                       /\ f.kind = "bar" => f.session <= p.cutoff
                       /\ f.kind = "action" => f.effective <= p.cutoff}

SameRequest(p, q) ==
    p.cutoff = q.cutoff /\ p.instrument = q.instrument /\ p.benchmark = q.benchmark

\* The future does not leak: of two answers to one request between which nothing
\* was published about the sessions up to its cutoff, either both are refused or
\* both give the same state, whatever the later sessions were by then (snapshot.ts).
SameKnowledgeSameSnapshot ==
    \A p, q \in answers :
        SameRequest(p, q) /\ KnownTo(p) = KnownTo(q) =>
            {s.state : s \in BuildMarketSnapshot(p, p.cutoff, now)}
              = {s.state : s \in BuildMarketSnapshot(q, q.cutoff, now)}

\* What a snapshot may hold and a request may not: a name or a type of event that
\* it does not know, or more events than there is room for.
Askable(state, c) ==
    /\ {state.symbol, state.benchmarkSymbol} \subseteq Tickers
    /\ \A e \in state.upcomingKnownEvents : e.type \in IssuerEventTypes
    /\ BytesOf(Wire(state, c.mode, c.horizon)) <= MaxRequestBytes

\* Where five validations that were written apart disagree, and that they disagree
\* nowhere else.  The ledger records every snapshot but those known only before
\* their session closed (snapshot.ts compares days, in-memory.ts instants); its
\* risk is always defined; it can be asked about under each contract unless the
\* request refuses a name, an event or its size, and the request then validates
\* where it is sent; and a reply that was accepted is a judgment for the policy.
NothingElseIsRefused ==
    /\ \A p \in answers : \A s \in BuildMarketSnapshot(p, p.cutoff, now) :
          /\ SnapshotIsPast([s EXCEPT !.cutoff = CloseOf(@)]) <=> CloseOf(p.cutoff) <= now
          /\ RiskDefined(s.state.features)
          /\ \A c \in Contracts :
                LET requests == BuildJudgmentRequest(s.state, c.mode, c.horizon, "sandbox", NoBand)
                IN  IF Askable(s.state, c) THEN \E r \in requests : FixtureAnswers(r)
                    ELSE requests = {}
    /\ \A i \in DOMAIN evaluation :
          evaluation[i].judgment # NoJudgment => IsPolicyJudgmentValid(evaluation[i].judgment)

\* The windows are full: in every snapshot the ranks of the volatility and of the
\* gaps are ranks among a whole year, themselves included, and the averages stay
\* within what they are averages of (indicators.ts with the minimum of 272
\* sessions in snapshot.ts).
WindowsAreFull ==
    \A p \in answers : \A s \in BuildMarketSnapshot(p, p.cutoff, now) :
        LET bars == BarsUntil(p.bars, p.cutoff)
            ranges == Between(bars, TrueRange)
            f == s.state.features
        IN  /\ \A r \in {f.volatilityPercentile, f.gapRiskPercentile} :
                  r.d = Annual /\ r.n \in 1..Annual
            /\ \E i \in DOMAIN ranges : f.atr.n <= ranges[i] * f.atr.d
            /\ \E i \in DOMAIN ranges : f.atr.n >= ranges[i] * f.atr.d
            /\ f.rsi \in 0..100

\* One judgment is one view: what the policy enters on would be held, with a
\* clean record, the session after on the same judgment, and is an UP in sprint
\* (three functions of policy.ts with thresholds of their own).
OneJudgmentOneView ==
    \A i \in DOMAIN evaluation :
        LET e == evaluation[i]
            held == MonitorOpenPosition([status |-> "completed", answers |-> e.judgment], Fresh,
                        [stopPrice |-> Sized(e.state).stop,
                         completedSessionLow |-> Sized(e.state).stop + 1,
                         eligibleSessionsHeld |-> 0, horizonSessions |-> 20,
                         consecutiveHoldFailures |-> 1])
        IN  e.action = "ENTER" =>
                held.action = "HOLD" /\ held.failures = 0 /\ EvaluateSprint(e.judgment, Fresh) = "up"
=============================================================================
