---------------------------- MODULE MarketSnapshot ----------------------------
(***************************************************************************)
(* What a provider says of a market, and the snapshot that is made of it   *)
(* (modules/market/features/snapshot.ts): everything as it was known at    *)
(* the knowledge cutoff, and nothing of what came after the cutoff session.*)
(*                                                                         *)
(* Sessions are days; an instant is a number whose day is DayOf.  A source *)
(* is a name, a revision, a digest and the instant it was available.  An   *)
(* exchange, a currency, the list of allowed symbols and the formats of    *)
(* texts are taken to be in order.  Actions and events are sets: one that  *)
(* is there twice, word for word, which the code refuses, is there once.   *)
(***************************************************************************)
EXTENDS Indicators

CONSTANTS
    DayOf(_),
    RecentSplitWindow,   \* recentSplitWindow, 20
    EventSessions,       \* future sessions the event calendar must cover, 5
    Never                \* null: no event is known

\* Bug: one session of prices gives no return, and is forgotten.
OneSessionLess == Annual + Window - 1

\* buildMarketSnapshot: 272 in the code
MinimumSessions == Annual + Window

-----------------------------------------------------------------------------
(* Validation *)

\* validateSourceReference
Available(source, knowledge, fetched) ==
    source.available <= knowledge /\ source.available <= fetched

Ascending(sessions) == \A i \in 1..(Len(sessions) - 1) : sessions[i] < sessions[i + 1]

\* validateCalendar
ValidCalendar(calendar, cutoff) == Ascending(calendar.sessions) /\ cutoff \in ToSet(calendar.sessions)

\* validateOhlcv
ValidOhlcv(b) ==
    /\ b.low > 0 /\ b.open > 0 /\ b.close > 0 /\ b.volume >= 0
    /\ b.high >= b.open /\ b.high >= b.close /\ b.low <= b.open /\ b.low <= b.close
    /\ b.rawOpen > 0 /\ b.rawClose > 0

\* filter: those of a sequence that are in S, in their order
Among(S, seq) ==
    LET Keep(kept, x) == IF x \in S THEN Append(kept, x) ELSE kept
    IN  FoldLeft(Keep, <<>>, seq)

BarsUntil(bars, cutoff) == Among({b \in ToSet(bars) : b.session <= cutoff}, bars)

SessionsOf(bars) == [i \in DOMAIN bars |-> bars[i].session]

\* validateBars: complete, in order, up to the cutoff, and on every session of
\* the calendar from the first to the last.
ValidBars(bars, calendar, cutoff, knowledge, fetched) ==
    LET kept == BarsUntil(bars, cutoff)
    IN  /\ \A i \in DOMAIN kept :
              /\ Available(kept[i], knowledge, fetched)
              /\ kept[i].completed
              /\ ValidOhlcv(kept[i])
        /\ Ascending(SessionsOf(kept))
        /\ kept # <<>> /\ Newest(kept).session = cutoff
        /\ Len(kept) >= MinimumSessions
        /\ SessionsOf(kept) = Among(kept[1].session..cutoff, calendar.sessions)

ActionsUntil(actions, cutoff) == {a \in actions : a.effective <= cutoff}

\* validateActions: each of them confirmed and its adjustment verified, nothing
\* that ends the trade and no split in the latest sessions.
ValidActions(actions, sessions, window, cutoff, knowledge, fetched) ==
    LET recent == ToSet(Lately(sessions, window))
    IN  \A a \in ActionsUntil(actions, cutoff) :
          /\ a.confirmed /\ a.verified
          /\ Available(a, knowledge, fetched)
          /\ a.type \notin {"halt", "delisting"}
          /\ a.type = "split" => a.effective \notin recent
          /\ \A b \in ActionsUntil(actions, cutoff) : a.id = b.id => a = b

PlaceOf(calendar, session) == CHOOSE i \in DOMAIN calendar.sessions : calendar.sessions[i] = session

\* validateEventCalendar: as of the cutoff, and known far enough from there
ValidEvents(status, calendar, cutoff, knowledge, fetched) ==
    LET last == PlaceOf(calendar, cutoff) + EventSessions
    IN  /\ status.asOf = cutoff
        /\ Available(status, knowledge, fetched)
        /\ last \in DOMAIN calendar.sessions /\ status.through >= calendar.sessions[last]
        /\ \A e \in status.events : e.session > cutoff =>
              /\ e.confirmed
              /\ e.session \in ToSet(calendar.sessions) /\ e.session <= status.through
              /\ \A f \in status.events : f.session > cutoff /\ e.id = f.id => e = f

\* upcomingEvents, by the sessions they are away; of any type
UpcomingEvents(status, calendar, cutoff) ==
    {[id |-> e.id, type |-> e.type,
      sessionsAway |-> PlaceOf(calendar, e.session) - PlaceOf(calendar, cutoff)] :
        e \in {x \in status.events : x.session > cutoff}}

-----------------------------------------------------------------------------
(* The snapshot *)

Reference(x) == [name |-> x.name, revision |-> x.revision, hash |-> x.hash, available |-> x.available]

\* The sources of a snapshot made of an answer p of the provider
SourceManifest(p, cutoff) ==
    {Reference(x) : x \in {p, p.calendar, p.events}}
      \cup {Reference(b) : b \in ToSet(BarsUntil(p.bars, cutoff))
                                    \cup ToSet(BarsUntil(p.benchmarkBars, cutoff))}
      \cup {Reference(a) : a \in ActionsUntil(p.actions, cutoff)
                                    \cup ActionsUntil(p.benchmarkActions, cutoff)}

\* Bug: of two references to one revision the last one is taken.
AnyVersion(manifest) == TRUE

\* One revision of a source is one document.
OneVersion(manifest) ==
    \A x, y \in manifest : x.name = y.name /\ x.revision = y.revision => x = y

InTime(p, cutoff, knowledge) ==
    /\ DayOf(knowledge) >= cutoff
    /\ p.fetched <= knowledge /\ p.updated <= p.fetched
    /\ Available(p, knowledge, p.fetched)
    /\ DayOf(p.fetched) >= cutoff /\ DayOf(p.updated) >= cutoff
    /\ Available(p.calendar, knowledge, p.fetched)

\* assertFiniteFeatures: of valid bars only the volume, to none before, may have
\* no finite ratio.
FiniteFeatures(bars) == Total(Lately(Each(bars, LAMBDA b : b.volume), Window)) > 0

\* Bug: the features are those of the bars of the answer.
StateOfAllBars(p, cutoff) ==
    LET upcoming == UpcomingEvents(p.events, p.calendar, cutoff)
    IN  [symbol |-> p.instrument, benchmarkSymbol |-> p.benchmark, cutoff |-> cutoff,
         latestAdjustedClose |-> Newest(BarsUntil(p.bars, cutoff)).close,
         features |-> CalculateMarketFeatures(p.bars, p.benchmarkBars,
             IF upcoming = {} THEN Never ELSE Min({e.sessionsAway : e \in upcoming})),
         upcomingKnownEvents |-> upcoming]

\* compactState, with the features of the bars that were validated
CompactState(p, cutoff) ==
    LET upcoming == UpcomingEvents(p.events, p.calendar, cutoff)
    IN  [symbol |-> p.instrument, benchmarkSymbol |-> p.benchmark, cutoff |-> cutoff,
         latestAdjustedClose |-> Newest(BarsUntil(p.bars, cutoff)).close,
         features |-> CalculateMarketFeatures(BarsUntil(p.bars, cutoff),
             BarsUntil(p.benchmarkBars, cutoff),
             IF upcoming = {} THEN Never ELSE Min({e.sessionsAway : e \in upcoming})),
         upcomingKnownEvents |-> upcoming]

\* What buildMarketSnapshot throws for
Validates(p, cutoff, knowledge) ==
    LET sessions == SessionsOf(BarsUntil(p.bars, cutoff))
    IN  /\ p.instrument # p.benchmark
        /\ InTime(p, cutoff, knowledge)
        /\ ValidCalendar(p.calendar, cutoff)
        /\ ValidBars(p.bars, p.calendar, cutoff, knowledge, p.fetched)
        /\ ValidBars(p.benchmarkBars, p.calendar, cutoff, knowledge, p.fetched)
        /\ sessions = SessionsOf(BarsUntil(p.benchmarkBars, cutoff))
        /\ ValidActions(p.actions, sessions, RecentSplitWindow, cutoff, knowledge, p.fetched)
        /\ ValidActions(p.benchmarkActions, sessions, 0, cutoff, knowledge, p.fetched)
        /\ ValidEvents(p.events, p.calendar, cutoff, knowledge, p.fetched)
        /\ FiniteFeatures(BarsUntil(p.bars, cutoff))
        /\ OneVersion(SourceManifest(p, cutoff))

\* buildMarketSnapshot, as a set that is empty where it throws
BuildMarketSnapshot(p, cutoff, knowledge) ==
    IF Validates(p, cutoff, knowledge)
    THEN {[cutoff |-> cutoff, knowledge |-> knowledge, fetched |-> p.fetched, updated |-> p.updated,
           sources |-> SourceManifest(p, cutoff), state |-> CompactState(p, cutoff)]}
    ELSE {}
=============================================================================
