----------------------------- MODULE PaperDesk -----------------------------
(***************************************************************************)
(* The paper portfolio at work: policy, sizing, allocation, execution and  *)
(* the append-only log of paper events, session after session.             *)
(*                                                                         *)
(* The repository has these parts (PositionPolicy, PositionRisk,           *)
(* PaperPortfolio) and their interfaces name each other's results; the     *)
(* loop that calls them once a session is not in it, and the desk below is *)
(* that loop as the interfaces ask for it.  A second writer, the feed of   *)
(* dividends, splits and corrections, computes its event from the log it   *)
(* read and appends it later: nothing in appendPaperEvent holds the two    *)
(* together.                                                               *)
(***************************************************************************)
EXTENDS PositionPolicy, PositionRisk, PaperPortfolio

CONSTANTS
    Rank,          \* [Symbols -> Nat], the order of the symbols' names
    Deposit,       \* the first event's cash, in mills
    Horizon,       \* horizonSessions
    MaxSessions,   \* sessions in a behaviour
    MaxActions,    \* events of the feed in a behaviour
    Observations,  \* what the close of a session may show of each symbol
    Opens,         \* prices each symbol may open at; 0 is "none was published"
    Attestations,  \* whether each symbol's attestation came before the open
    NoAction       \* "the feed holds no event"

\* Prices are positive where they are published (features/snapshot.ts refuses bars
\* with others), and amounts whole numbers of mills.
ASSUME DeskAssumption ==
    /\ Rank \in [Symbols -> Nat]
    /\ Deposit \in Nat /\ Horizon \in Int /\ MaxSessions \in Nat /\ MaxActions \in Nat
    /\ \A s \in Symbols : \A o \in Observations[s] :
          o.close \in Nat \ {0} /\ o.low \in Nat /\ o.atr \in Nat
    /\ \A s \in Symbols : Opens[s] \subseteq Nat /\ Attestations[s] \subseteq BOOLEAN

VARIABLES
    session,   \* sessions closed so far
    phase,     \* "close": the session is still to be closed; "open": orders wait
    log,       \* the paper events of the ledger, in order
    desk,      \* the desk's record of each symbol
    action,    \* the event the feed has computed and not yet appended
    actions,   \* events the feed has computed
    misses,    \* history: hold gates failed in a row, by symbol
    low,       \* history: the low of the last closed session, by symbol
    raced      \* history: an event was appended after the log it was computed from changed

vars == <<session, phase, log, desk, action, actions, misses, low, raced>>

Flat == [stage |-> "flat", shares |-> 0, stop |-> 0, loss |-> 0, notional |-> 0,
         held |-> 0, failures |-> 0]
Staged(stage) == {s \in Symbols : desk[s].stage = stage}

TypeOK ==
    /\ session \in 0..MaxSessions /\ phase \in {"close", "open"}
    /\ \A i \in DOMAIN log : log[i].symbol \in Symbols \cup {NoSymbol}
    /\ \A s \in Symbols : /\ desk[s].stage \in {"flat", "entering", "open", "leaving"}
                          /\ desk[s].failures \in 0..2 /\ desk[s].held \in 0..MaxSessions
    /\ actions \in 0..MaxActions

Init ==
    /\ session = 0 /\ phase = "close"
    /\ log = <<DepositEvent(1, Deposit, 0)>>
    /\ desk = [s \in Symbols |-> Flat]
    /\ action = NoAction /\ actions = 0
    /\ misses = [s \in Symbols |-> 0] /\ low = [s \in Symbols |-> 0]
    /\ raced = FALSE

-----------------------------------------------------------------------------
(* The close of a session *)

Books == ProjectPaperPortfolio(log)

PlannedLoss == SumFunction([s \in Staged("open") \cup Staged("leaving") |-> desk[s].loss])

\* What sizing and allocation are told: every candidate the same.
Capacity ==
    [cash |-> Books.cash, equity |-> EquityOf(Books), plannedLoss |-> PlannedLoss,
     positions |-> Cardinality(Staged("open") \cup Staged("leaving"))]

Verdict(s, o) ==
    MonitorOpenPosition(o.judged, o.quality,
        [stopPrice |-> desk[s].stop, completedSessionLow |-> o.low * Mills,
         eligibleSessionsHeld |-> desk[s].held, horizonSessions |-> Horizon,
         consecutiveHoldFailures |-> desk[s].failures])

Sized(o) == SizeLongPosition(o.close, o.atr, Capacity)

Enters(o) ==
    EvaluatePositionEntry(IF o.judged.status = "failed" THEN NoJudgment ELSE o.judged.answers,
                          o.quality, o.risk, Sized(o)) = "ENTER"

Candidate(s, o) ==
    [symbol |-> s, rank |-> Rank[s], risk |-> o.risk.index, shares |-> Sized(o).shares,
     upProbability |-> o.judged.answers.direction.probabilities["up"],
     notional |-> Sized(o).notional, plannedLoss |-> Sized(o).plannedLoss]

\* The desk's order for a symbol whose candidate the allocation filled.
Order(o) ==
    [stage |-> "entering", shares |-> Sized(o).shares, stop |-> Sized(o).stop,
     loss |-> Sized(o).plannedLoss, notional |-> Sized(o).notional, held |-> 0, failures |-> 0]

Reviewed(s, o) ==
    [desk[s] EXCEPT !.stage = IF Verdict(s, o).action = "EXIT" THEN "leaving" ELSE "open",
                    !.failures = Verdict(s, o).failures]

Marks(seen) ==
    LET held == SetToSeq(Staged("open"))
    IN  [i \in DOMAIN held |->
            MarkEvent(Len(log) + i, held[i], seen[held[i]].close * Mills, session + 1)]

\* The flat symbols that may be entered; repeated: symbols the list of candidates
\* names twice; Chosen: the symbols whose candidates the allocation fills.
Entrants(seen) == {s \in Staged("flat") : Enters(seen[s])}

Listed(seen, repeated) ==
    LET listed == SetToSeq(Entrants(seen)) \o SetToSeq(Entrants(seen) \cap repeated)
    IN  [i \in DOMAIN listed |-> Candidate(listed[i], seen[listed[i]])]

Chosen(seen, repeated) ==
    LET filled == AllocateCandidates(Listed(seen, repeated), Capacity)
    IN  {filled[i].symbol : i \in DOMAIN filled}

\* Every open position is monitored and every flat symbol considered, all of
\* them on one reading of the log.  Nothing is done where the projection throws.
Close(seen, repeated) ==
    LET chosen == Chosen(seen, repeated)
    IN  /\ phase = "close" /\ session < MaxSessions
        /\ Projects(log)
        /\ session' = session + 1 /\ phase' = "open"
        /\ desk' = [s \in Symbols |->
                      IF s \in Staged("open") THEN Reviewed(s, seen[s])
                      ELSE IF s \in chosen THEN Order(seen[s]) ELSE desk[s]]
        /\ log' = log \o Marks(seen)
        /\ misses' = [s \in Symbols |->
                        IF s \notin Staged("open") THEN 0
                        ELSE IF seen[s].judged.status # "failed"
                                /\ HoldGatesPass(seen[s].judged.answers) THEN 0
                        ELSE misses[s] + 1]
        /\ low' = [s \in Symbols |-> seen[s].low * Mills]
        /\ raced' = (raced \/ (action # NoAction /\ log' # log))
        /\ UNCHANGED <<action, actions>>

-----------------------------------------------------------------------------
(* The next open *)

Bought(s, open, attested) ==
    desk[s].stage = "entering" /\ Fills("entry", session, session + 1, open, attested)

Sold(s, open, attested) ==
    desk[s].stage = "leaving" /\ Fills("exit", session, session + 1, open, attested)

Trade(i, s, open) ==
    IF desk[s].stage = "entering"
    THEN EntryEvent(i, s, desk[s].shares, FillPrice(open, "entry"), session)
    ELSE ExitEvent(i, s, Books.shares[s], FillPrice(open, "exit"), "exit", session)

\* An entry that did not fill is dropped, an exit is tried at the next open.
Opened(s, open, attested) ==
    CASE Bought(s, open, attested) -> [desk[s] EXCEPT !.stage = "open"]
      [] desk[s].stage = "entering" /\ ~Bought(s, open, attested) -> Flat
      [] Sold(s, open, attested) -> Flat
      [] desk[s].stage = "open" -> [desk[s] EXCEPT !.held = @ + 1]
      [] OTHER -> desk[s]

Open(opens, attested) ==
    LET traded == SetToSeq({s \in Symbols : \/ Bought(s, opens[s], attested[s])
                                            \/ Sold(s, opens[s], attested[s])})
    IN  /\ phase = "open"
        /\ Projects(log)
        /\ phase' = "close"
        /\ log' = log \o [i \in DOMAIN traded |-> Trade(Len(log) + i, traded[i], opens[traded[i]])]
        /\ desk' = [s \in Symbols |-> Opened(s, opens[s], attested[s])]
        /\ raced' = (raced \/ (action # NoAction /\ log' # log))
        /\ UNCHANGED <<session, action, actions, misses, low>>

-----------------------------------------------------------------------------
(* The feed *)

\* What the feed may have to say of a symbol, on the log as it reads it; a
\* correction can be written whether or not the log projects.
FeedEvents(id, s) ==
    LET held == Books.shares[s] IN
    (IF held > 0 THEN {CashDividendEvent(id, s, held, 100, session)} ELSE {})
      \cup {SplitEvent(id, s, held, r[1], r[2], session) :
              r \in {q \in {<<2, 1>>, <<1, 2>>} : SplitDefined(held, q[1], q[2])}}
      \cup {CorrectionEvent(id, 1, -100, session)}

Compute ==
    /\ action = NoAction /\ actions < MaxActions
    /\ \E s \in Symbols : \E e \in FeedEvents(-(actions + 1), s) :
          /\ Projects(log) \/ e.type = "correction"
          /\ action' = e
    /\ actions' = actions + 1
    /\ UNCHANGED <<session, phase, log, desk, misses, low, raced>>

\* A stop of a position that is split moves with its price.
SplitPosition(d, held, more) ==
    [d EXCEPT !.stop = (@ * held) \div (held + more), !.shares = @ + more]

FollowSplit(e) ==
    IF /\ e.type = "split" /\ desk[e.symbol].stage \in {"open", "leaving"}
       /\ Books.shares[e.symbol] > 0 /\ Books.shares[e.symbol] + e.shares > 0
    THEN [desk EXCEPT ![e.symbol] =
            SplitPosition(desk[e.symbol], Books.shares[e.symbol], e.shares)]
    ELSE desk

Deliver ==
    /\ action # NoAction
    /\ Appendable(log, action)
    /\ log' = Append(log, action)
    /\ action' = NoAction
    /\ desk' = FollowSplit(action)
    /\ UNCHANGED <<session, phase, actions, misses, low, raced>>

-----------------------------------------------------------------------------
PerSymbol(f) == {c \in [Symbols -> UNION {f[s] : s \in Symbols}] : \A s \in Symbols : c[s] \in f[s]}

Next ==
    \/ \E seen \in PerSymbol(Observations), repeated \in {{}, Symbols} : Close(seen, repeated)
    \/ \E opens \in PerSymbol(Opens), attested \in PerSymbol(Attestations) : Open(opens, attested)
    \/ Compute
    \/ Deliver

Spec == Init /\ [][Next]_vars

-----------------------------------------------------------------------------
(* Properties *)

\* No position outstays its rules: after a close that keeps it, its stop was
\* not touched, its horizon is not reached, and at most the last of its hold
\* judgments failed, malformed and missing ones included (policy.ts, run
\* through monitoring.ts; two failures in a row must exit however they arise).
NeverOverstays ==
    [][\A s \in Symbols :
          phase = "close" /\ phase' = "open" /\ desk[s].stage = "open" /\ desk'[s].stage = "open"
             => misses'[s] <= 1 /\ desk[s].held < Horizon /\ low'[s] > desk[s].stop]_vars

\* What a close commits to fits: the new orders, each sized as if it were the
\* only one, together with the positions there are keep within the cash, the
\* number of positions and the aggregate loss of the one reading of the books
\* all were sized on (position-risk.ts and ranking.ts together).
CommitmentsFit ==
    [][LET ordered == {s \in Symbols : desk[s].stage = "flat" /\ desk'[s].stage = "entering"}
           c == Capacity
       IN  ordered # {} =>
             /\ SumFunction([s \in ordered |-> desk'[s].notional]) <= c.cash
             /\ Cardinality(ordered) + c.positions <= MaxOpenPositions
             /\ 100 * (SumFunction([s \in ordered |-> desk'[s].loss]) + c.plannedLoss)
                  <= AggregatePercent * c.equity]_vars

\* As long as no event was appended to a log that had moved on since the event
\* was computed, the log projects and its shares are the desk's.  The ledger
\* appends what it is given (portfolio.ts throws only when it is read back).
SerialLogProjects ==
    ~raced =>
      /\ Projects(log)
      /\ \A s \in Symbols :
            Books.shares[s] = IF desk[s].stage \in {"open", "leaving"} THEN desk[s].shares ELSE 0

\* The three readings of one log agree: an event that is read twice counts
\* once (projectPaperPortfolio), and cash and shares are those of the ledger's
\* own rebuild (rebuildLedgerProjection), which reads leniently.
ReadingsAgree ==
    Projects(log) =>
      /\ ProjectPaperPortfolio(log \o log) = Books
      /\ RebuildBooks(log) = [cash |-> Books.cash, shares |-> Books.shares]
=============================================================================
