---------------------------- MODULE MCEvidence ----------------------------
EXTENDS Evidence

MCDayOf(t) == t \div 2
\* Bars may be there before their session closes.
MCCloseOf(session) == 2 * session + 1
\* Room for one event
MCBytesOf(wire) == Cardinality(wire.state.upcomingKnownEvents)

Request(cutoff, benchmark) == [cutoff |-> cutoff, symbol |-> "AAPL", benchmark |-> benchmark]
MCRequests == {Request(4, "SPY"), Request(5, "SPY"), Request(5, "^GSPC")}

MCRealizedVolatility(closes) == Max(ToSet(closes)) - Min(ToSet(closes))

\* No session on day 7
MCSessions == <<1, 2, 3, 4, 5, 6, 8, 9, 10, 11, 12, 13>>

Bar(id, of, session, revision, close, hash) ==
    [id |-> id, kind |-> "bar", of |-> of, session |-> session, revision |-> revision,
     name |-> IF of = "symbol" THEN session ELSE 100 + session, hash |-> hash, completed |-> TRUE,
     open |-> close, high |-> close + 1, low |-> close - 1, close |-> close, volume |-> 10, available |-> 0,
     rawOpen |-> close - (session % 2), rawClose |-> close]
MCBaseBar(of, session) ==
    IF of = "symbol" THEN Bar(session, of, session, 1, 60 + ((session * session) % 5), 1)
    ELSE Bar(100 + session, of, session, 1, 50 + session, 1)

Action(id, of, type, effective, name) ==
    [id |-> id, kind |-> "action", of |-> of, effective |-> effective, available |-> 0,
     type |-> type, confirmed |-> TRUE, verified |-> TRUE, name |-> name, revision |-> 1,
     hash |-> 2]
Event(id, session, type) ==
    [id |-> id, kind |-> "event", of |-> "symbol", session |-> session, confirmed |-> TRUE,
     type |-> type, name |-> 300, revision |-> 1, hash |-> 1, available |-> 0]

\* A revised bar and one that is not complete, of the cutoff and of a session
\* after it; actions before and after it, one of them with the provenance of a
\* bar; and events, of which one is of no type the request knows.
MCSurprises ==
    {Bar(201, "symbol", 5, 2, 66, 2), [Bar(202, "symbol", 6, 2, 61, 2) EXCEPT !.completed = FALSE],
     Action(203, "symbol", "halt", 6, 203), Action(205, "symbol", "split", 4, 205),
     Action(204, "symbol", "cash_dividend", 3, 3),
     Event(206, 6, "earnings"), Event(207, 8, "other"), Event(208, 6, "trading_halt")}

MCContracts == {[mode |-> "position", horizon |-> 20], [mode |-> "sprint", horizon |-> 1],
                [mode |-> "sprint", horizon |-> 5]}

MCCapital == [cash |-> 1000000, equity |-> 1000000, plannedLoss |-> 0, positions |-> 0]

Direction(c, up, flat, down) ==
    [question |-> "direction",
     answer |-> [type |-> "choice", choice |-> c, confidence |-> 500,
                 probabilities |-> ("up" :> up @@ "flat" :> flat @@ "down" :> down)]]
Score(q, level) ==
    [question |-> q,
     answer |-> [type |-> "score", score |-> level * 1000, confidence |-> 500, legend |-> q,
                 probabilities |-> [l \in ScoreLevels |-> IF l = level THEN 1000 ELSE 0]]]
Reply(d, hazard) ==
    [json |-> TRUE, model |-> "jev", usage |-> TRUE,
     answers |-> <<d, Score("setup_quality", 2), Score("downside_hazard", hazard),
                   Score("evidence_sufficiency", 2)>>]

Rising == Reply(Direction("up", 600, 300, 100), 1)
\* Two directions of the same probability, up to the tolerance, or not
Tied == Reply(Direction("flat", 500, 499, 1), 1)
Untrue == Reply(Direction("up", 200, 300, 500), 2)
Twice == [Rising EXCEPT !.answers = @ \o <<Direction("down", 0, 0, 1000)>>]
Drifted == [Rising EXCEPT !.model = "jev-next"]
MCReplies == {Rising, Tied, Untrue, Twice, Drifted}
=============================================================================
