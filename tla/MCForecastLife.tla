---------------------------- MODULE MCForecastLife ----------------------------
EXTENDS ForecastLife, TLC

Source(n, revision, available) == [name |-> n, revision |-> revision, available |-> available]
Snapshot(id, close, sources) ==
    [op |-> "snapshot", id |-> id, symbol |-> "A", cutoff |-> 1, knowledge |-> 3, fetched |-> 2,
     updated |-> 1, session |-> 1, sources |-> sources, close |-> close]
Judgment(id, s, p) ==
    [op |-> "judgment", id |-> id, snapshot |-> s, version |-> "m1",
     probabilities |-> ("up" :> p @@ "flat" :> 8 - p @@ "down" :> 2)]
Decision(id, j, action) ==
    [op |-> "decision", id |-> id, judgment |-> j, policy |-> "v1", action |-> action]
Publish(id, key, s, j, d) ==
    [op |-> "publish", id |-> id, key |-> key, snapshot |-> s, judgment |-> j, decision |-> d,
     symbol |-> "A", cutoff |-> 1, session |-> 1, version |-> "m1", policy |-> "v1",
     horizon |-> 5, mode |-> "sprint"]

Bars == {Source(1, 1, 1)}
Chain(f) == {Snapshot(f, 1000 * f, Bars), Judgment(f, f, 2 + 2 * f), Decision(f, f, "up"),
             Publish(f, f, f, f, f)}
MCPublications == Chain(1) \cup Chain(2)

\* Requests that use each other's ids, content, keys and judgments
Rivals ==
    Chain(1) \cup
    {Snapshot(1, 2000, Bars), Snapshot(2, 1000, Bars), Snapshot(3, 3000, {Source(1, 1, 3)}),
     Judgment(1, 1, 6), Judgment(2, 1, 4),
     Decision(2, 1, "up"), Decision(2, 2, "up"), Decision(1, 2, "up"),
     Publish(2, 1, 1, 1, 1), Publish(2, 2, 1, 1, 1), Publish(2, 2, 1, 2, 2), Publish(1, 3, 1, 2, 2)}

Event(id, f, type, cites) ==
    [id |-> id, forecast |-> f, type |-> type, cites |-> cites, valid |-> TRUE]
Outcome(id, f, label, corrects, valid) ==
    [id |-> id, forecast |-> f, label |-> label, value |-> 0, corrects |-> corrects,
     valid |-> valid]
Settlement(op, e, o) == [op |-> op, event |-> e, outcome |-> o]

Endings ==
    MCPublications \cup
    {Settlement("resolve", Event(1, 1, "resolved", None), Outcome(1, 1, "up", None, TRUE)),
     Settlement("resolve", Event(1, 1, "resolved", None), Outcome(2, 1, "up", None, TRUE)),
     Settlement("resolve", Event(2, 1, "resolved", None), Outcome(2, 2, "up", None, TRUE)),
     Settlement("resolve", Event(3, 2, "resolved", None), Outcome(3, 2, "up", None, FALSE)),
     Settlement("resolve", Event(3, 2, "resolved", None), Outcome(3, 2, "flat", None, TRUE)),
     [op |-> "void", event |-> Event(4, 2, "void", None)],
     [op |-> "void", event |-> Event(1, 1, "void", None)],
     Settlement("correct", Event(5, 1, "correction", 1), Outcome(5, 1, "down", 1, TRUE)),
     Settlement("correct", Event(6, 1, "correction", 1), Outcome(6, 2, "down", 3, TRUE))}

Attempt(id, n, status) ==
    [op |-> "attempt", id |-> id, key |-> 1, number |-> n, status |-> status, valid |-> TRUE]
Attempted == {Attempt(1, 1, "failed"), Attempt(2, 2, "failed"), Attempt(3, 2, "succeeded"),
              Attempt(4, 3, "succeeded"), Attempt(5, 4, "failed"), Attempt(1, 2, "failed"),
              Attempt(6, 1, "succeeded")}

Pick(id, token, expires) ==
    [op |-> "pick", id |-> id, forecast |-> 1, token |-> token, choice |-> "up",
     expires |-> expires]
Seen(id, token, consent) ==
    [op |-> "analytics", id |-> id, event |-> "view", token |-> token, consent |-> consent,
     expires |-> 5]
Visits == Chain(1) \cup {Pick(1, 1, 1), Pick(2, 1, 5), Pick(2, 2, 5), Pick(3, 2, 2),
                         Seen(1, 1, TRUE), Seen(1, 2, TRUE), Seen(2, 1, FALSE)}

MCRepertoires == {MCPublications, Rivals, Endings, Attempted, Visits}

\* The first is flat (up to 15 of 1000) or up by its bar, or halted; the second
\* is delisted.
MCValues == 1 :> {1015, 1016} @@ 2 :> {}

Lost == [type |-> "halt", effective |-> 3, official |-> NoValue, lastValue |-> NoValue]
Paid == [type |-> "delisting", effective |-> 3, official |-> 0, lastValue |-> NoValue]
MCLifecycles == 1 :> {Lost} @@ 2 :> {Paid}

Other(id, cohort, lifecycle, attestation, date, confidence) ==
    [id |-> id, cohort |-> cohort, lifecycle |-> lifecycle, attestation |-> attestation,
     forecast |-> TRUE,
     history |-> IF lifecycle = "resolved"
                 THEN {[id |-> id, label |-> "up", active |-> TRUE, corrects |-> FALSE]} ELSE {},
     date |-> {date}, horizon |-> 1, mode |-> "sprint", action |-> "pass", model |-> "m1",
     policy |-> "v1",
     probabilities |-> ("up" :> confidence @@ "flat" :> 10 - confidence @@ "down" :> 0),
     trailing |-> 1, band |-> 0]
MCOthers == {Other(-1, "prospective", "resolved", "timely", 2, 5),
             Other(-2, "prospective", "resolved", "timely", 3, 10),
             Other(-3, "prospective", "failed", "timely", 2, 5),
             Other(-4, "fixture", "resolved", "timely", 2, 5),
             Other(-5, "prospective", "resolved", "late", 2, 5)}
=============================================================================
