-------------------------- MODULE MCForecastLedger ---------------------------
(* Values for model-checking ForecastLedger, VisitorLedger and JobAttemptLog. *)
EXTENDS LedgerDatabase, TLC

CONSTANTS s1, s2, v1, v2, c1, c2

Publish(f, key, judgment, ev, body) ==
    [op |-> "publish", f |-> f, key |-> key, judgment |-> judgment, ev |-> ev, body |-> body]
Resolve(f, ev, out, body) == [op |-> "resolve", f |-> f, ev |-> ev, out |-> out, body |-> body]
Void(f, ev, body) == [op |-> "void", f |-> f, ev |-> ev, body |-> body]
Correct(f, ev, cites, out, corrects, body) ==
    [op |-> "correct", f |-> f, ev |-> ev, cites |-> cites, out |-> out,
     corrects |-> corrects, body |-> body]

\* Rival publications, resolutions and a voiding of one forecast, and another
\* whose publication shares its judgment
Rivals ==
    {Publish(1, 1, 1, 1, 1), Publish(1, 1, 2, 3, 2), Publish(2, 2, 2, 2, 1),
     Resolve(1, 4, 1, 1), Resolve(1, 4, 1, 2), Resolve(1, 5, 2, 1), Void(1, 6, 1)}

\* Rival corrections, one that names the outcome of the other forecast, one that
\* corrects a correction, and requests of both forecasts that share their ids
Corrections ==
    {Publish(1, 1, 1, 1, 1), Publish(2, 2, 2, 2, 1),
     Resolve(1, 4, 1, 1), Resolve(2, 5, 1, 1), Resolve(2, 5, 2, 1),
     Correct(2, 6, 5, 3, 1, 1), Correct(1, 6, 4, 3, 1, 1), Correct(1, 7, 4, 4, 1, 1),
     Correct(1, 8, 6, 5, 3, 1)}

\* What another session sends of them
Rejoinders ==
    {r \in Corrections : r.op = "correct" /\ r.ev < 8} \cup {Resolve(2, 5, 1, 1)}

MCRequests == Rivals \cup Corrections

Pick(id, identifier, token, expires, f, choice) ==
    [op |-> "pick", id |-> id, identifier |-> identifier, token |-> token,
     expires |-> expires, f |-> f, choice |-> choice]
Seen(id, identifier, token) ==
    [op |-> "event", id |-> id, identifier |-> identifier, token |-> token, expires |-> 1]
Result(id, pick, out) == [op |-> "result", id |-> id, pick |-> pick, out |-> out]
Purge(id, cutoff) == [op |-> "purge", id |-> id, cutoff |-> cutoff]

\* Visits on one session and on the other.  A visitor picks twice and changes his
\* mind, and a purge takes him; another uses an identifier and the id of a pick
\* that are taken, and is seen twice.
Up == Pick(1, 1, 1, 1, 1, "up")
Picking == <<{Up, Purge(1, 1)}, {Pick(2, 2, 1, 2, 1, "down"), Purge(1, 1)}>>
Sharing == <<{Up, Seen(1, 2, 1)}, {Pick(1, 2, 2, 1, 1, "down"), Seen(1, 2, 1)}>>

\* Rival results of one pick, and one for the outcome of another forecast
Resulting == <<{Up, Result(1, 1, 1)}, {Result(1, 1, 1), Result(2, 1, 3)}>>
Mixing == <<{Up, Result(1, 1, 2)}, {}>>

MCVisits == UNION {Picking[i] \cup Sharing[i] \cup Resulting[i] \cup Mixing[i] : i \in 1..2}

Traffic(first, second, visits) ==
    [requests |-> (s1 :> first) @@ (s2 :> second), visits |-> (v1 :> visits[1]) @@ (v2 :> visits[2])]

First == {Publish(1, 1, 1, 1, 1), Resolve(1, 4, 1, 1)}

MCTraffics ==
    {Traffic({}, {}, <<{}, {}>>),
     Traffic(Rivals, Rivals, <<{}, {}>>),
     Traffic(Corrections, Rejoinders, <<{}, {}>>),
     Traffic(First, {}, Picking),
     Traffic({Publish(1, 1, 1, 1, 1)}, {}, Sharing),
     Traffic(First \cup {Correct(1, 6, 4, 3, 1, 1)}, {}, Resulting),
     Traffic({Publish(1, 1, 1, 1, 1), Publish(2, 2, 2, 2, 1), Resolve(2, 5, 2, 1)}, {}, Mixing)}

Operation(id, key, replayOf) == [op |-> "operation", id |-> id, key |-> key, replayOf |-> replayOf, body |-> 1]
Attempt(id, of, number, ev) == [op |-> "attempt", id |-> id, of |-> of, number |-> number, ev |-> ev, body |-> 1]
Report(ev, attempt, status, error) ==
    [op |-> "report", ev |-> ev, attempt |-> attempt, status |-> status, error |-> error, body |-> 1]

\* Tasks on one session and on the other.  Operations that share a key or an id, a
\* replay of one, and attempts sent before and after them
Submitting ==
    <<{Operation(1, 1, 0), Operation(2, 1, 0), Attempt(1, 1, 1, 1)},
      {Operation(1, 1, 0), Operation(1, 2, 0), Operation(2, 2, 1), Attempt(2, 1, 1, 2)}>>

\* An attempt that one session believes to have failed and the other to have
\* succeeded, retries of it and of what was sent, and an event id used twice
Trying ==
    <<{Operation(1, 1, 0), Attempt(1, 1, 1, 1), Report(2, 1, "evaluating", NoError),
       Report(3, 1, "failed", "timeout"), Report(6, 2, "evaluating", NoError)},
      {Attempt(2, 1, 2, 5), Report(4, 1, "succeeded", NoError), Report(3, 1, "failed", ""),
       Attempt(3, 1, 3, 8), Attempt(3, 1, 2, 2), Report(7, 2, "succeeded", NoError)}>>

MCTasks == UNION {Submitting[i] \cup Trying[i] : i \in 1..2}

Duty(tasks) == (c1 :> tasks[1]) @@ (c2 :> tasks[2])
Idleness == Traffic({}, {}, <<{}, {}>>)

MCDuties == {Duty(<<{}, {}>>), Duty(Submitting), Duty(Trying)}

\* The jobs' transactions meet no other, so there is no need to interleave them.
MCDays ==
    {<<t, Duty(<<{}, {}>>)>> : t \in MCTraffics \ {Idleness}}
    \cup {<<Idleness, d>> : d \in MCDuties \ {Duty(<<{}, {}>>)}}
=============================================================================
