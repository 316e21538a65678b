----------------------------- MODULE VisitorLedger -----------------------------
(***************************************************************************)
(* Visitors of the PostgreSQL ledger (db/migrations/                       *)
(* 0001_immutable_ledger.up.sql, from line 293 and from line 1743):        *)
(* record_visitor_pick, append_visitor_pick_result, record_analytics_event *)
(* and purge_expired_identifiers, in transactions of their own beside      *)
(* those of ForecastLedger, whose forecasts and outcomes they read, lock   *)
(* and wait for.                                                           *)
(*                                                                         *)
(* As there, each statement sees what is committed when it runs, a call    *)
(* may be lost and sent again at any time, and waiting is one step with    *)
(* what follows it.  An event without consent, which does nothing, and a   *)
(* choice that is none of the three are left out; so is the clock: the     *)
(* cutoff of a purge is its caller's.                                      *)
(*                                                                         *)
(* A behaviour's traffic is what each session ever sends in it.            *)
(* Definitions introduced as "Bug:" are as in ForecastLedger.              *)
(***************************************************************************)
EXTENDS ForecastLedger, FiniteSets

CONSTANTS
    Visits,    \* bound: the requests about visitors ever made
    Visitors,  \* database sessions of these requests
    PickIds, NoPick,
    Traffics   \* bound: what each session sends in a behaviour

Identified == {"pick", "event"}

ASSUME TrafficAssumption ==
    Traffics \subseteq [requests: [Sessions -> SUBSET Requests], visits: [Visitors -> SUBSET Visits]]
ASSUME VisitAssumption == \A r \in Visits : r.op \in Identified \cup {"result", "purge"}
ASSUME PickAssumption == NoPick \notin PickIds

VARIABLES
    identifiers, picks, results, seen, purges,  \* committed rows
    visit,    \* what each session of a visitor is doing
    traffic

rows == <<identifiers, picks, results, seen, purges>>
allVars == <<vars, rows, visit, traffic>>

\* added: the tables this transaction has inserted into; gone: identifiers it has
\* deleted; stable: the pick its identifier names; locked: it has its pick FOR
\* UPDATE.  History: known is the pick its identifier named when it began, unless
\* purged since; retry says that its row was there by then.
Away == [stage |-> "away", added |-> {}, gone |-> {}, locked |-> FALSE]

VisitorInit ==
    /\ Init
    /\ identifiers = {} /\ picks = {} /\ results = {} /\ seen = {} /\ purges = {}
    /\ visit = [v \in Visitors |-> Away]
    /\ traffic \in Traffics

-----------------------------------------------------------------------------
(* Rows *)

\* A pick is its visitor's one for the forecast, an event stands alone.
IdentifierOf(r) ==
    [kind |-> r.op, id |-> r.identifier, token |-> r.token,
     scope |-> IF r.op = "pick" THEN r.f ELSE r.id, record |-> r.id, expires |-> r.expires]

\* private_identifiers: UNIQUE (identifier_kind, token_digest, scope_key)
SameToken(x, y) == x.kind = y.kind /\ x.token = y.token /\ x.scope = y.scope

PickOf(r, id) == [id |-> id, f |-> r.f, choice |-> r.choice]
ResultOf(r) == [id |-> r.id, pick |-> r.pick, out |-> r.out]

\* visitor_pick_results: primary key, one result of a pick
SameResult(x, y) == x.id = y.id \/ x.pick = y.pick

NamedBy(r) == {x.record : x \in {y \in identifiers : SameToken(y, IdentifierOf(r))}}
Only(set) == IF set = {} THEN NoPick ELSE CHOOSE x \in set : TRUE

Elsewhere(v) == {u \in Visitors \ {v} : visit[u] # Away}
Has(u, op, table) == visit[u].req.op = op /\ table \in visit[u].added

-----------------------------------------------------------------------------
(* Steps *)

\* Where v goes on, with what it has done in this step
Then(v, stage) == [visit[v] EXCEPT !.stage = stage]
GoOn(v, w) == visit' = [visit EXCEPT ![v] = w] /\ UNCHANGED <<vars, rows, traffic>>

\* A transaction that ends gives up its locks, and what it did if it failed.
Finished(v, answer) == [Then(v, answer) EXCEPT !.added = {}, !.gone = {}, !.locked = FALSE]

Visit(v, r) ==
    /\ visit[v] = Away
    /\ GoOn(v, [stage |-> CASE r.op \in Identified -> "identify"
                             [] r.op = "result" -> "lock"
                             [] r.op = "purge" -> "delete",
                req |-> r, added |-> {}, gone |-> {}, locked |-> FALSE, stable |-> NoPick,
                known |-> IF r.op = "pick" THEN Only(NamedBy(r)) ELSE NoPick,
                retry |-> r.op = "result" /\ ResultOf(r) \in results])

\* INSERT INTO private_identifiers ... ON CONFLICT (kind, digest, scope) DO NOTHING
WaitsToIdentify(v, u) ==
    LET new == IdentifierOf(visit[v].req)
        touched == visit[u].gone \cup
                   (IF "identifier" \in visit[u].added THEN {IdentifierOf(visit[u].req)} ELSE {})
    IN  \E x \in touched :
            SameToken(x, new) \/ (x.id = new.id /\ NamedBy(visit[v].req) = {})

Identify(v) ==
    LET r == visit[v].req
        next == IF r.op = "pick" THEN "find" ELSE "event"
    IN  /\ visit[v].stage = "identify"
        /\ ~\E u \in Elsewhere(v) : WaitsToIdentify(v, u)
        /\ GoOn(v, IF NamedBy(r) # {} THEN Then(v, next)
                   ELSE IF \E x \in identifiers : x.id = r.identifier THEN Finished(v, "refused")
                   ELSE [Then(v, next) EXCEPT !.added = {"identifier"}])

\* Bug: the pick is recorded under the id of this request.
FindOwn(v) ==
    /\ visit[v].stage = "find"
    /\ GoOn(v, [Then(v, "pick") EXCEPT !.stable = visit[v].req.id])

\* SELECT record_id INTO stable_pick_id: nothing, if it was purged since
FindStable(v) ==
    /\ visit[v].stage = "find"
    /\ GoOn(v, [Then(v, "pick") EXCEPT !.stable =
                    IF "identifier" \in visit[v].added THEN visit[v].req.id
                    ELSE Only(NamedBy(visit[v].req))])

WaitsToPick(v, u) == Has(u, "pick", "pick") /\ visit[u].stable = visit[v].stable

\* INSERT INTO visitor_picks ... ON CONFLICT DO NOTHING, whose id is not null
InsertPick(v) ==
    /\ visit[v].stage = "pick"
    /\ IF visit[v].stable = NoPick THEN GoOn(v, Finished(v, "refused"))
       ELSE /\ ~\E u \in Elsewhere(v) : WaitsToPick(v, u)
            /\ GoOn(v, IF \E p \in picks : p.id = visit[v].stable THEN Then(v, "commit")
                       ELSE [Then(v, "key") EXCEPT !.added = @ \cup {"pick"}])

\* The foreign key of the pick: a KEY SHARE lock on its forecast
WaitsForForecast(v, s) == call[s] # Idle /\ call[s].lock = "update" /\ call[s].req.f = visit[v].req.f

ShareForecastOfPick(v) ==
    /\ visit[v].stage = "key"
    /\ IF PublicationOf(visit[v].req.f) = {} THEN GoOn(v, Finished(v, "refused"))
       ELSE /\ ~\E s \in Sessions : WaitsForForecast(v, s)
            /\ GoOn(v, Then(v, "commit"))

\* INSERT INTO analytics_events ... ON CONFLICT (id) DO NOTHING
WaitsToNote(v, u) == Has(u, "event", "event") /\ visit[u].req.id = visit[v].req.id

InsertEventSeen(v) ==
    /\ visit[v].stage = "event"
    /\ ~\E u \in Elsewhere(v) : WaitsToNote(v, u)
    /\ GoOn(v, IF visit[v].req.id \in seen THEN Then(v, "commit")
               ELSE [Then(v, "commit") EXCEPT !.added = @ \cup {"event"}])

\* PERFORM 1 FROM visitor_picks ... FOR UPDATE, which a foreign key holds as well
HoldsPick(u, id) ==
    /\ visit[u].req.op = "result" /\ visit[u].req.pick = id
    /\ visit[u].locked \/ (visit[u].stage = "commit" /\ "result" \in visit[u].added)
Recorded(id) == \E p \in picks : p.id = id
WaitsToLockPick(v, u) == Recorded(visit[v].req.pick) /\ HoldsPick(u, visit[v].req.pick)

LockPick(v) ==
    /\ visit[v].stage = "lock"
    /\ ~\E u \in Elsewhere(v) : WaitsToLockPick(v, u)
    /\ GoOn(v, [Then(v, "active") EXCEPT !.locked = Recorded(visit[v].req.pick)])

\* Bug: any active outcome will do.
IsActiveAnywhere(r) == \E p \in picks : p.id = r.pick /\ \E f \in Forecasts : r.out \in ActiveOutcomes(f)

\* The join of the pick with the active outcomes of its forecast
IsActiveForPick(r) == \E p \in picks : p.id = r.pick /\ r.out \in ActiveOutcomes(p.f)

CheckActive(v) ==
    /\ visit[v].stage = "active"
    /\ GoOn(v, IF IsActiveForPick(visit[v].req) THEN Then(v, "look") ELSE Finished(v, "refused"))

\* Bug: a result that is there is compared by its pick only.
LookForPick(v) ==
    /\ visit[v].stage = "look"
    /\ LET there == {x \in results : x.pick = visit[v].req.pick}
       IN  GoOn(v, IF there = {} THEN Then(v, "result")
                   ELSE Finished(v, "replayed"))

\* SELECT * INTO existing: the result is there, another is, or none.
LookForResult(v) ==
    /\ visit[v].stage = "look"
    /\ LET there == {x \in results : SameResult(x, ResultOf(visit[v].req))}
       IN  GoOn(v, IF there = {} THEN Then(v, "result")
                   ELSE Finished(v, IF there = {ResultOf(visit[v].req)} THEN "replayed" ELSE "refused"))

WaitsToInsertResult(v, u) ==
    Has(u, "result", "result") /\ SameResult(ResultOf(visit[u].req), ResultOf(visit[v].req))

InsertResult(v) ==
    /\ visit[v].stage = "result"
    /\ IF \E x \in results : SameResult(x, ResultOf(visit[v].req)) THEN GoOn(v, Finished(v, "refused"))
       ELSE /\ ~\E u \in Elsewhere(v) : WaitsToInsertResult(v, u)
            /\ GoOn(v, [Then(v, "share") EXCEPT !.added = {"result"}])

\* The foreign key of the result: a KEY SHARE lock on its pick
WaitsToSharePick(v, u) ==
    visit[u].req.op = "result" /\ visit[u].locked /\ visit[u].req.pick = visit[v].req.pick

SharePick(v) ==
    /\ visit[v].stage = "share"
    /\ ~\E u \in Elsewhere(v) : WaitsToSharePick(v, u)
    /\ GoOn(v, Then(v, "commit"))

\* DELETE FROM private_identifiers WHERE expires_at <= p_cutoff_at
Expired(r) == {x \in identifiers : x.expires <= r.cutoff}
WaitsToDelete(v, u) == visit[u].gone \cap Expired(visit[v].req) # {}

DeleteExpired(v) ==
    /\ visit[v].stage = "delete"
    /\ ~\E u \in Elsewhere(v) : WaitsToDelete(v, u)
    /\ GoOn(v, [Then(v, "run") EXCEPT !.gone = Expired(visit[v].req)])

WaitsToInsertRun(v, u) == Has(u, "purge", "run") /\ visit[u].req.id = visit[v].req.id

InsertRun(v) ==
    /\ visit[v].stage = "run"
    /\ IF visit[v].req.id \in purges THEN GoOn(v, Finished(v, "refused"))
       ELSE /\ ~\E u \in Elsewhere(v) : WaitsToInsertRun(v, u)
            /\ GoOn(v, [Then(v, "commit") EXCEPT !.added = {"run"}])

\* The rows become visible together, and who was purged is known no more.
CommitVisit(v) ==
    LET w == visit[v]
        Added(table, row) == IF table \in w.added THEN {row} ELSE {}
        forgotten(u) == visit[u] # Away /\ visit[u].req.op = "pick"
                        /\ \E x \in w.gone : SameToken(x, IdentifierOf(visit[u].req))
    IN  /\ w.stage = "commit"
        /\ identifiers' = (identifiers \ w.gone) \cup
               (IF "identifier" \in w.added THEN {IdentifierOf(w.req)} ELSE {})
        /\ picks' = picks \cup (IF "pick" \in w.added THEN {PickOf(w.req, w.stable)} ELSE {})
        /\ results' = results \cup (IF "result" \in w.added THEN {ResultOf(w.req)} ELSE {})
        /\ seen' = seen \cup Added("event", w.req.id)
        /\ purges' = purges \cup Added("run", w.req.id)
        /\ visit' = [u \in Visitors |->
               IF u = v THEN Finished(v, IF w.added \ {"identifier"} = {} THEN "replayed" ELSE "created")
               ELSE IF forgotten(u) THEN [visit[u] EXCEPT !.known = NoPick]
               ELSE visit[u]]
        /\ UNCHANGED <<vars, traffic>>

Answers == {"created", "replayed", "refused"}

InVisit(v) == visit[v].stage \notin Answers \cup {"away"}

AnsweredVisit(v) == visit[v].stage \in Answers /\ GoOn(v, Away)

LoseVisit(v) == InVisit(v) /\ GoOn(v, Away)

\* Two results of one pick are all that can wait for each other: the one that
\* waits to insert and the one that waits to share.
Crossed(v, u) ==
    /\ visit[v].stage = "share" /\ WaitsToSharePick(v, u)
    /\ visit[u].stage = "result" /\ WaitsToInsertResult(u, v)

BreakVisit(v) ==
    /\ InVisit(v)
    /\ \E u \in Elsewhere(v) : Crossed(v, u) \/ Crossed(u, v)
    /\ GoOn(v, Finished(v, "refused"))

VisitStep(v) ==
    \/ Identify(v) \/ FindStable(v) \/ InsertPick(v) \/ ShareForecastOfPick(v)
    \/ InsertEventSeen(v)
    \/ LockPick(v) \/ CheckActive(v) \/ LookForResult(v) \/ InsertResult(v) \/ SharePick(v)
    \/ DeleteExpired(v) \/ InsertRun(v)
    \/ CommitVisit(v) \/ BreakVisit(v)

-----------------------------------------------------------------------------
(* Both together *)

\* SELECT ... FOR UPDATE of a forecast waits for the picks that share it.
SharedByPick(s) ==
    /\ call[s].stage = "lock" /\ PublicationOf(call[s].req.f) # {}
    /\ \E u \in Visitors : visit[u].stage = "commit" /\ Has(u, "pick", "pick")
                           /\ visit[u].req.f = call[s].req.f

StepBesideVisits(s) == ~SharedByPick(s) /\ Step(s) /\ UNCHANGED <<rows, visit, traffic>>

VisitorNext ==
    \/ \E s \in Sessions :
          /\ (\E r \in traffic.requests[s] : Begin(s, r)) \/ Answered(s) \/ Lose(s)
          /\ UNCHANGED <<rows, visit, traffic>>
    \/ \E s \in Sessions : StepBesideVisits(s)
    \/ \E v \in Visitors :
          \/ \E r \in traffic.visits[v] : Visit(v, r)
          \/ VisitStep(v) \/ AnsweredVisit(v) \/ LoseVisit(v)

VisitorSpec == VisitorInit /\ [][VisitorNext]_allVars

-----------------------------------------------------------------------------
(* What must hold *)

\* A visitor who has picked and was not purged since is answered with that pick,
\* whatever he sends; a purge, and nothing else, makes a new one possible.
PicksAreFrozen ==
    /\ \A x \in identifiers : x.kind = "pick" => Recorded(x.record)
    /\ \A v \in Visitors :
          visit[v] # Away /\ visit[v].known # NoPick /\ visit[v].stage \in Answers =>
              visit[v].stage = "replayed" /\ visit[v].stable = visit[v].known

\* A result that is accepted is on record as it was sent, and one that was there is
\* found, unless its outcome has been corrected since: then it is refused, since
\* the function asks for the active outcome first.
ResultsAreReplayed ==
    \A v \in Visitors :
        visit[v] # Away /\ visit[v].req.op = "result" /\ visit[v].stage \in Answers =>
            /\ visit[v].stage # "refused" => ResultOf(visit[v].req) \in results
            /\ visit[v].retry => visit[v].stage = "replayed" \/ visit[v].req.out \in Superseded

\* visitor_pick_current_results shows each result once, against the outcome in
\* force, and a pick has one result: what was recorded is an outcome of its forecast.
ResultsAreShown ==
    \A x \in results :
        /\ \A y \in results : SameResult(x, y) => x = y
        /\ \E p \in picks :
              /\ p.id = x.pick
              /\ \E c \in committed : HasOutcome(c) /\ c.f = p.f /\ c.out = x.out
              /\ Cardinality(ActiveOutcomes(p.f)) = 1

\* Visitors, results and purges among themselves and beside the forecasts'
\* transactions: repetitions agree and what is shown is whole.
VisitsAgree == PicksAreFrozen /\ ResultsAreReplayed /\ ResultsAreShown
=============================================================================
