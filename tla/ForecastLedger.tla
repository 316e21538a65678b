---------------------------- MODULE ForecastLedger ---------------------------
(***************************************************************************)
(* The forecasts, events and outcomes of the PostgreSQL ledger (db/        *)
(* migrations/0001_immutable_ledger.up.sql): publish_forecast,             *)
(* resolve_forecast, void_forecast and correct_forecast_outcome with the   *)
(* triggers, unique indexes and row locks behind them.                     *)
(*                                                                         *)
(* A call of one of these functions is a transaction of its own at READ    *)
(* COMMITTED: each statement sees what is committed when it starts and the *)
(* transaction's own rows.  Several sessions run calls at once, lose their *)
(* connection, and send any request again at any time.                     *)
(*                                                                         *)
(* Every row comes from the request that inserted it and the tables are    *)
(* append-only, so the database is the set of requests committed: their    *)
(* rows are in forecasts, forecast_events or forecast_outcomes according   *)
(* to what they ask for.                                                   *)
(*                                                                         *)
(* Waiting and checking for a duplicate is one step, as is a trigger and   *)
(* its insert: what a later commit would refuse is refused either way.     *)
(*                                                                         *)
(* Definitions introduced as "Bug:" are plausible mistakes.  Nothing uses  *)
(* them: they are there to try whether the properties would notice.        *)
(***************************************************************************)
EXTENDS Naturals

CONSTANTS
    Forecasts, Keys, Judgments, EventIds, OutcomeIds, Bodies,
    Requests,  \* bound: the requests clients ever make
    Sessions   \* database sessions

Publication == [op: {"publish"}, f: Forecasts, key: Keys, judgment: Judgments,
                ev: EventIds, body: Bodies]
Resolution == [op: {"resolve"}, f: Forecasts, ev: EventIds, out: OutcomeIds, body: Bodies]
Voiding == [op: {"void"}, f: Forecasts, ev: EventIds, body: Bodies]
Correction == [op: {"correct"}, f: Forecasts, ev: EventIds, cites: EventIds,
               out: OutcomeIds, corrects: OutcomeIds, body: Bodies]

ASSUME RequestsAssumption ==
    Requests \subseteq Publication \cup Resolution \cup Voiding \cup Correction

VARIABLES
    committed,  \* requests whose rows are in the database
    call        \* what each session is doing

vars == <<committed, call>>

\* stage: the next statement of the call; lock: what it holds on the row of its
\* forecast; retry: its request was committed before it began.
Idle == [stage |-> "idle", lock |-> "none", retry |-> FALSE]

Stages == {"insert", "lock", "look", "event", "key", "outcome", "commit",
           "created", "replayed", "refused"}

CallOf(r, stage, lock, retry) == [stage |-> stage, req |-> r, lock |-> lock, retry |-> retry]

Calls == {Idle} \cup [stage: Stages, req: Requests, lock: {"none", "share", "update"},
                      retry: BOOLEAN]

TypeOK ==
    /\ committed \subseteq Requests
    /\ call \in [Sessions -> Calls]

Init ==
    /\ committed = {}
    /\ call = [s \in Sessions |-> Idle]

-----------------------------------------------------------------------------
(* Rows and their unique indexes *)

IsPublication(r) == r.op = "publish"
IsTerminal(r) == r.op \in {"resolve", "void"}
HasOutcome(r) == r.op \in {"resolve", "correct"}

\* forecasts: primary key, publication_key, judgment_id
SameForecast(r, c) ==
    /\ IsPublication(r) /\ IsPublication(c)
    /\ r.f = c.f \/ r.key = c.key \/ r.judgment = c.judgment

\* Bug: forecast_one_terminal_idx is missing.
SameEventLax(r, c) ==
    \/ r.ev = c.ev
    \/ r.f = c.f /\ IsPublication(r) /\ IsPublication(c)

\* forecast_events: primary key, one publication and one terminal event
SameEvent(r, c) ==
    \/ r.ev = c.ev
    \/ r.f = c.f /\ IsPublication(r) /\ IsPublication(c)
    \/ r.f = c.f /\ IsTerminal(r) /\ IsTerminal(c)

\* forecast_outcomes: primary key, one original, one correction of each
SameOutcome(r, c) ==
    /\ HasOutcome(r) /\ HasOutcome(c)
    /\ \/ r.out = c.out
       \/ r.op = "resolve" /\ c.op = "resolve" /\ r.f = c.f
       \/ r.op = "correct" /\ c.op = "correct" /\ r.corrects = c.corrects

Others(s) == {t \in Sessions \ {s} : call[t] # Idle}

\* The rows a session has inserted and not committed yet
InsertedForecast(t) == IsPublication(call[t].req) /\ call[t].stage \in {"event", "commit"}
InsertedEvent(t) == call[t].stage \in {"key", "outcome", "commit"}
InsertedOutcome(t) == HasOutcome(call[t].req) /\ call[t].stage = "commit"

\* An insert waits while a transaction in progress holds a row it clashes with.
WaitsToInsertForecast(s, t) ==
    /\ InsertedForecast(t) /\ SameForecast(call[s].req, call[t].req)
    /\ ~\E c \in committed : IsPublication(c) /\ c.key = call[s].req.key
WaitsToInsertEvent(s, t) == InsertedEvent(t) /\ SameEvent(call[s].req, call[t].req)
WaitsToInsertOutcome(s, t) == InsertedOutcome(t) /\ SameOutcome(call[s].req, call[t].req)

-----------------------------------------------------------------------------
(* Triggers and views *)

PublicationOf(f) == {c \in committed : IsPublication(c) /\ c.f = f}
TerminalOf(f) == {c \in committed : IsTerminal(c) /\ c.f = f}

\* validate_forecast_event
EventIsValid(r) ==
    \/ /\ IsPublication(r)
       /\ PublicationOf(r.f) = {} /\ TerminalOf(r.f) = {}
    \/ /\ IsTerminal(r)
       /\ PublicationOf(r.f) # {} /\ TerminalOf(r.f) = {}
    \/ /\ r.op = "correct"
       /\ PublicationOf(r.f) # {} /\ TerminalOf(r.f) # {}
       /\ \E c \in committed : c.ev = r.cites /\ c.f = r.f

\* Bug: a correction may name an outcome of any forecast.
OutcomeIsValidAnywhere(r) ==
    \/ /\ r.op = "resolve"
       /\ ~\E c \in committed : HasOutcome(c) /\ c.f = r.f
    \/ /\ r.op = "correct"
       /\ \E c \in committed : HasOutcome(c) /\ c.out = r.corrects
       /\ ~\E c \in committed : c.op = "correct" /\ c.corrects = r.corrects

\* validate_forecast_outcome.  The resolved event an original outcome needs is
\* the one this transaction has just inserted.
OutcomeIsValid(r) ==
    \/ /\ r.op = "resolve"
       /\ ~\E c \in committed : HasOutcome(c) /\ c.f = r.f
    \/ /\ r.op = "correct"
       /\ \E c \in committed : HasOutcome(c) /\ c.out = r.corrects /\ c.f = r.f
       /\ ~\E c \in committed : c.op = "correct" /\ c.corrects = r.corrects

\* forecast_current_states
StatusOf(f) ==
    IF \E c \in TerminalOf(f) : c.op = "resolve" THEN "resolved"
    ELSE IF TerminalOf(f) # {} THEN "void"
    ELSE IF PublicationOf(f) # {} THEN "published"
    ELSE "absent"

Superseded == {c.corrects : c \in {d \in committed : d.op = "correct"}}

\* active_forecast_outcomes
ActiveOutcomes(f) ==
    {c.out : c \in {d \in committed : HasOutcome(d) /\ d.f = f}} \ Superseded

-----------------------------------------------------------------------------
(* Steps of a call *)

Goto(s, stage) == call' = [call EXCEPT ![s] = CallOf(call[s].req, stage, call[s].lock, call[s].retry)]
Took(s, stage, lock) == call' = [call EXCEPT ![s] = CallOf(call[s].req, stage, lock, call[s].retry)]

\* Bug: the lock belongs to the session and outlives the transaction.
EndLocked(s, answer) == Goto(s, answer)

\* A transaction that ends gives up its lock.
End(s, answer) == Took(s, answer, "none")

Begin(s, r) ==
    /\ call[s] = Idle
    /\ call' = [call EXCEPT ![s] = CallOf(r, IF IsPublication(r) THEN "insert" ELSE "lock",
                                          "none", r \in committed)]
    /\ UNCHANGED committed

\* publish_forecast: INSERT ... ON CONFLICT (publication_key) DO NOTHING, and the
\* comparison with the forecast that has the key
InsertForecast(s) ==
    LET r == call[s].req
        keyed == {c \in committed : IsPublication(c) /\ c.key = r.key}
    IN  /\ call[s].stage = "insert"
        /\ ~\E t \in Others(s) : WaitsToInsertForecast(s, t)
        /\ \/ /\ keyed # {}
              /\ End(s, IF r \in keyed THEN "replayed" ELSE "refused")
           \/ /\ keyed = {}
              /\ \E c \in committed : SameForecast(r, c)
              /\ End(s, "refused")
           \/ /\ ~\E c \in committed : SameForecast(r, c)
              /\ Goto(s, "event")
        /\ UNCHANGED committed

SameRow(s, t) == call[s].req.f = call[t].req.f

\* Bug: the row to lock is found by the event, so that two calls for the same
\* forecast both believe they have locked it.
WaitsToLockEvent(s, t) ==
    /\ PublicationOf(call[s].req.f) # {}
    /\ call[s].req.ev = call[t].req.ev /\ call[t].lock # "none"

WaitsToLock(s, t) ==
    /\ PublicationOf(call[s].req.f) # {}
    /\ SameRow(s, t) /\ call[t].lock # "none"

\* PERFORM 1 FROM forecasts ... FOR UPDATE.  A forecast whose publication is not
\* committed has no row to lock, and the call goes on without.
LockForecast(s) ==
    /\ call[s].stage = "lock"
    /\ ~\E t \in Others(s) : WaitsToLock(s, t)
    /\ Took(s, "look", IF PublicationOf(call[s].req.f) # {} THEN "update" ELSE "none")
    /\ UNCHANGED committed

\* Bug: the lifecycle is checked before the request is recognised as a replay.
LookTooLate(s) ==
    LET r == call[s].req
    IN  /\ call[s].stage = "look"
        /\ IF EventIsValid(r)
           THEN IF r \in committed THEN End(s, "replayed") ELSE Goto(s, "event")
           ELSE End(s, "refused")
        /\ UNCHANGED committed

\* The SELECTs of existing_event and existing_outcome.  The rows are the
\* request's own if every column agrees: ids, forecast, kind and payload.
LookForReplay(s) ==
    LET r == call[s].req
        event == {c \in committed : c.ev = r.ev}
        outcome == {c \in committed : HasOutcome(r) /\ HasOutcome(c) /\ c.out = r.out}
    IN  /\ call[s].stage = "look"
        /\ IF event = {} /\ outcome = {} THEN Goto(s, "event")
           ELSE IF r \in event /\ (HasOutcome(r) => r \in outcome) THEN End(s, "replayed")
           ELSE End(s, "refused")
        /\ UNCHANGED committed

InsertEvent(s) ==
    LET r == call[s].req
    IN  /\ call[s].stage = "event"
        /\ IF ~EventIsValid(r) \/ \E c \in committed : SameEvent(r, c) THEN End(s, "refused")
           ELSE /\ ~\E t \in Others(s) : WaitsToInsertEvent(s, t)
                /\ Goto(s, IF IsPublication(r) THEN "commit" ELSE "key")
        /\ UNCHANGED committed

WaitsForKey(s, t) == SameRow(s, t) /\ call[t].lock = "update"

\* The foreign key of the event: a KEY SHARE lock on its forecast
ShareForecast(s) ==
    /\ call[s].stage = "key"
    /\ ~\E t \in Others(s) : WaitsForKey(s, t)
    /\ Took(s, IF HasOutcome(call[s].req) THEN "outcome" ELSE "commit",
            IF call[s].lock = "update" THEN "update" ELSE "share")
    /\ UNCHANGED committed

InsertOutcome(s) ==
    LET r == call[s].req
    IN  /\ call[s].stage = "outcome"
        /\ IF ~OutcomeIsValid(r) \/ \E c \in committed : SameOutcome(r, c) THEN End(s, "refused")
           ELSE /\ ~\E t \in Others(s) : WaitsToInsertOutcome(s, t)
                /\ Goto(s, "commit")
        /\ UNCHANGED committed

Commit(s) ==
    /\ call[s].stage = "commit"
    /\ committed' = committed \cup {call[s].req}
    /\ End(s, "created")

\* The client reads the answer, or never sees it.
Answered(s) ==
    /\ call[s].stage \in {"created", "replayed", "refused"}
    /\ call' = [call EXCEPT ![s] = Idle]
    /\ UNCHANGED committed

InProgress(s) == call[s].stage \in Stages \ {"created", "replayed", "refused"}

\* The connection breaks, or the server shuts down: the transaction is undone.
Lose(s) ==
    /\ InProgress(s)
    /\ call' = [call EXCEPT ![s] = Idle]
    /\ UNCHANGED committed

WaitsFor(s, t) ==
    /\ t \in Others(s) /\ InProgress(s)
    /\ CASE call[s].stage = "insert" -> WaitsToInsertForecast(s, t)
         [] call[s].stage = "lock" -> WaitsToLock(s, t)
         [] call[s].stage = "event" ->
              /\ EventIsValid(call[s].req) /\ ~\E c \in committed : SameEvent(call[s].req, c)
              /\ WaitsToInsertEvent(s, t)
         [] call[s].stage = "key" -> WaitsForKey(s, t)
         [] call[s].stage = "outcome" ->
              /\ OutcomeIsValid(call[s].req) /\ ~\E c \in committed : SameOutcome(call[s].req, c)
              /\ WaitsToInsertOutcome(s, t)
         [] OTHER -> FALSE

Deadlocked(s, t) == WaitsFor(s, t) /\ WaitsFor(t, s)

\* The server finds two transactions waiting for each other and undoes one.
BreakDeadlock(s) ==
    /\ \E t \in Sessions : Deadlocked(s, t)
    /\ End(s, "refused")
    /\ UNCHANGED committed

Step(s) ==
    \/ InsertForecast(s) \/ LockForecast(s) \/ LookForReplay(s) \/ InsertEvent(s)
    \/ ShareForecast(s) \/ InsertOutcome(s) \/ Commit(s) \/ BreakDeadlock(s)

Next ==
    \E s \in Sessions :
        \/ \E r \in Requests : Begin(s, r)
        \/ Step(s)
        \/ Answered(s)
        \/ Lose(s)

Spec == Init /\ [][Next]_vars

\* The server runs every transaction that is not waiting, and grants a lock to
\* those that wait for it in turn: who can go on again and again does.
FairSpec == Spec /\ \A s \in Sessions : SF_vars(Step(s))

-----------------------------------------------------------------------------
(* What must hold *)

\* Whatever is sent, at once, again or in any order, a forecast is published,
\* resolved or voided once and has one outcome in force from its resolution on
\* (the views forecast_current_states and active_forecast_outcomes).
History == INSTANCE ForecastHistory
    WITH status <- [f \in Forecasts |-> StatusOf(f)],
         inForce <- [f \in Forecasts |-> ActiveOutcomes(f)],
         retired <- Superseded
HistoryRefined == History!HistorySpec

\* The outcomes of a forecast form one chain: a resolved forecast has one that
\* is active, any other forecast none (read_public_forecasts joins the active
\* outcome and would list a forecast twice or not at all).
OneActiveOutcome ==
    \A f \in Forecasts :
        IF StatusOf(f) = "resolved" THEN \E o \in OutcomeIds : ActiveOutcomes(f) = {o}
        ELSE ActiveOutcomes(f) = {}

\* A request sent again after it was committed is answered as a replay and never
\* refused, even when later requests have changed the forecast since.
RetryIsReplayed ==
    \A s \in Sessions : call[s].retry => call[s].stage \notin {"created", "refused"}

\* Two transactions wait for each other only if one of them began before its
\* forecast's publication was committed and so holds no lock on it.
DeadlockNeedsEarlyCall ==
    \A s, t \in Sessions : Deadlocked(s, t) => \E u \in {s, t} : call[u].lock = "none"

\* No call waits for ever: locks, unique indexes and the breaking of deadlocks
\* between two transactions are enough for all of them.
EveryCallEnds == \A s \in Sessions : []<>~InProgress(s)
=============================================================================
