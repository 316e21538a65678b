----------------------------- MODULE JobAttemptLog -----------------------------
(***************************************************************************)
(* The log of jobs in the PostgreSQL ledger (db/migrations/                *)
(* 0001_immutable_ledger.up.sql, from lines 249, 575 and 1598):            *)
(* append_job_operation, append_job_attempt and append_job_attempt_event,  *)
(* statement by statement, with their triggers, locks and unique indexes.  *)
(* A call is a transaction, as in ForecastLedger; it may be lost at any    *)
(* statement and sent again at any time.                                   *)
(*                                                                         *)
(* What an attempt has come to is, for the triggers, its latest event by   *)
(* created_at, and by id among equals.  That is clock_timestamp(), which   *)
(* may be set back: an event then takes an earlier place (`setback`).      *)
(***************************************************************************)
EXTENDS Naturals, FiniteSets, SequencesExt

CONSTANTS
    Tasks,      \* bound: the requests about jobs ever made
    Clerks,     \* database sessions of these requests
    AttemptIds, NoOperation,
    Duties,     \* bound: what each session sends in a behaviour
    MaxSetbacks \* bound: attempts with an event that takes an earlier place

NoError == "none"

ASSUME DutyAssumption == Duties \subseteq [Clerks -> SUBSET Tasks]
ASSUME TaskAssumption ==
    \A r \in Tasks :
        \/ r.op = "operation"
        \/ r.op = "attempt" /\ r.id \in AttemptIds /\ r.number \in Nat
        \/ r.op = "report" /\ r.attempt \in AttemptIds

VARIABLES
    operations, attempts, \* committed rows
    timeline,  \* the committed events of each attempt, as created_at orders them
    task,      \* what each session is doing
    setback,   \* attempts an event of which is not in its place
    duty

jobVars == <<operations, attempts, timeline, task, setback, duty>>

\* held: it has the row of its operation or attempt FOR UPDATE; place: of its event.
\* History: retry says that its row was there when it began.
Free == [stage |-> "free", held |-> FALSE]

JobsInit ==
    /\ operations = {} /\ attempts = {}
    /\ timeline = [a \in AttemptIds |-> <<>>]
    /\ task = [c \in Clerks |-> Free]
    /\ setback = {}
    /\ duty \in Duties

-----------------------------------------------------------------------------
(* Rows and their unique indexes *)

OperationOf(r) == [id |-> r.id, key |-> r.key, replayOf |-> r.replayOf, body |-> r.body]
AttemptOf(r) == [id |-> r.id, op |-> r.of, number |-> r.number]

\* The event of an attempt's scheduling, or of a report about it
NoteOf(r) ==
    IF r.op = "attempt" THEN [id |-> r.ev, attempt |-> r.id, status |-> "scheduled",
                              error |-> NoError, body |-> r.body]
    ELSE [id |-> r.ev, attempt |-> r.attempt, status |-> r.status, error |-> r.error, body |-> r.body]

Ends == {"succeeded", "failed"}

SameOperation(x, y) == x.id = y.id \/ x.key = y.key
SameAttempt(x, y) == x.id = y.id \/ (x.op = y.op /\ x.number = y.number)

\* Bug: job_attempt_one_terminal_idx is missing.
SameNoteLax(x, y) == x.id = y.id \/ (x.attempt = y.attempt /\ x.status = y.status)

\* job_attempt_events: primary key, one event of each status and one terminal event
SameNote(x, y) ==
    \/ x.id = y.id
    \/ x.attempt = y.attempt /\ (x.status = y.status \/ {x.status, y.status} \subseteq Ends)

Notes == UNION {{timeline[a][i] : i \in DOMAIN timeline[a]} : a \in AttemptIds}

\* The event the triggers take for the present one
StatusOfAttempt(a) == IF timeline[a] = <<>> THEN "none" ELSE Last(timeline[a]).status

OthersBusy(c) == {d \in Clerks \ {c} : task[d] # Free}
Doing(d, op, stages) == task[d].stage \in stages /\ task[d].req.op = op

-----------------------------------------------------------------------------
(* Steps *)

Turn(c, stage) == [task[c] EXCEPT !.stage = stage]
Proceed(c, t) == task' = [task EXCEPT ![c] = t] /\ UNCHANGED <<operations, attempts, timeline, setback, duty>>

\* A transaction that ends gives up its locks.
Over(c, answer) == [Turn(c, answer) EXCEPT !.held = FALSE]

IsLogged(r) ==
    CASE r.op = "operation" -> OperationOf(r) \in operations
      [] r.op = "attempt" -> AttemptOf(r) \in attempts /\ NoteOf(r) \in Notes
      [] r.op = "report" -> NoteOf(r) \in Notes

Send(c, r) ==
    /\ task[c] = Free
    /\ Proceed(c, [stage |-> IF r.op = "operation" THEN "advise" ELSE "lock", req |-> r,
                   held |-> FALSE, place |-> 0, retry |-> IsLogged(r)])

\* append_job_operation: pg_advisory_xact_lock of the operation key
HoldsKey(d, key) == Doing(d, "operation", {"look", "insert", "parent", "commit"}) /\ task[d].req.key = key

AdviseKey(c) ==
    /\ task[c].stage = "advise"
    /\ ~\E d \in OthersBusy(c) : HoldsKey(d, task[c].req.key)
    /\ Proceed(c, Turn(c, "look"))

\* The row found by id or key is the request's own, another's, or there is none.
LookForOperation(c) ==
    /\ Doing(c, "operation", {"look"})
    /\ LET there == {x \in operations : SameOperation(x, OperationOf(task[c].req))}
       IN  Proceed(c, IF there = {} THEN Turn(c, "insert")
                      ELSE Over(c, IF OperationOf(task[c].req) \in there THEN "replayed" ELSE "refused"))

InsertedOperation(d) == Doing(d, "operation", {"parent", "commit"})

WaitsToInsertOperation(c, d) ==
    InsertedOperation(d) /\ SameOperation(OperationOf(task[d].req), OperationOf(task[c].req))

InsertOperation(c) ==
    LET r == task[c].req
    IN  /\ task[c].stage = "insert"
        /\ IF \E x \in operations : SameOperation(x, OperationOf(r)) THEN Proceed(c, Over(c, "refused"))
           ELSE /\ ~\E d \in OthersBusy(c) : WaitsToInsertOperation(c, d)
                /\ Proceed(c, Turn(c, IF r.replayOf = NoOperation THEN "commit" ELSE "parent"))

\* The row of an operation or attempt, which is there once it is committed
IsOperation(id) == \E x \in operations : x.id = id
IsAttempt(id) == \E x \in attempts : x.id = id

LocksOperation(d, id) == task[d].req.op = "attempt" /\ task[d].held /\ task[d].req.of = id
SharesOperation(d, id) ==
    \/ Doing(d, "attempt", {"scheduled", "commit"}) /\ task[d].req.of = id
    \/ Doing(d, "operation", {"commit"}) /\ task[d].req.replayOf = id

\* The foreign key of replay_of_operation_id: a KEY SHARE lock
ShareParent(c) ==
    LET parent == task[c].req.replayOf
    IN  /\ task[c].stage = "parent"
        /\ IF ~IsOperation(parent) THEN Proceed(c, Over(c, "refused"))
           ELSE /\ ~\E d \in OthersBusy(c) : LocksOperation(d, parent)
                /\ Proceed(c, Turn(c, "commit"))

\* PERFORM 1 FROM job_operations ... FOR UPDATE, by the function and by its trigger,
\* and the same for job_attempts: a row that is not committed is not locked.
HasRow(r) == IF r.op = "attempt" THEN IsOperation(r.of) ELSE IsAttempt(r.attempt)

WaitsToLockRow(c, d) ==
    LET r == task[c].req
    IN  HasRow(r) /\ IF r.op = "attempt" THEN LocksOperation(d, r.of) \/ SharesOperation(d, r.of)
                     ELSE task[d].req.op = "report" /\ task[d].held /\ task[d].req.attempt = r.attempt

LockRow(c) ==
    /\ task[c].stage \in {"lock", "again"}
    /\ ~\E d \in OthersBusy(c) : WaitsToLockRow(c, d)
    /\ Proceed(c, [Turn(c, IF task[c].stage = "lock" THEN "look" ELSE "append")
                   EXCEPT !.held = HasRow(task[c].req)])

\* append_job_attempt: the attempt of this id or number is the request's own, with
\* its scheduled event, another's, or there is none.
LookForAttempt(c) ==
    /\ Doing(c, "attempt", {"look"})
    /\ LET there == {x \in attempts : SameAttempt(x, AttemptOf(task[c].req))}
       IN  Proceed(c, IF there = {} THEN Turn(c, "again")
                      ELSE Over(c, IF IsLogged(task[c].req) THEN "replayed" ELSE "refused"))

OfOperation(op) == {x \in attempts : x.op = op}

\* Bug: a failed attempt, not the latest one, is what allows a retry.
FollowsAnyFailure(r) ==
    LET mine == OfOperation(r.of)
    IN  IF mine = {} THEN r.number = 1
        ELSE /\ \E x \in mine : StatusOfAttempt(x.id) = "failed"
             /\ \E x \in mine : r.number = x.number + 1

\* validate_job_attempt
FollowsFailure(r) ==
    LET mine == OfOperation(r.of)
    IN  IF mine = {} THEN r.number = 1
        ELSE \E x \in mine :
                /\ \A y \in mine : y.number <= x.number
                /\ StatusOfAttempt(x.id) = "failed" /\ r.number = x.number + 1

WaitsToInsertAttempt(c, d) ==
    /\ Doing(d, "attempt", {"key", "scheduled", "commit"})
    /\ SameAttempt(AttemptOf(task[d].req), AttemptOf(task[c].req))

InsertAttempt(c) ==
    LET r == task[c].req
    IN  /\ Doing(c, "attempt", {"append"})
        /\ IF ~FollowsFailure(r) \/ \E x \in attempts : SameAttempt(x, AttemptOf(r))
           THEN Proceed(c, Over(c, "refused"))
           ELSE /\ ~\E d \in OthersBusy(c) : WaitsToInsertAttempt(c, d)
                /\ Proceed(c, Turn(c, "key"))

\* The foreign key of the attempt: a KEY SHARE lock on its operation
ShareOperation(c) ==
    LET op == task[c].req.of
    IN  /\ task[c].stage = "key"
        /\ IF ~IsOperation(op) THEN Proceed(c, Over(c, "refused"))
           ELSE /\ ~\E d \in OthersBusy(c) : LocksOperation(d, op)
                /\ Proceed(c, Turn(c, "scheduled"))

InsertedNote(d) == task[d].req.op # "operation" /\ task[d].stage = "commit"
WaitsToInsertNote(c, d) == InsertedNote(d) /\ SameNote(NoteOf(task[d].req), NoteOf(task[c].req))

\* created_at is the last of its attempt, or an earlier one if the clock was set back.
Places(a) ==
    LET latest == Len(timeline[a]) + 1
    IN  {latest} \cup (IF Cardinality(setback \cup {a}) <= MaxSetbacks THEN 1..latest ELSE {})

InsertNote(c, stage) ==
    LET note == NoteOf(task[c].req)
    IN  /\ task[c].stage = stage
        /\ IF \E x \in Notes : SameNote(x, note) THEN Proceed(c, Over(c, "refused"))
           ELSE /\ ~\E d \in OthersBusy(c) : WaitsToInsertNote(c, d)
                /\ \E i \in Places(note.attempt) :
                      Proceed(c, [Turn(c, "commit") EXCEPT !.place = i])

InsertScheduled(c) == InsertNote(c, "scheduled")

\* Bug: the lifecycle is checked before the report is recognised as a replay.
LookForReportLate(c) ==
    /\ Doing(c, "report", {"look"})
    /\ LET r == task[c].req
       IN  Proceed(c, IF StatusOfAttempt(r.attempt) \in Ends THEN Over(c, "refused")
                      ELSE IF NoteOf(r) \in Notes THEN Over(c, "replayed")
                      ELSE Turn(c, "again"))

\* append_job_attempt_event: of the event with this id, every column is compared,
\* but the error code with NULLIF(errorCode, ''), which is not what was inserted.
LookForReport(c) ==
    /\ Doing(c, "report", {"look"})
    /\ LET r == task[c].req
           there == {x \in Notes : x.id = r.ev}
           compared == [NoteOf(r) EXCEPT !.error = IF @ = "" THEN NoError ELSE @]
       IN  Proceed(c, IF there = {} THEN Turn(c, "again")
                      ELSE Over(c, IF there = {compared} THEN "replayed" ELSE "refused"))

\* validate_job_attempt_event
FollowsStatus(r) ==
    LET status == StatusOfAttempt(r.attempt)
    IN  \/ status = "scheduled" /\ r.status = "evaluating"
        \/ status = "evaluating" /\ r.status \in Ends

\* The trigger, the check of the error code, and the insertion
InsertReport(c) ==
    LET r == task[c].req
        valid == FollowsStatus(r) /\ (r.status = "failed") = (r.error # NoError)
    IN  /\ Doing(c, "report", {"append"})
        /\ IF ~valid THEN Proceed(c, Over(c, "refused"))
           ELSE InsertNote(c, "append")

CommitTask(c) ==
    LET r == task[c].req
        note == NoteOf(r)
        place == task[c].place
    IN  /\ task[c].stage = "commit"
        /\ task' = [task EXCEPT ![c] = Over(c, "created")]
        /\ operations' = operations \cup (IF r.op = "operation" THEN {OperationOf(r)} ELSE {})
        /\ attempts' = attempts \cup (IF r.op = "attempt" THEN {AttemptOf(r)} ELSE {})
        /\ IF r.op = "operation" THEN UNCHANGED <<timeline, setback>>
           ELSE /\ timeline' = [timeline EXCEPT ![note.attempt] = InsertAt(@, place, note)]
                /\ setback' = setback \cup
                       (IF place <= Len(timeline[note.attempt]) THEN {note.attempt} ELSE {})
        /\ UNCHANGED duty

TaskAnswers == {"created", "replayed", "refused"}
AtWork(c) == task[c].stage \notin TaskAnswers \cup {"free"}

AnsweredTask(c) == task[c].stage \in TaskAnswers /\ Proceed(c, Free)
LoseTask(c) == AtWork(c) /\ Proceed(c, Free)

\* Two attempts of an operation are all that can wait for each other: one began
\* before the operation was committed and has no lock, the other has.
Cycle(c, d) ==
    /\ task[c].stage = "key" /\ LocksOperation(d, task[c].req.of)
    /\ Doing(d, "attempt", {"append"}) /\ WaitsToInsertAttempt(d, c)

BreakCycle(c) ==
    /\ AtWork(c)
    /\ \E d \in OthersBusy(c) : Cycle(c, d) \/ Cycle(d, c)
    /\ Proceed(c, Over(c, "refused"))

TaskStep(c) ==
    \/ AdviseKey(c) \/ LookForOperation(c) \/ InsertOperation(c) \/ ShareParent(c)
    \/ LockRow(c) \/ LookForAttempt(c) \/ InsertAttempt(c) \/ ShareOperation(c) \/ InsertScheduled(c)
    \/ LookForReport(c) \/ InsertReport(c)
    \/ CommitTask(c) \/ BreakCycle(c)

JobsNext ==
    \E c \in Clerks :
        \/ \E r \in duty[c] : Send(c, r)
        \/ TaskStep(c) \/ AnsweredTask(c) \/ LoseTask(c)

-----------------------------------------------------------------------------
(* What must hold *)

NoteThere(a, status) == \E x \in Notes : x.attempt = a /\ x.status = status

\* However calls interleave and whatever the clock does: an operation is tried once
\* at a time, again only after the last try failed, and never after one succeeded;
\* a try has one end, and was scheduled and evaluated before.
TriesFollow ==
    \A x \in attempts :
        /\ \E o \in operations : o.id = x.op
        /\ \A y \in attempts : SameAttempt(x, y) => x = y
        /\ x.number > 1 => \E y \in attempts :
               y.op = x.op /\ y.number = x.number - 1 /\ NoteThere(y.id, "failed")
        /\ NoteThere(x.id, "scheduled")
        /\ ~(NoteThere(x.id, "succeeded") /\ NoteThere(x.id, "failed"))
        /\ NoteThere(x.id, "succeeded") \/ NoteThere(x.id, "failed") => NoteThere(x.id, "evaluating")

\* Unless the clock was set back between its events, what the triggers take for the
\* status of an attempt is the last that was reported, so that it can go on.
LatestIsLast ==
    \A a \in AttemptIds \ setback :
        LET ended == {status \in Ends : NoteThere(a, status)}
        IN  /\ \A status \in ended : StatusOfAttempt(a) = status
            /\ NoteThere(a, "evaluating") /\ ended = {} => StatusOfAttempt(a) = "evaluating"

\* What was committed is found when it is sent again, except a failure with an
\* empty error code, which is compared with NULL and refused.
TasksAreReplayed ==
    \A c \in Clerks :
        task[c].stage \in TaskAnswers /\ task[c].retry =>
            \/ task[c].stage = "replayed"
            \/ task[c].req.op = "report" /\ task[c].req.error = ""

AttemptsAgree == TriesFollow /\ LatestIsLast /\ TasksAreReplayed
=============================================================================
