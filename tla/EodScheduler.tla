---------------------------- MODULE EodScheduler -----------------------------
(***************************************************************************)
(* The scheduler of end-of-day evaluations (modules/operations/jobs/       *)
(* scheduler.ts, enqueueAvailableEodEvaluations).  For each symbol it      *)
(* enqueues the evaluation of the latest session whose bar is due, notes   *)
(* the sessions it was too late for as missed, and returns the cursors the *)
(* caller is to persist.                                                   *)
(*                                                                         *)
(* The function itself awaits nothing and is one step.  The caller reads   *)
(* the clock, the bars and the cursors before it and persists the result   *)
(* after it; it may die in between, after the jobs were enqueued.          *)
(*                                                                         *)
(* Sessions are numbered 1..Sessions in calendar order and 0 stands for    *)
(* null.  Definitions introduced as "Bug:" are as in JobQueue.             *)
(***************************************************************************)
EXTENDS Naturals, FiniteSets

CONSTANTS
    Symbols,     \* normalised symbols; < is the order they are worked through in
    Sessions,    \* bound: the number of sessions
    Limits,      \* the values maxAttempts is configured with over time
    Invocations, \* scheduler invocations that may overlap
    Bootstrap,   \* the session every cursor starts at, or 0
    MaxCrashes   \* bound: invocations that die before they persist

ASSUME SchedulerAssumption ==
    /\ Symbols \subseteq Nat /\ IsFiniteSet(Symbols)
    /\ Sessions \in Nat \ {0} /\ Bootstrap \in 0..Sessions
    /\ Limits \subseteq Nat \ {0} /\ MaxCrashes \in Nat

VARIABLES
    due,      \* the latest session whose expectedBarAt has passed
    bar,      \* latestCompletedBarSession, by symbol
    jobs,     \* maxAttempts of the job eod:symbol:session, 0 where there is none
    cursor,   \* lastScheduledSessionBySymbol, as persisted
    missed,   \* the missed-session records persisted
    call,     \* what each invocation knows
    boot,     \* history: where the cursor of each symbol started
    crashes   \* how many invocations died

schedulerVars == <<due, bar, jobs, cursor, missed, call, boot, crashes>>

Session == 0..Sessions

Call == [stage: {"idle", "ready", "done"}, due: Session, bar: [Symbols -> Session],
         cursor: [Symbols -> Session], limit: Limits \cup {0},
         next: [Symbols -> Session], missed: SUBSET (Symbols \X (1..Sessions))]

Zero == [s \in Symbols |-> 0]
IdleCall == [stage |-> "idle", due |-> 0, bar |-> Zero, cursor |-> Zero, limit |-> 0,
             next |-> Zero, missed |-> {}]

SchedulerTypeOK ==
    /\ due \in Session
    /\ bar \in [Symbols -> Session]
    /\ jobs \in [Symbols -> [1..Sessions -> Limits \cup {0}]]
    /\ cursor \in [Symbols -> Session]
    /\ missed \subseteq Symbols \X (1..Sessions)
    /\ call \in [Invocations -> Call]
    /\ boot \in [Symbols -> Session]
    /\ crashes \in 0..MaxCrashes

SchedulerInit ==
    /\ due = Bootstrap
    /\ bar = [s \in Symbols |-> Bootstrap]
    /\ jobs = [s \in Symbols |-> [d \in 1..Sessions |-> 0]]
    /\ cursor = [s \in Symbols |-> Bootstrap]
    /\ missed = {}
    /\ call = [i \in Invocations |-> IdleCall]
    /\ boot = cursor
    /\ crashes = 0

-----------------------------------------------------------------------------
(* What one call works out for a symbol *)

\* `due`: the sessions after the cursor whose bar is due; only the latest one
\* when there is no cursor yet.
DueFor(c, s) ==
    IF c.cursor[s] # 0 THEN (c.cursor[s] + 1)..c.due
    ELSE IF c.due # 0 THEN {c.due} ELSE {}

Target(c) == c.due                     \* due.at(-1)
Earlier(c, s) == DueFor(c, s) \ {c.due} \* due.slice(0, -1); its last is c.due - 1
Delayed(c, s) == c.bar[s] # Target(c)

\* Bug: missed sessions are not noted while the target's bar is delayed.
MissedUnlessDelayed(c, s) ==
    IF DueFor(c, s) = {} \/ Delayed(c, s) THEN {}
    ELSE {s} \X {d \in Earlier(c, s) : jobs[s][d] = 0}

MissedFor(c, s) ==
    IF DueFor(c, s) = {} THEN {}
    ELSE {s} \X {d \in Earlier(c, s) : jobs[s][d] = 0}

\* Bug: the cursor moves past a session whose bar is delayed.
CursorPastDelay(c, s) ==
    IF DueFor(c, s) = {} THEN c.cursor[s] ELSE Target(c)

NextCursor(c, s) ==
    IF DueFor(c, s) = {} THEN c.cursor[s]
    ELSE IF ~Delayed(c, s) THEN Target(c)
    ELSE IF Earlier(c, s) = {} THEN c.cursor[s]
    ELSE Target(c) - 1

Enqueues(c, s) == DueFor(c, s) # {} /\ ~Delayed(c, s)

\* The queue throws JobQueueConflictError: the job is there with another limit.
Conflicts(c, s) == Enqueues(c, s) /\ jobs[s][Target(c)] \notin {0, c.limit}

\* The loop ends at the first symbol whose enqueue throws.
Reached(c, s) == \A t \in Symbols : Conflicts(c, t) => s < t

-----------------------------------------------------------------------------
(* The caller and its world *)

\* The calendar: the bar of one more session is due.
SessionFallsDue ==
    /\ due < Sessions
    /\ due' = due + 1
    /\ UNCHANGED <<bar, jobs, cursor, missed, call, boot, crashes>>

\* A bar completes: late, in time, or after the close of a session whose bar
\* is not due yet.
BarCompletes(s, d) ==
    /\ bar[s] < d /\ d <= due + 1
    /\ bar' = [bar EXCEPT ![s] = d]
    /\ UNCHANGED <<due, jobs, cursor, missed, call, boot, crashes>>

\* The EodEnqueueInput a caller puts together.
Input(limit) == [stage |-> "ready", due |-> due, bar |-> bar, cursor |-> cursor,
                 limit |-> limit, next |-> Zero, missed |-> {}]

Prepare(i, limit) ==
    /\ call[i].stage = "idle"
    /\ call' = [call EXCEPT ![i] = Input(limit)]
    /\ UNCHANGED <<due, bar, jobs, cursor, missed, boot, crashes>>

\* The EodEnqueueResult of a call.
Result(c) == [stage |-> "done", due |-> c.due, bar |-> c.bar, cursor |-> c.cursor,
              limit |-> c.limit, next |-> [s \in Symbols |-> NextCursor(c, s)],
              missed |-> UNION {MissedFor(c, s) : s \in Symbols}]

\* enqueueAvailableEodEvaluations
Run(i) ==
    LET c == call[i]
    IN  /\ c.stage = "ready"
        /\ jobs' = [s \in Symbols |->
                      IF Enqueues(c, s) /\ Reached(c, s) /\ jobs[s][Target(c)] = 0
                      THEN [jobs[s] EXCEPT ![Target(c)] = c.limit]
                      ELSE jobs[s]]
        /\ call' = [call EXCEPT ![i] =
                      IF \E s \in Symbols : Conflicts(c, s)
                      THEN IdleCall
                      ELSE Result(c)]
        /\ UNCHANGED <<due, bar, cursor, missed, boot, crashes>>

\* The caller persists the cursors and the missed-session records together;
\* a record with a known idempotencyKey is not written again.
Persist(i) ==
    /\ call[i].stage = "done"
    /\ cursor' = call[i].next
    /\ missed' = missed \cup call[i].missed
    /\ boot' = [s \in Symbols |-> IF boot[s] = 0 THEN cursor'[s] ELSE boot[s]]
    /\ call' = [call EXCEPT ![i] = IdleCall]
    /\ UNCHANGED <<due, bar, jobs, crashes>>

Crash(i) ==
    /\ call[i].stage \in {"ready", "done"}
    /\ crashes < MaxCrashes
    /\ crashes' = crashes + 1
    /\ call' = [call EXCEPT ![i] = IdleCall]
    /\ UNCHANGED <<due, bar, jobs, cursor, missed, boot>>

SchedulerNext ==
    \/ SessionFallsDue
    \/ \E s \in Symbols, d \in 1..Sessions : BarCompletes(s, d)
    \/ \E i \in Invocations :
         \/ \E limit \in Limits : Prepare(i, limit)
         \/ Run(i) \/ Persist(i) \/ Crash(i)

SchedulerSpec == SchedulerInit /\ [][SchedulerNext]_schedulerVars

\* The scheduler keeps being invoked and its invocations finish, up to the
\* bounded number that die.  Bars may stay away for ever.
FairSchedulerSpec ==
    /\ SchedulerSpec
    /\ \A i \in Invocations :
        /\ WF_schedulerVars(\E limit \in Limits : Prepare(i, limit))
        /\ WF_schedulerVars(Run(i) \/ Persist(i))

-----------------------------------------------------------------------------
(* What must hold *)

Settled(s, d) == jobs[s][d] # 0 \/ <<s, d>> \in missed

\* Once a symbol has its cursor no session is skipped silently: every session
\* behind the cursor has its evaluation enqueued or is on record as missed,
\* whatever was delayed and whichever invocations died (scheduler.ts, the
\* cursor it returns for a delayed bar and its filter of missed sessions).  Two
\* invocations that overlap while there is no cursor yet each begin at the latest
\* session they know of, and may leave one between out; it holds of cursors that
\* are set, or of invocations that do not overlap.
AccountedFor ==
    \A s \in Symbols, d \in 1..Sessions :
        boot[s] # 0 /\ boot[s] < d /\ d <= cursor[s] => Settled(s, d)

\* A session on record as missed is never evaluated prospectively, before or
\* after, even when an invocation enqueued it and died before persisting.
MissedForGood ==
    \A s \in Symbols, d \in 1..Sessions : <<s, d>> \in missed => jobs[s][d] = 0

\* A cursor never goes back, nor back to null.
CursorAdvances == [][\A s \in Symbols : cursor'[s] >= cursor[s]]_schedulerVars

\* No invocation is about to be refused by the queue.
NoConflict ==
    \A i \in Invocations, s \in Symbols : call[i].stage = "ready" => ~Conflicts(call[i], s)

\* Every session that the calendar has left behind is settled in the end, even
\* for a symbol whose bars never come, whatever was refused or died before, if
\* the queue stops refusing jobs for a limit that has changed.
BehindIsSettled ==
    <>[]NoConflict =>
        <>[](\A s \in Symbols, d \in 1..Sessions :
                boot[s] # 0 /\ boot[s] < d /\ d < due => Settled(s, d))
=============================================================================
