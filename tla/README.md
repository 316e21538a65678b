# Verification of Jev Trade

Jev Trade is a market-judgment simulator.  A judgment provider (Jev, reached
through OpenRouter) answers typed questions about a market snapshot; a
deterministic policy turns the answers into decisions; each forecast is
published in an immutable ledger before its outcome can be known, resolved at a
fixed horizon and scored; the ledger is closed in batches whose hashes form a
chain of roots archived and attested outside the database.  Scheduled jobs drive
all of it.

This directory models the parts of that program whose correctness depends on
order, time, retries, crashes and concurrent actors.  TLC checks them on small
instances and TLAPS proves the main results for every instance.  Paths below are
relative to the repository.

Contents: 1. inventory; 2. how the modules are organised; 3. each component: its
model, what is checked, bounds and fairness; 4. what is proved; 5. where the
program and its documents disagree; 6. what is not modelled; 7. plan.

## 1. Inventory

| Component | Code | State it keeps | Operations |
|---|---|---|---|
| Job queue | `modules/operations/jobs/queue.ts` | jobs and attempts by key, lease tokens | enqueue, claim, heartbeat, succeed, reconcileExpired, fail, release, operatorReplay |
| Bounded invocation | `modules/operations/jobs/runner.ts` | lease copy, counters, deadline of one invocation | the claim loop with its race against the deadline |
| End-of-day scheduler | `modules/operations/jobs/scheduler.ts` | cursor per symbol and missed-session records, persisted by its caller | enqueueAvailableEodEvaluations and simpler enqueue loops |
| Forecast ledger | `db/migrations/0001_immutable_ledger.up.sql`, `modules/ledger/postgres.ts` | append-only forecasts, events, outcomes | publish, resolve, void, correct |
| Root archive | `deploy/root-publisher/*.ts`, `.github/workflows/ledger-attest.yml` | the branch `ledger-roots`, workflow runs | prepare, append, recover, attest, confirm |
| Root publisher | `deploy/root-publisher/index.ts` | one call's reads | publishLedgerRoot |
| Judgment transport | `modules/judgment/providers/openrouter.ts` | one call's attempts, receipts, timers | evaluate |
| Judgment request and validation | `modules/judgment/{request,validation,canonical}.ts`, `providers/fixture.ts` | none | build, parse, validate |
| Policy | `modules/policy/policy.ts`, `modules/operations/jobs/monitoring.ts` | an open position's count of failed holds, kept by the caller | evaluatePosition, evaluateSprint, monitorOpenPosition |
| Sizing and allocation | `modules/policy/{position-risk,ranking,market-risk}.ts` | none | sizeLongPosition, allocateCandidates, createNextOpenFill |
| Paper portfolio | `modules/portfolio/portfolio.ts` | projection over paper events | event constructors, projectPaperPortfolio |
| Outcome resolution | `modules/operations/jobs/outcomes.ts`, `modules/policy/outcomes.ts`, `scheduler.ts` from line 83 | none | nthEligibleSession, enqueueDueOutcomeResolutions, resolveForecastAtHorizon |
| Scorecard | `modules/scorecard/` | none | aggregateScorecard, reliability buckets, baselines, paper metrics |
| Market features | `modules/market/features/` | none | snapshot building, indicators |
| In-memory ledger | `modules/ledger/in-memory.ts`, `replay.ts` | the rows of the SQL ledger, in arrays | the same operations, and the strict rebuild of a projection |
| Visitor picks, analytics | SQL migration, lines 293-340 and 1743-1893 | picks, results, expiring private identifiers | record, append result, purge |
| Log of jobs | SQL migration, lines 249-278, 575-645, 1598-1720 | operations, attempts, their events | append_job_operation, append_job_attempt, append_job_attempt_event |
| Paper events, evidence | SQL migration | append-only rows | append functions and their triggers |
| Hashes and root chain | `modules/ledger/{canonical-json,content-hash}.ts`, `root-chain/` | none | hashing, batching, verification |
| Public-mode gate | `modules/operations/provider-rights.ts` and its SQL twin | none | a test of rights and terms at an instant |
| Cron route | `modules/operations/jobs/route-handler.ts`, `app/api/internal/cron` | none | authorises, names the invocation, calls an executor |
| Scripts, configuration, logging, UI, read routes | `scripts/`, `modules/config`, `modules/observability`, `app/`, `components/`, `modules/view-model` | none | |

How they meet:

* The cron route starts an **invocation**, which claims from the **queue** and
  runs a handler under a fenced lease.  In this commit the executor behind the
  route always answers `JOB_BACKEND_UNAVAILABLE`; queue, runner and scheduler are
  a library exercised by tests and fixture scripts, written for invocations that
  may overlap and be terminated.  They are modelled for that use.
* The **scheduler** is called with the clock, the bars and the cursors its caller
  has read; it enqueues jobs at once and returns cursors the caller persists
  later.  A crash between the two is the interesting case.
* A handler asks the **judgment transport** for answers and gives them to the
  **policy**; decisions and forecasts are written by the **ledger's** SQL
  functions.  Each function call is a transaction of its own.
* Before that, a provider's answer about the market becomes a **snapshot** with its
  features, the snapshot a **request**, and the reply an answer of the contract: five
  validations, written apart, one behind the other.
* After it, **resolution** jobs find what a forecast came to and record it in the
  ledger, and the **scorecard** counts what the ledger holds.  Decisions to enter a
  position go through **sizing** and **allocation** to **paper events**, of which the
  portfolio is a projection.  The repository has all these parts and tests for each;
  the code that would call one with the results of the other is not in this commit,
  but for the fixture proof.  Where two of them are composed here, the module says
  what is the repository's and what is the composition's.
* The **publisher** reads the durable branch through the GitHub API and
  dispatches a **workflow run** per root; the runs share only that branch.

What is hard in each, and what makes it correct (`PROJECT.json`, `hazards`, has
the places in the code):

* Queue and runner: stale leases after expiry and reclaim, handlers that outlive
  `Promise.race`, processes killed without a word.  Correct means: one worker's
  success per job, attempts and status agree, nothing is lost or parked for ever,
  an invocation's report tells what the queue recorded.
* Scheduler: late bars, crashes before persisting, overlapping invocations,
  reconfigured limits.  Correct means: every session is enqueued or on record as
  missed, never both, and cursors only advance.
* Ledger: READ COMMITTED races, row locks that find no row, unique indexes as the
  last line of defence, lost answers.  Correct means: one history per forecast,
  one active outcome per resolved forecast, retries are replays.
* Archive and publisher: two runs building on one head, a branch update that
  lands after its run has given up, replays, deadlines around an external
  attestation, reads of a moving branch.  Correct means: one append-only chain,
  final refusals, timely receipts.
* Evidence: answers of a provider that know more than the cutoff, revisions, windows
  that are one observation short, validations that disagree.  Correct means: a
  snapshot is a function of what was known up to its cutoff, and what one part made the
  next refuses only where it is known to be stricter.
* Portfolio: stale reads of an append-only log, duplicate events, sizes that each fit
  and together do not, judgments that fail while a stop is touched.  Correct means:
  the log stays projectable for writers that do not race, orders fit together, and
  no position outlives the rules for its end.
* Forecast's life: resolvers that race, die and retry while bars are revised, methods
  that throw half way, corrections of what has been scored.  Correct means: a verdict
  is never early and always of published evidence, records are whole and repeatable,
  and the scorecard is the ledger's, claim included.
* Transport: a deadline over attempts with their own time-outs, Retry-After,
  cancellation at any microtask, bodies that stall.  Correct means: one receipt
  per billed request, an honest error and retry flag, a call that always ends.

## 2. Modules

    JobLifecycle      abstract: one operation's tries
      ^ refined by
    JobQueue <---- JobProgress
      ^ EXTENDS
    JobRunner ----- JobProofs (of the queue, the runner and the scheduler)
                        |
    EodScheduler -------+

    ForecastHistory   abstract: one history per forecast
      ^ refined by
    ForecastLedger
      ^ EXTENDS
    VisitorLedger   JobAttemptLog
              ^ EXTENDS (both)
           LedgerDatabase --- LedgerDatabaseProofs (of the forecasts, the log of jobs
                                                    and the visitors)

    RootChain         abstract: an append-only chain
      ^ refined by
    RootArchive
      ^ EXTENDS
    RootPublisher --- RootArchiveProofs (of the archive and the publisher)

    JudgmentCall ---- JudgmentCallProofs

    PositionPolicy  PositionRisk  PaperPortfolio
              ^ EXTENDS (all three)
           PaperDesk ---- PaperDeskProofs -> FoldInduction (INSTANCE)

    Indicators <- MarketSnapshot   JudgmentContract -> PositionPolicy
    PositionRisk   SnapshotRecord
              ^ EXTENDS (all of them)
           Evidence ---- EvidenceProofs -> FoldInduction (INSTANCE)

    ForecastHistory (above)
      ^ refined by
    MemoryLedger -> SnapshotRecord   Outcomes   Scorecard
              ^ EXTENDS (all three)
           ForecastLife --- ForecastLifeProofs -> FoldInduction

`MC*.tla` and `MC*.cfg` give the constants their values.  Constants and their
named assumptions are in the module that declares them, so every run evaluates
them.  Definitions introduced by a comment `Bug:` are the component's own
definitions with one plausible mistake; `PROJECT.json` (`mutants`) says which
property each of them breaks.  Nothing in the specifications uses them.

## 3. Components

### Job queue (`JobQueue`, `JobLifecycle`, `JobProgress`)

*State.*  `job[k]` is the record of the operation with key k (status, attempt
count, limit, lease, availability, payload, replayOf) and `attempts[k]` its
attempts: the maps `#jobs` and `#attempts` of `InMemoryJobQueue`.  `nextToken` is
`#nextLeaseToken`.  `issued` and `accepted` are history variables: leases handed
out, and leases whose `succeed` returned normally.

*Actions.*  One per method.  `claim` is `ClaimJob`/`ClaimNothing`, and each first
sweeps every expired lease as the method does.  `HolderCall` covers
heartbeat, succeed, reconcileExpired, fail and release, each with any lease ever
issued, so stale leases are tried in every state.  Each call is given its caller's
clock reading, any value in any order: nothing shown here rests on clocks agreeing.
Keys stand for job ids, and their order for the order of ids in a claim's tie-break.
Malformed inputs, which throw before the first assignment, are not taken.

*Runs.*

* `job_queue` (module `JobProgress`): two keys, two workers, two attempts, a
  configured delay of 0 so that the clamp on the back-off matters.  Two keys are what
  replay lineage and the sweep of several leases need, two workers and attempts what a
  stale lease needs.  Instants are kept relative to the present (`Elapse` brings every
  expiry nearer), so time runs for ever over finitely many states and no clock bound
  cuts a behaviour short; a claimer's clock may be one unit ahead.  Heartbeats are
  bounded by `MaxBeats`; without a bound a handler could renew its lease for ever,
  which the runner's deadline prevents.
  Checks `AttemptLedger` (status and attempts tell one story), `AcceptedOnce`,
  `LifecycleRefined` (the queue implements `JobLifecycle`: no operation leaves a
  terminal phase, exceeds its tries, or is expired and handed out in one claim) and
  `EverySubmissionSettles`: workers may die silently, and every job submitted ends.
  Fairness: time passes, and invocations that claim keep being started (the cron
  schedule).  No worker is assumed to report.

`DeadLetterJustified`, `NeverStranded`, `ReplayLineage` and the two action properties
about closed attempts and signatures follow from the invariant of section 4 and are
stated and proved there for every instance.

### Bounded invocations (`JobRunner`)

Two processes run `runBoundedInvocation` at once over one queue and one clock.  A
step is the code between two awaits.  `run[w]` holds the invocation's locals: the
lease it was given, its copy of `leasedUntil`, its counters and stop reason.
`DeadlineFires` is the timer winning `Promise.race`; the handler is then a stray,
which may still renew its old lease.  `Recover` is the catch block.  `Terminate` is
the platform killing the process.

* `job_runner`: two jobs, two workers, two claims each, time 0..5 with a budget of 3 and
  leases of 2, so a lease can run out, be reclaimed and run out again within an
  invocation and a deadline falls inside a lease.  `FencedWhileLive`: while the
  local copy of the expiry looks live it is the queue's own, so the check before
  succeed or reconcile cannot be wrong.  `ReportMatchesQueue`: the counters for successes,
  failures and late completions are the numbers of attempts the queue recorded so for that
  worker, `released` and `lost` together that of its expired leases, and no claim is left
  out but the open one.  `ReleasedOrLost` tells these two apart, step by step: what is counted as released
  was live and is ended by that step, what is counted as lost somebody else's claim had swept before.
  A fence left at the deadline (`runner.ts:177`) is under no counter.  `InvocationStops`: the loop ends although handlers hang.
  Fairness: the clock, the loop's own synchronous code and the deadline timer;
  handlers owe nothing.  An invocation only starts if its deadline fits the clock's
  bound, so the bound never explains a stop.

The repository's only queue lives in one process's memory, so "processes" here
means invocations interleaving at awaits; termination then stands for an invocation that is cut
off.  The model is the one the code's fencing is written for.

### End-of-day scheduler (`EodScheduler`)

`call[i]` holds what invocation i has read (`Prepare`), and after `Run` what
`enqueueAvailableEodEvaluations` returned.  `Run` is one step because the function
awaits nothing; it enqueues in symbol order and stops at the first conflict with a
job enqueued under another limit, as the throw does.  `Persist` and `Crash` are the
caller.  Sessions are numbered; `due`, `bar`, `cursor` are positions in that order.

* `eod_scheduler`: two symbols, three sessions, two invocations that may overlap, two
  limits, one crash, every cursor at session 1 (`Bootstrap`).  Three sessions are the least with a target,
  an earlier one and one behind the cursor.  `AccountedFor`: each session up to a cursor
  is enqueued or on record as missed, with overlaps too.  The branch without a cursor
  (`Bootstrap` = 0) is in the model and in the theorems, not in this run: with two
  invocations that overlap there `AccountedFor` is false, section 5.
  `BehindIsSettled`: every session the calendar has left behind is enqueued or
  recorded in the end, even for bars that never come and with overlaps and crashes, if
  from some time on the queue refuses no job for a changed limit (`NoConflict`).
  Fairness: invocations are prepared, run and persisted, except the bounded
  number that die; bars owe nothing.

Three things about this component are limits of the code, not of the model.
Overlapping invocations may persist cursors back over later ones and may record
as missed a session the other enqueued, so the caller must serialise; that is why
the theorems `MissedForGoodHolds` and `CursorAdvancesHolds` are about invocations that do
not overlap, and `AccountedForHolds` about those or about cursors that are set.  A symbol without a cursor whose bar is late
for its first session starts at a later one without a record.  And a limit that is
reconfigured after a crash makes every call throw until the limit is what it was or the
next session is due, which is why `BehindIsSettled` has its premise.

### Forecast ledger (`ForecastLedger`, `ForecastHistory`, `VisitorLedger`, `JobAttemptLog`, `LedgerDatabase`)

Every row is inserted by one request and the tables are append-only, so the
database is the set `committed` of requests.  `call[s]` is what a session does:
which statement of its function comes next, which lock it has on its forecast's row.
Unique indexes are relations between requests (`SameForecast`, `SameEvent`,
`SameOutcome`); an insert waits for an uncommitted row it clashes with.  Triggers
are `EventIsValid` and `OutcomeIsValid` on what is committed at that statement.
`Lose` is a connection lost at any statement, and a request may be sent again at
any time, which is a commit whose answer was lost.  `BreakDeadlock` is the
server's detection.

`VisitorLedger` adds the transactions of visitors: picks, analytics events, results of picks
and the purge of identifiers that have expired.  `identifiers`, `picks`, `results`, `seen`
and `purges` are the committed rows of their tables, `visit[v]` is what a session of a
visitor is doing, with the rows it has inserted or deleted and the pick it has locked.  One action per
statement of the four functions: between "the identifier is taken" and the read of the pick
it names, or between the check of the active outcome and the insertion of the result,
anything may commit.  The operators `WaitsTo...` and `SharedByPick` say who waits for whom: for an insertion or a
deletion in progress, or for a lock; the foreign keys of picks and results take locks as
well, so picks wait for resolutions and resolutions for picks.  `known` and `retry` are history.

`JobAttemptLog` is the log of jobs in the same manner: operations under their advisory lock,
attempts and reports, whose functions and triggers lock the same row one after the other.
`timeline[a]` has the events of an attempt in the order of created_at, by which the triggers find
the present status.  That is the clock of the server, which may be set back: an event then takes an earlier
place (`Places`), for at most `MaxSetbacks` attempts.  `LedgerDatabase` puts it beside the
others, with which it has no table in common.

* `forecast_ledger`: two sessions; rival publications, resolutions, a voiding,
  corrections and a correction of a correction of one forecast, and requests for
  a second forecast that reuse ids, judgments and outcomes of the first.  Checks
  `RetryIsReplayed`, `DeadlockNeedsEarlyCall` (two calls wait for
  each other only if one began before the publication was committed and so locked
  no row), `HistoryRefined`, and of all three `RecordsAgree` and `EveryTransactionEnds`.  A behaviour's `traffic` is what each session
  sends in it; there are six: the two of the forecasts by themselves, visitors who pick twice while a
  purge takes the first, who use an identifier and an id that are taken, who send rival
  results of a pick while its outcome is corrected, and a result for the wrong
  forecast.  Two more have only jobs: operations that share keys and ids with attempts sent
  before them, and an attempt that one session believes to have failed and the other to have succeeded, with a
  failure whose error code is empty, an event that is out of place, and retries.
  `RecordsAgree`: a visitor who has picked and was not purged since is
  answered with that pick; a result on record is found again unless its outcome
  has been corrected; what is shown is a pick's one result, of its own forecast, against one
  outcome in force; whatever the clock does, a job is tried again only after its last try failed and a try
  has one end; unless it was set back, the status of an attempt is the last reported; what was
  committed is found again, but for the empty error code.  Two sessions of visitors reach the deadlock
  of two results, of which one waits to insert and the other to share the pick
  (`BreakVisit`).  Two sessions do not reach the race
  of two corrections against the unique index on corrections (it needs a third
  that holds neither lock); the theorem `OneActiveOutcomeHolds` covers any number.
  Fairness: strong, per session.  PostgreSQL runs what is not waiting and grants
  locks in queue order, so a call that can proceed again and again does.

Merged: waiting and the check for a duplicate, a trigger and its insert, and the two
SELECTs of one replay check.  In each case what a commit in between could change is
refused in either order.  `ON CONFLICT (publication_key)` does not cover the other two
unique columns; a clash there is a refusal, as in the code.

### Root archive and publisher (`RootArchive`, `RootChain`, `RootPublisher`)

`branch` is the tree of `ledger-roots`: its documents and its head.  `run[r]` is the
workflow run of root r through prepare, read, write, recover, check, attest and
confirm; the concurrency group lets one run per root be active and one wait
(`pending`).  `late` holds branch updates whose request timed out but which GitHub
may still apply.  A document is its envelope (root and source revision) and the
instant it was verified at.  Any request may fail, any run be cancelled.

* `root_archive`: a genesis, its successor, a rival of the successor and a second revision
  of it; one late update; clock 0..1 with deadlines inside and outside it.  Three roots are
  the least for a fork, two revisions for a replay that differs.  `ChainRefined`, `RefusalIsFinal` (a refused envelope is not on the branch and its
  place is taken), `ReceiptIsTimely`.
* `root_publisher`: one publisher, whose reads of the root, the head and the
  predecessor each see the branch of their own moment, over runs of two roots.
  `VerdictIsNotEarly`, `AttestedIsArchived`, `EveryRunEnds`.
  Fairness: time passes and GitHub works through the steps of a run it has
  started, within the job's time limit.
* `root_publisher_refusal` is a violation, section 5.

With a late update (`MaxLate` > 0) a replay may attest a document whose verifiedAt
differs from the archived one of the same envelope, so `AttestedIsArchived` is
checked and proved without late updates.  That is the one hazard of this
component no property covers.

### Judgment transport (`JudgmentCall`)

One call of `evaluate`.  `phase` is where the call awaits; `wire` is what really
happened to each request, `receipts` what the call notes down.  A promise that settles resumes the
call in a later microtask, so an abort can fall in between (`FetchAnswers` before
`TakeAnswer`); no timer and no time can.  Timers may run up to `Slack` late.

* `judgment_call`: three attempts, time-out 2, deadline 5, jitter 1 then 2, Retry-After
  none, 0, 2 or 4 with a cap of 3, so each of "fits", "is capped" and "ends past the
  deadline" happens; the wait is the smaller of what was asked and the cap, as the code has it
  (section 5 on the notes, which have no cap).  `ReceiptPerRequest`, `OutcomeIsHonest` (the error tells what became
  of the last request, and a cancelled call says so), `RetriesAreEarned`,
  `SettlesInTime`, `EveryCallSettles`.
  Fairness: the event loop runs what is due and the clock goes on.  The provider
  and the network owe nothing.
* `judgment_reset` is a violation, section 5.

Assumed of the platform: `fetch` and body readers reject once their signal is
aborted, and cancelling a body settles within `Slack`.  Status codes are folded into how
the call treats them, and parsing into valid or not.

### From the market to a decision (`Indicators`, `MarketSnapshot`, `JudgmentContract`, `PositionPolicy`, `PositionRisk`, `Evidence`)

`Indicators` has every feature of `indicators.ts` as a function of bars: returns,
trends, averages, Wilder's RSI and ATR, volatility and gap percentiles, drawdown,
relative strength and the regime of the benchmark.  `MarketSnapshot` has the
validations of `snapshot.ts` and `BuildMarketSnapshot`, which is the empty set where
the code throws.  `JudgmentContract` builds and validates requests and validates
replies.  `PositionPolicy` has `POLICY_V1`, the policy's own validation of judgments,
and the entry, hold, exit and sprint rules; `PositionRisk` market risk and sizing.

The state of `Evidence` is what the provider has published, with the instant it did,
the answers it has given, and the evaluation of the last step.  The provider is
external: a behaviour lets it publish a bar of each session on its day, revise one,
leave one incomplete, and announce a halt, a split, a dividend and events, one of a type the
request does not know; it answers
with the latest there is of everything, for any request (a symbol, its benchmark and a cutoff), and
an answer is evaluated at any later instant.  `Answer(known, r, t)` is that answer as a function of what was
known at an instant, and `Validates` is the conjunction of what `buildMarketSnapshot`
throws for.

* `evidence`: a year of 3 sessions and windows of 2, so that the minimum is 5 as it is
  272 in the code; twelve sessions around a day without one, of which the first four are
  past at the start; two cutoffs, and for one of them a second benchmark, `^GSPC`; two
  surprises and two answers.  A session closes at the second instant of its day (`CloseOf`),
  while its bar may be there at the first.  A request has room for one event.  Two answers
  are what `SameKnowledgeSameSnapshot` compares.  Five replies: one to enter on, one tied within the
  tolerance, one whose choice is not the
  most probable, one with a question twice, one of another model.  Checks
  `SameKnowledgeSameSnapshot` (of two answers to one request between which nothing about the
  sessions up to its cutoff was published, both are refused or both give one state),
  `WindowsAreFull` (a percentile is one of a whole year of
  observations; averages lie within what they average) and `NothingElseIsRefused`: where
  the validations that were written apart disagree, and that it is only there.  The ledger refuses a snapshot exactly
  if it was known before its session closed; a request is refused exactly for a name that
  is not a ticker, an event of another type or its size (`Askable`); otherwise the risk is defined, what was
  built validates again where it is sent, and an accepted reply is a judgment for the policy.
  Each of the refusals happens in the instance.

Prices are whole numbers and changes thousandths, rounded down; averages carried from
bar to bar and ranks in a window are exact fractions.  The logarithms and the root in the realized volatility
are a parameter, for which the instance takes the range of the closes: the properties
are about how many observations there are and which bars they are of.

### The desk (`PositionPolicy`, `PositionRisk`, `PaperPortfolio`, `PaperDesk`)

`PaperPortfolio` has the constructors of paper events, the strict projection (`ok` is
FALSE from where it threw), the lenient one of the ledger's rebuild, and `Appendable`, what
the ledger asks of an event.  In `PaperDesk`, `log` is the ledger's paper events and
`desk[s]` what the interfaces of the policy want to be told of a position (stop,
sessions held, failed holds).  `Close` monitors every open position and sizes and
allocates every flat symbol on one reading of the log; `Open` fills orders.  `Compute`
and `Deliver` are a second writer, with dividends, splits and corrections, who appends an event
some time after it read the log it is made of.  The loop and the feed are not in the
repository and are marked external; everything they call is its code.

* `paper_desk`: two symbols and an account that holds one and a part of the other, so that
  allocation has to choose; four sessions and a horizon of 2, so that each exit rule
  is met; judgments that rise, fail, sink, warn of a hazard or rest on stale data; a low that touches the stop; opens that are not published and
  attestations that come late; a candidate listed twice; one event of the feed.  Checks
  `SerialLogProjects` (unless an event was appended to a log that had moved on, the log
  projects and its shares are the desk's), `ReadingsAgree` (a log read twice over, and the
  two projections written apart, come to the same), `NeverOverstays` and `CommitmentsFit`.

Money is counted in thousandths of the unit of prices, where the code's fractions are
whole; its rounding to cents is then exact.  With one event of the feed the log can be made
unprojectable for ever; that a single stale row does this is the reason for the premise of
`SerialLogProjects`, and section 5 has it as a known fact.

### A forecast's life (`MemoryLedger`, `SnapshotRecord`, `Outcomes`, `Scorecard`, `ForecastLife`)

`MemoryLedger` is `InMemoryLedgerRepository`: one variable per array, one operator per
method, and `Call`, which is a request of any of them (no method awaits anything, so a
call is one step).  `answered` is history: what was accepted and with what it was
answered.  `Rebuilds` is the strict rebuild of `replay.ts`.  `Outcomes` has the target
session, which forecasts are due, the direction and its flat band, and
`ResolveForecastAtHorizon` with late and missing bars, halts and delistings.  `Scorecard`
has what is scored, how, and when the claim may be made; a reliability bucket is the set of
its scores, of which there is one per forecast, so its count is their number.

`ForecastLife` composes them.  A behaviour whose callers have published two forecasts goes on
to live through the sessions: bars arrive, are revised or given up, a forecast is halted or
delisted, and resolvers read and record in separate steps and may die in between.
A forecast that is due gets one job (`EnqueueDueOutcomeResolutions`), which is left as it is
whatever became of it.  A resolver that takes it uses up one of `MaxTries` tries; it holds
a verdict to record, or finds it pending and fails (a handler can only throw or return, and to
return would complete the job for good).  `fruitless` is history: how many tries ended with nothing recorded.
In the other behaviours callers send a repertoire of requests that use each other's
ids, contents, keys and judgments, in any order and any number of times.

* `forecast_life`: five repertoires; six sessions, a horizon of 5, two resolvers, two
  forecasts (one flat or up by its bar, or halted; one delisted), two tries per job, up to two mishaps and
  minimums of 2 in place of 100, 20 and 20, with records of other cohorts beside the ledger's.
  Two resolvers are what a race and a correction of a correction need.  Checks `RetriesGetTheSame`
  (what was accepted once is accepted for ever with the same answer, picks and analytics events aside),
  `RecordsAreWhole`, `HistoryRefined` (the same `ForecastHistory` the SQL ledger implements),
  `EndedOnItsEvidence`, `ScorecardIsTheLedgers`, `ClaimIsKept` (the claim, once allowed, is
  not taken back while nothing new is published) and `KnownIsSettled` (what is known or
  given up is settled, unless every try of the job was fruitless).
  Fairness: weak that what is due is enqueued (the scheduler keeps being invoked);
  strong, per forecast, that some resolver takes a job that has a try left; weak that a resolver that
  holds a verdict records it or dies.  A resolver may die every time, and nothing is
  asked of the market: the property says what the tries are spent on.

Probabilities are tenths that add up exactly; log loss, rates and labels are left out.
Digests are the records themselves.

## 4. Theorems

All hold for every value of the constants that the named assumptions allow.
`PROJECT.json` lists the main ones with the property each states.

* `JobProofs`.  `QueueInv` is `TypeOK`, an invariant about each single
  operation (`JobInv`: its record, lease and attempts agree), `AcceptedOnce` and
  `ReplayLineage`.  The safety properties alone are not inductive: that a completion
  closes the right attempt needs that the attempt under evaluation is the last one
  and was made by the owner of the current lease.  Every step is
  first reduced to what it does to one operation (`KeyStep`), and each invariant
  is then preserved per operation.  From it follow all safety properties of the run, that
  closed attempts and signatures are frozen, and the refinement of `JobLifecycle`.
  Of the runner it is shown that each of its steps is a step of the queue or leaves it alone
  (`RunnerImplementsQueue`), so all of this holds under it.  `FenceInv` says what a running
  invocation's lease is worth: it is its own and no stray's, its copy of the expiry is the
  queue's, and if the queue took it away it had run out and the job waits for the back-off.
  `FencedWhileLive` and `ReclaimGap` (no second handler of a job starts before the back-off
  after the first one's lease) follow.  `CountInv` counts, by fate, the attempts
  made in an invocation's name, one by one with its counters, and `BooksInv` that its claims are the
  ones counted and the open one, to `ReportMatchesQueue`; `ReleasedOrLost` follows from `FenceInv`.
  Of the scheduler, which shares no state with these two, `AccountedFor` under *one invocation at a time or cursors set
  from the start*, `MissedForGood` and `CursorAdvances` under *one invocation at a
  time*; the hypotheses are in the statements.  The strengthening says that what an invocation
  carries between `Run` and `Persist` is already true of the jobs.
* `LedgerDatabaseProofs`.  Of the forecasts alone, `LedgerInv` is `TypeOK`, facts about the committed rows (indexes,
  chains of corrections), about each session (what its earlier checks established and
  its lock preserves) and about each pair (locks exclude, uncommitted rows do not
  clash).  The step of a commit is split by the kind of request.
  With visitors the ledger implements the ledger without (`LedgerUndisturbed`):
  their locks delay its steps and allow no new ones; jobs leave both alone (`JobsApart`).  So its
  properties hold beside any picks, results, purges and jobs (`LedgerStaysSound`).
  `RecordsAgree` needs an invariant of the log of jobs (`LogInv`) and one of the visitors'
  (`VisitInv`).  Each has facts about committed rows, about a session and about pairs
  of sessions, as `LedgerInv` has.  Of the rows they say, for instance, that a try
  follows one that failed, that an attempt with an end was scheduled and evaluated and has no other end,
  whatever places a clock that was set back gave these events, and that identifiers, picks and
  results name each other until they are purged.  Of a session the invariant keeps what its reads established and its locks preserve; of a
  pair, that two of them have inserted nothing that clashes.
* `RootArchiveProofs`.  `IInv` says the branch is linked, each run's claim about it
  stays true and each late update either builds on the current head or on one
  that something already follows.  The lemma `Grows` shows appending keeps all of that; every
  action then either appends so or leaves the branch alone.  `AttestedIsArchivedHolds`
  needs `MaxLate = 0`.  The publisher's steps are steps of the archive
  (`PublisherImplementsArchive`); that a verdict is not early rests on the branch only
  growing between the publisher's three reads.
* `JudgmentCallProofs`.  `CallInv` joins the properties with where the clock and the two
  timers stand in each phase, from which `SettlesInTime` follows for every time-out,
  deadline, jitter and lateness.
* `FoldInduction`.  What a left fold computes, for every operator: `FoldAppend` (one element
  more is one step more), `FoldStaysIn`, `FoldAlong` and `FoldTail` (what a fold goes
  through when it is continued).  The library's induction theorems take an operator
  as parameter, which no installed prover can instantiate; here induction is stated for a
  *set* of numbers or of sequences, and proved from the least number outside it.  Modules
  about reducers instantiate it with theirs.
* `PaperDeskProofs`.  The projection, the lenient reading, the ranking and the allocation
  are four instances of `FoldInduction`; sums of money and risk go by induction on the
  size of a finite set of symbols.  `DeskInv` says that the failures the desk counts are those
  of the history; with what monitoring makes of an open position it gives `NeverOverstays`.
  `AllocationFits` is about any list of candidates: what is filled is on it, no symbol
  twice, and fits what was there before the first, from which `CommitmentsFit` follows.
  `IdsInv` says the log repeats no id; then the strict reading never skips, and where it
  takes all it agrees with the lenient one (`ReadingsAgree`).  `SerialInv` relates the
  projection to the desk's record and to the pending event: while nothing has raced,
  a pending event still fits the position it was computed on, and the batches of a
  close and of an open fit whatever the order of their symbols (`SerialLogProjects`).
* `ForecastLifeProofs`.  The records are only appended to, and a settlement that throws half way
  leaves nothing, so what a method finds first it finds first for ever (`FoundStays`): from
  this follows `RetriesGetTheSame`, method by method (`ReplayStays`, `CreatedReplays`).  `LifeInv`
  says besides that events and outcomes fit the ones before them (`EventsFit`, `OutcomesFit`),
  which is what the fold of `rebuildLedgerProjection` checks (`RebuildsIs`); that an event
  the repository made for a publication is the forecast's first; that a chain of evidence has
  one forecast; that the attempts of an operation are as many as the number of the last; and that
  what a resolver is about to record is a request like any other.  `RecordsAreWhole` is a part of it.
  Each call is then a step of `ForecastHistory` or a stutter (`HistoryRefinedHolds`).

  A verdict is recorded some steps after it was reached.  `VerdictInv` says that what a resolver
  holds was justified when it read the market, and that this lasts: sessions only
  advance, values that were shown and reasons that were given are remembered, and the terms of a forecast do not change once all
  are published, before which nothing is ended.  `EndedOnItsEvidence` follows, for a
  resolver as late as one likes.

  Of the scorecard, the buckets are three folds.  `Parts` says that they divide the scores among
  them, in order, with bounds that tell the truth; the ranges of the first fold do, each merge of the second keeps
  it, and so does what is made of the remainder (`ReliabilityParts`).  Headings are disjoint
  and leave nothing out (`OneHeadingEach`), and a forecast has one score (`OneScoreEach`).  `CardInv` adds to
  `VerdictInv` that each forecast is published, resolved or void and that its judgment is one of
  those that were sent, so that each resolved forecast has exactly one active outcome
  (`OneIsActive`).  A step that publishes nothing maps the records one to one to those after it, scored
  ones to scored ones of the same date and horizon (`CarriesOn`), and a claim survives
  that (`ClaimCarriesOn`).

* `EvidenceProofs`.  `EvidenceInv` says where everything came from: what is published is
  material with an instant that has passed, and an id names one thing; an answer is `Answer`
  of what was known at some such instant; the evaluation is one of an answer.  It is inductive because
  what is published later has a later instant (`AddsLater`), so no answer changes its
  origin.  The properties are then about one answer, or two, and pure operators.

  For `SameKnowledgeSameSnapshot`, an answer sorts the latest bars by session.  A sequence of
  bars in order is unique (`RisingIsUnique`), and a filter is a fold that keeps the order
  (`AmongKeeps`), so what is left of two answers up to the cutoff is one sequence if it is one set
  (`ShowsTheSame`), and every validation sees the same (`SameKnowledge`).  For `WindowsAreFull`,
  totals and Wilder's average are folds that stay within bounds of what they add up
  (`TotalWithin`, `AverageWithin`), and the newest observation ranks at its own place or above (`RankFull`).
  `NothingElseIsRefused` rests on the same lemmas, with the events' places in the
  calendar (`EventsAreAhead`) and the drawdown (`DrawdownTyped`), and on the two validations of an answer, the
  transport's and the policy's, side by side (`AcceptedIsValid`).  It is about any tickers, any
  measure of a request's size and any closing times; a state is approved exactly if its names and events are
  (`RiskIsDefined`, `RequestsValidate`).  For `OneJudgmentOneView`, entry, hold and
  sprint are compared threshold by threshold.

  Two hypotheses are in the statements.  `VolatilityIsANumber`: the volatility of a window of
  positive prices is a number, which is what logarithms and a root of positive numbers give.
  `EntryIsStricter`: no threshold to enter is below the one to hold or to be an UP; nothing in the code
  compares them for a configuration, and `PolicyV1IsStricter` proves it of the one the program has.

Some theorems state properties no run checks any more, because they follow from an
invariant that a run does check and that is proved: `DeadLetterJustified`, `NeverStranded`,
`ReplayLineage`, `ReclaimGap`, `MissedForGood`, `CursorAdvances`, `OneActiveOutcome`,
`VisitsAgree`, `OneChain` and `BlockedForGood`; and `OneJudgmentOneView`, which compares the
thresholds of three policies and has no behaviour to check.

What the constants are assumed to be is what the instances are taken from: sets that are not
empty where one member is needed, bounds and delays that are natural numbers, and inputs
of the shapes the code accepts.  Of these, `ClockAssumption` says that the instants the runner's clock shows are
instants the queue may be given, `SubmissionsAssumption`, `TaskAssumption` and
`VisitAssumption` that requests are of the operations there are, `SymbolAssumption`
that the symbols are finitely many, and `DeskAssumption` that prices are natural numbers
and closes not zero; `RequestAssumption` says of the requests to the repository in memory what
the types of its methods say (`WellTyped`), and `LifeAssumption` that ids are numbers;
`PublicationsAssumption` says what kinds of requests publish a forecast, and
`CalendarAssumption` that the calendar is finite and has a session.  `EvidenceAssumption` is
the one the code does not enforce: that probabilities add up to exactly 1 (section 5).
`OthersAssumption` says of score records from elsewhere that they are one per id, distinct from the ledger's, and have
an outcome if they are resolved.  Of a provider, `MaterialAssumption` says that what it publishes has the
types of `contracts.ts`, that an id names one thing and that there is one bar per session and revision;
`InstantAssumption` that a day is two instants and sessions and bounds are natural numbers; `ContractAssumption` that each contract
has a flat band.  `HistoryRefinedHolds` has a hypothesis on a constant of the abstract
specification, that every positive number may be the id of an outcome.

Only model-checked: every liveness property (`EverySubmissionSettles`, `InvocationStops`,
`BehindIsSettled`, `EveryTransactionEnds`, `EveryRunEnds`, `EveryCallSettles`, `KnownIsSettled`), since liveness
under fairness and ENABLED are beyond the prover.  Every safety invariant a run checks is
proved, some under a hypothesis named above.

## 5. Disagreements found

* `root_publisher_refusal`: the publisher's three reads may straddle an append, and the
  exact replay of a root that has just been archived, or the rightful successor of one, is
  then refused as not retryable (`index.ts:174`), where the documents and tests call replay idempotent.
* `judgment_reset`: a connection reset inside a 200's body ends the call as
  INVALID_RESPONSE, not retryable (`openrouter.ts:285`); the integration notes
  classify network resets as retryable.

Read in the code while modelling, and not the subject of a run:

* The prototype plan (line 755) says an invocation near its deadline completes or releases
  its lease; the runner stops while it still holds a live one, as a fence until it
  runs out (`runner.ts:177`).  `JobRunner` has it so.
* The integration notes (`docs/research/jev-openrouter-integration.md:520`) honour a Retry-After
  that fits inside the run deadline.  `parseRetryAfter` cuts it to 5000 ms (`openrouter.ts:61`
  and `:63`) before it is compared with the deadline (`:397`), so a longer one that would fit is not waited
  for: the retry comes early.  `RetriesAreEarned` is about the code's wait.
* `snapshot.ts:350` takes any benchmark that has a name and is not the symbol; the request wants
  `/^[A-Z0-9._-]{1,32}$/` of both (`request.ts:119`).  `^GSPC` gives a snapshot and then
  INVALID_REQUEST.
* The type of an event is checked by the request alone (`request.ts:133`), where the
  snapshot trusts the provider's types; and a snapshot has any number of events, a request
  64 KiB (`request.ts:208`, PAYLOAD_TOO_LARGE).
* A snapshot may be built on the day of its cutoff session (`snapshot.ts:335` compares days), the
  ledger records it only from the instant of `cutoffAt` on (`in-memory.ts:110`).  Built in the morning
  and recorded with the close for its cutoff, it is refused.
* A forecast has one resolution job for good (`scheduler.ts:341`, deduplicated by
  `queue.ts:137` whatever its status), and there is no third end of a try: a pending verdict
  completes the job or fails the try.  With back-offs of at most five minutes a bar that is later than all the tries
  leaves the forecast published and its job a dead letter, until an operator replays it
  (`operatorReplay`).  The plan only says that a failed job leaves the forecast
  published until a later attempt (`docs/plans/2026-09-19-1020-`..., line 364), which is so.
* `enqueueDueOutcomeResolutions` throws for the whole batch at the first published forecast whose target
  lies beyond the calendar (`scheduler.ts:293`); those before it, by id, are enqueued, those after it are not.
  `DueForResolution` has it so; the calendar of the instance holds every target.
* Two overlapping invocations of the end-of-day scheduler that find no cursor each begin at the
  latest session they know of; if these differ by two, the session between is neither enqueued nor recorded.
* A judgment is accepted if its probabilities add up to 1 within 1e-3
  (`judgment/validation.ts:69`, `policy/judgment-validation.ts:46`), while the scorecard
  throws unless they do within 1e-12 (`scorecard/metrics.ts:27`).  One such forecast that
  is scored, and `aggregateScorecard` throws for all of them.  `Scorecard!Throws` says so; the
  instance has distributions that add up.
* `appendPaperEvent`, in memory and in SQL, never looks at the position an event is about,
  and `projectPaperPortfolio` throws at the first event that does not fit.  An
  event computed from a log that has moved on makes the portfolio unreadable for good: no
  correction can help, since the row stays.
* `correctForecastOutcome` of the repository in memory takes the event of one forecast with the
  outcome of another; each half is checked for itself.
* `recordVisitorPick` answers with the pick that is there under an identifier's record id,
  whoever made it: a visitor who sends the id of another's pick gets that pick.  Its own
  conflict (`in-memory.ts:730`) cannot be reached.
* `recordAnalyticsEvent` refuses an id it has, so that a retry throws where every other
  method replays.  Its SQL twin accepts it.
* `append_visitor_pick_result` asks for the active outcome before it looks for the result
  (`0001_immutable_ledger.up.sql:1753`): the retry of a result that was recorded is refused once the
  outcome has been corrected.  The repository in memory has no such method.
* A purge that commits between two statements of `record_visitor_pick` (line 1819) makes it
  fail on a NOT NULL column; nothing is left behind, and the retry succeeds.
* The triggers of job attempts order events by `clock_timestamp()` (lines 592 and 629).  If the clock of
  the server is set back between two events of an attempt, the earlier status is the present one from then on: no
  further event and no retry is accepted, and the operation is stuck.  The unique
  indexes still keep a try from ending twice.
* `append_job_attempt_event` compares the error code with `NULLIF(errorCode, '')` (line 1704) and
  inserts it as it is (line 1716): a failure with an empty code is accepted, and its retry refused.
* `purge_expired_identifiers` has no replay check: a repeated run id is refused, and what
  the repetition would have deleted stays.

## 6. Not modelled

`PROJECT.json` (`components`) gives the reason for each part.  In short:

* SQL functions about paper events and evidence.  The repository in
  memory keeps the same records and is modelled.
* Digests and hashing, the JSON parser, formats of ids, texts, legends and instants,
  weekends, currencies, exchanges and the list of allowed symbols.  What the code refuses for
  them the model never meets.  The names of symbol and benchmark, the types of events and the size of a request are
  modelled, because two validations disagree on them.
* An operator's replay of a resolution job (`operatorReplay` is modelled in the queue, not in
  `ForecastLife`), and what the executor of such a job would do besides: it is not in this commit.
* Logarithms, roots, log loss and rates; the metrics of the paper portfolio and of buy and hold.
* Provider rights and processor terms, in the ledger and in the gate: append-only rows and a
  stateless test of them.
* Configuration, logging, routes, rendering, and scripts that run once and keep nothing.

## 7. Plan

Written first, because everything else relies on them: queue and runner, then
scheduler, ledger, archive and publisher, transport; then the chain of evidence, the desk
and the forecast's life.  All of these have their safety properties proved.  What is left:

1. Abstract specifications of the desk (cash and positions of one account) and of the evidence (a
   snapshot as a function of a cutoff), each refined by its module.
2. The SQL functions of paper events, shown to accept what `Appendable` of `PaperPortfolio` accepts.
