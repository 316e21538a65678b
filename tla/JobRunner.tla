----------------------------- MODULE JobRunner ------------------------------
(***************************************************************************)
(* Bounded invocations over the job queue (modules/operations/jobs/        *)
(* runner.ts, runBoundedInvocation).  Several invocations run at once,     *)
(* each in its own process with its own worker id, over one queue and one  *)
(* real-time clock.  A handler that misses the deadline is abandoned, not  *)
(* stopped: Promise.race returns and the handler goes on as a stray.  A    *)
(* process may be terminated at any point.                                 *)
(*                                                                         *)
(* The code between two awaits is one step, taken at one reading of the    *)
(* clock.  Definitions introduced as "Bug:" are as in JobQueue.            *)
(***************************************************************************)
EXTENDS JobQueue, FiniteSets

CONSTANTS
    MaxTime,        \* bound: the clock stops here
    Budget,         \* an invocation's deadline, counted from its start
    MinClaimBudget, \* minimumClaimBudgetMs
    MaxClaims,      \* maxClaims
    Submissions     \* what the schedulers enqueue: records of key, max and due

ASSUME RunnerAssumption ==
    /\ MaxTime \in Nat /\ Budget \in Nat /\ MinClaimBudget \in Nat
    /\ MaxClaims \in Nat \ {0}

\* The queue is called with the readings of the runner's clock.
ASSUME ClockAssumption == 0..MaxTime \subseteq Instants

ASSUME SubmissionsAssumption ==
    \A s \in Submissions : s.key \in Keys /\ s.max \in 1..MaxAttempts /\ s.due \in Instants

VARIABLES
    now,    \* the clock
    run,    \* the invocation of each worker id
    strays  \* leases whose handler outlived the deadline of its invocation

runnerVars == <<vars, now, run, strays>>

-----------------------------------------------------------------------------
(* Invocations *)

NoHold == [key |-> 0, attempt |-> 0, owner |-> "none", token |-> 0]

Counters == {"claimed", "succeeded", "failed", "released", "lost", "expired"}
Stops == {"none", "QUEUE_EMPTY", "DEADLINE_REACHED", "MAX_CLAIMS"}

Invocation == [phase: {"idle", "claiming", "running", "stopped", "terminated"},
               stop: Stops, deadline: Nat,
               lease: Lease \cup {NoHold}, until: Nat,
               counts: [Counters -> Nat]]

IdleInvocation == [phase |-> "idle", stop |-> "none", deadline |-> 0,
                   lease |-> NoHold, until |-> 0,
                   counts |-> [c \in Counters |-> 0]]

RunnerTypeOK ==
    /\ now \in 0..MaxTime
    /\ run \in [Workers -> Invocation]
    /\ strays \subseteq issued

RunnerInit ==
    /\ Init
    /\ now = 0
    /\ run = [w \in Workers |-> IdleInvocation]
    /\ strays = {}

\* `remaining(clock, deadlineAt) < n`
RemainingBelow(w, n) == run[w].deadline < now + n
PastDeadline(w) == run[w].deadline <= now

Counted(w, fate) == [run[w].counts EXCEPT ![fate] = @ + 1]

\* The head of the loop: count the claim's fate, then go on or stop.
NextClaim(w, fate) ==
    LET more == run[w].counts["claimed"] < MaxClaims
    IN  run' = [run EXCEPT ![w] =
                  [@ EXCEPT !.phase = IF more THEN "claiming" ELSE "stopped",
                            !.stop = IF more THEN "none" ELSE "MAX_CLAIMS",
                            !.counts = Counted(w, fate), !.lease = NoHold, !.until = 0]]

\* Count the claim's fate and leave the loop: the deadline is over.
StopAfter(w, fate) ==
    run' = [run EXCEPT ![w] =
              [@ EXCEPT !.phase = "stopped", !.stop = "DEADLINE_REACHED",
                        !.counts = Counted(w, fate), !.lease = NoHold, !.until = 0]]

\* Leave the loop with a stop reason.
StopFor(w, reason) ==
    run' = [run EXCEPT ![w] = [@ EXCEPT !.phase = "stopped", !.stop = reason]]

-----------------------------------------------------------------------------
(* Steps of the loop *)

StartInvocation(w) ==
    /\ run[w].phase = "idle"
    /\ now + Budget <= MaxTime   \* bound: the deadline is within the clock's range
    /\ run' = [run EXCEPT ![w] = [@ EXCEPT !.phase = "claiming", !.deadline = now + Budget]]
    /\ UNCHANGED <<vars, now, strays>>

OutOfBudget(w) ==
    /\ run[w].phase = "claiming"
    /\ RemainingBelow(w, MinClaimBudget)
    /\ StopFor(w, "DEADLINE_REACHED")
    /\ UNCHANGED <<vars, now, strays>>

FindEmpty(w) ==
    /\ run[w].phase = "claiming"
    /\ ~RemainingBelow(w, MinClaimBudget)
    /\ ClaimNothing(now)
    /\ StopFor(w, "QUEUE_EMPTY")
    /\ UNCHANGED <<now, strays>>

\* The claim and the start of the handler: nothing is awaited in between.
StartHandler(w, k) ==
    /\ run[w].phase = "claiming"
    /\ ~RemainingBelow(w, MinClaimBudget)
    /\ ClaimJob(w, k, now)
    /\ run' = [run EXCEPT ![w] =
                 [@ EXCEPT !.phase = "running",
                           !.lease = [key |-> k, attempt |-> job'[k].attemptCount,
                                      owner |-> w, token |-> nextToken],
                           !.until = now + LeaseMs,
                           !.counts = Counted(w, "claimed")]]
    /\ UNCHANGED <<now, strays>>

\* Bug: the runner keeps the lease it was first given.
RenewQueueOnly(w) ==
    /\ run[w].phase = "running"
    /\ Heartbeat(run[w].lease, now)
    /\ UNCHANGED <<now, run, strays>>

\* ctx.heartbeat(): the runner's copy of the lease is replaced as well.
RenewLease(w) ==
    /\ run[w].phase = "running"
    /\ Heartbeat(run[w].lease, now)
    /\ run' = [run EXCEPT ![w].until = now + LeaseMs]
    /\ UNCHANGED <<now, strays>>

\* Bug: a lease left behind as a fence is counted as released.
RecoverCountsFence(w, retryable, deadlineFired) ==
    LET l == run[w].lease
        over == deadlineFired \/ PastDeadline(w)
        expired == run[w].until <= now
    IN  \/ /\ ~HoldsToken(l)
           /\ IF over THEN StopAfter(w, "lost") ELSE NextClaim(w, "lost")
           /\ UNCHANGED vars
        \/ /\ HoldsToken(l) /\ expired
           /\ Release(l, "lease_expired", now)
           /\ IF over THEN StopAfter(w, "released") ELSE NextClaim(w, "released")
        \/ /\ HoldsToken(l) /\ ~expired /\ over
           /\ StopAfter(w, "released")
           /\ UNCHANGED vars
        \/ /\ HoldsToken(l) /\ ~expired /\ ~over
           /\ Fail(l, retryable, now)
           /\ NextClaim(w, "failed")

\* Bug: an expired lease counts as released, whoever ended it.
RecoverUnowned(w, retryable, deadlineFired) ==
    LET l == run[w].lease
        over == deadlineFired \/ PastDeadline(w)
        expired == run[w].until <= now
    IN  \/ /\ expired
           /\ IF HoldsToken(l) THEN Release(l, "lease_expired", now) ELSE UNCHANGED vars
           /\ IF over THEN StopAfter(w, "released") ELSE NextClaim(w, "released")
        \/ /\ ~expired /\ over
           /\ StopFor(w, "DEADLINE_REACHED")
           /\ UNCHANGED vars
        \/ /\ HoldsToken(l) /\ ~expired /\ ~over
           /\ Fail(l, retryable, now)
           /\ NextClaim(w, "failed")

\* The catch block, given whether the failure may be retried.
Recover(w, retryable, deadlineFired) ==
    LET l == run[w].lease
        over == deadlineFired \/ PastDeadline(w)
        expired == run[w].until <= now
    IN  \/ /\ ~HoldsToken(l)
           /\ IF over THEN StopAfter(w, "lost") ELSE NextClaim(w, "lost")
           /\ UNCHANGED vars
        \/ /\ HoldsToken(l) /\ expired
           /\ Release(l, "lease_expired", now)
           /\ IF over THEN StopAfter(w, "released") ELSE NextClaim(w, "released")
        \/ /\ HoldsToken(l) /\ ~expired /\ over
           /\ StopFor(w, "DEADLINE_REACHED")   \* the lease stays, as a fence
           /\ UNCHANGED vars
        \/ /\ HoldsToken(l) /\ ~expired /\ ~over
           /\ Fail(l, retryable, now)
           /\ NextClaim(w, "failed")

\* Bug: a late completion is reported as a success.
HandlerReturnsGladly(w) ==
    LET l == run[w].lease
        late == run[w].until <= now
    IN  /\ run[w].phase = "running"
        /\ \/ late /\ ReconcileExpired(l, now) /\ NextClaim(w, "succeeded")
           \/ ~late /\ Succeed(l, now) /\ NextClaim(w, "succeeded")
        /\ UNCHANGED <<now, strays>>

\* The handler returned before the race was lost.
HandlerReturns(w) ==
    LET l == run[w].lease
        late == run[w].until <= now
    IN  /\ run[w].phase = "running"
        /\ \/ late /\ ReconcileExpired(l, now) /\ NextClaim(w, "expired")
           \/ ~late /\ Succeed(l, now) /\ NextClaim(w, "succeeded")
           \/ /\ IF late THEN ~HoldsToken(l) \/ HoldsLive(l, now) ELSE ~HoldsLive(l, now)
              /\ Recover(w, TRUE, FALSE)       \* the queue threw JobLeaseError
        /\ UNCHANGED <<now, strays>>

\* The handler threw; only a JobExecutionError may forbid the retry.
HandlerThrows(w, retryable) ==
    /\ run[w].phase = "running"
    /\ Recover(w, retryable, FALSE)
    /\ UNCHANGED <<now, strays>>

\* Bug: a handler that lost its lease is waited for.
DeadlineFiresWhileOwned(w) ==
    /\ run[w].phase = "running"
    /\ PastDeadline(w)
    /\ HoldsToken(run[w].lease)
    /\ Recover(w, TRUE, TRUE)
    /\ strays' = strays \cup {run[w].lease}
    /\ UNCHANGED now

\* The timer won the race: the handler is told to abort and left behind.
DeadlineFires(w) ==
    /\ run[w].phase = "running"
    /\ PastDeadline(w)
    /\ Recover(w, TRUE, TRUE)
    /\ strays' = strays \cup {run[w].lease}
    /\ UNCHANGED now

-----------------------------------------------------------------------------
(* The environment *)

\* A stray handler still holds its context and may renew its old lease...
StrayRenews(l) ==
    /\ l \in strays
    /\ Heartbeat(l, now)
    /\ UNCHANGED <<now, run, strays>>

\* ...until it ends; nobody listens to its result.
StrayEnds(l) ==
    /\ l \in strays
    /\ strays' = strays \ {l}
    /\ UNCHANGED <<vars, now, run>>

\* The platform terminates the process, with every handler it runs.
Terminate(w) ==
    /\ run[w].phase \in {"claiming", "running"}
    /\ run' = [run EXCEPT ![w].phase = "terminated"]
    /\ UNCHANGED <<vars, now, strays>>

Schedule ==
    /\ \E s \in Submissions, b \in Bodies :
          Enqueue(s.key, PlainPayload(b), s.max, NoKey, s.due)
    /\ UNCHANGED <<now, run, strays>>

Tick ==
    /\ now < MaxTime
    /\ now' = now + 1
    /\ UNCHANGED <<vars, run, strays>>

-----------------------------------------------------------------------------
(* Specification *)

InvocationStep(w) ==
    \/ StartInvocation(w)
    \/ OutOfBudget(w)
    \/ FindEmpty(w)
    \/ \E k \in Keys : StartHandler(w, k)
    \/ RenewLease(w)
    \/ HandlerReturns(w)
    \/ \E retryable \in BOOLEAN : HandlerThrows(w, retryable)
    \/ DeadlineFires(w)
    \/ Terminate(w)

RunnerNext ==
    \/ \E w \in Workers : InvocationStep(w)
    \/ \E l \in strays : StrayRenews(l) \/ StrayEnds(l)
    \/ Schedule
    \/ Tick

RunnerSpec == RunnerInit /\ [][RunnerNext]_runnerVars

\* The clock runs, the synchronous part of the loop is carried out and the
\* deadline timer fires.  Handlers need not return, renew or end.
FairRunnerSpec ==
    /\ RunnerSpec
    /\ WF_runnerVars(Tick)
    /\ \A w \in Workers :
        WF_runnerVars(OutOfBudget(w) \/ FindEmpty(w) \/ \E k \in Keys : StartHandler(w, k))
    /\ \A w \in Workers : WF_runnerVars(DeadlineFires(w))

-----------------------------------------------------------------------------
(* What must hold *)

\* While the runner takes its lease for live, so does the queue, and until the
\* same instant: the check it makes on its own copy (runner.ts, completion and
\* catch) is never stale, and neither succeed nor fail can throw because of it.
FencedWhileLive ==
    \A w \in Workers : run[w].phase = "running" /\ run[w].until > now =>
        /\ HoldsLive(run[w].lease, now)
        /\ job[run[w].lease.key].lease.until = run[w].until

\* A second handler for a job starts while a first one may still be running
\* only after the lease of the first has been over for the minimum back-off
\* (queue.ts #retryAt clamps the delay of an expired lease from below).
ReclaimGap ==
    [][\A v, w \in Workers :
          (/\ run[v].phase = "running"
           /\ run[w].phase = "claiming" /\ run'[w].phase = "running"
           /\ run'[w].lease.key = run[v].lease.key)
          => run[v].until + MinBackoff <= now]_runnerVars

Made(w, statuses, codes) ==
    {try \in Keys \X (1..MaxAttempts) :
        LET attempt == attempts[try[1]][try[2]]
        IN  attempt.worker = w /\ attempt.status \in statuses /\ attempt.code \in codes}

\* The claim an invocation has not reported the end of: its handler runs, the
\* lease was left behind as a fence, or the process died with it.
OpenClaim(w) ==
    IF run[w].lease = NoHold THEN {} ELSE {<<run[w].lease.key, run[w].lease.attempt>>}

\* The report of an invocation agrees with the attempts the queue recorded for
\* its worker id: success for success, failure for failure, late completion for
\* late completion; each lease that expired is counted once, as released or as
\* lost, and not yet while it is the open claim.  A fence left at the deadline
\* (runner.ts:177) is the one claim of a stopped invocation under no counter.
ReportMatchesQueue ==
    \A w \in Workers :
        LET c == run[w].counts
        IN  /\ Cardinality(Made(w, {"succeeded"}, Codes)) = c["succeeded"]
            /\ Cardinality(Made(w, {"failed"}, {"transient", "final"})) = c["failed"]
            /\ Cardinality(Made(w, {"failed"}, {"completed_late"})) = c["expired"]
            /\ Cardinality(Made(w, {"failed"}, {"lease_expired"}) \ OpenClaim(w))
                 = c["released"] + c["lost"]
            /\ Cardinality(Made(w, {"evaluating", "succeeded", "failed"}, Codes)) = c["claimed"]
            /\ c["claimed"] = c["succeeded"] + c["failed"] + c["expired"]
                                + c["released"] + c["lost"] + Cardinality(OpenClaim(w))

\* What the report calls released, this invocation ended itself, in the same step,
\* while it was still the holder; what it calls lost, somebody else's claim had
\* swept before (runner.ts ownsLease, asked again after every await).
ReleasedOrLost ==
    [][\A w \in Workers :
          LET l == run[w].lease
              swept == [worker |-> w, status |-> "failed", code |-> "lease_expired"]
              Up(fate) == run[w].counts[fate] < run'[w].counts[fate]
          IN  /\ Up("released") =>
                   /\ attempts[l.key][l.attempt].status = "evaluating"
                   /\ attempts'[l.key][l.attempt] = swept
              /\ Up("lost") =>
                   /\ attempts[l.key][l.attempt] = swept
                   /\ attempts' = attempts]_runnerVars

\* An invocation never outlives its deadline for good: the loop stops even
\* when its handler hangs, the queue is never empty and every job fails.
InvocationStops ==
    \A w \in Workers :
        run[w].phase \in {"claiming", "running"} ~> run[w].phase \in {"stopped", "terminated"}
=============================================================================
