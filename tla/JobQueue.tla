------------------------------ MODULE JobQueue ------------------------------
(***************************************************************************)
(* The job queue of modules/operations/jobs/queue.ts (InMemoryJobQueue):   *)
(* operations deduplicated by key, claimed under a fenced lease, retried   *)
(* with a back-off and dead-lettered when their attempts run out.          *)
(*                                                                         *)
(* Every instant is an input: each call of the queue is given the clock    *)
(* reading of its caller.  The module therefore has no clock of its own    *)
(* and lets a call use any instant, in any order, so that what is shown    *)
(* here does not rest on the callers' clocks agreeing.  A call may also    *)
(* present any lease ever handed out, however stale.                       *)
(*                                                                         *)
(* A call that throws before its first assignment changes nothing; it is   *)
(* a step that the action does not take.                                   *)
(*                                                                         *)
(* A definition introduced as "Bug:" is what a plausible mistake would     *)
(* make of the one that follows it.  Nothing uses it: it is there to check *)
(* that the properties would notice.                                       *)
(***************************************************************************)
EXTENDS Naturals

CONSTANTS
    Keys,        \* operation keys; jobs and keys are in bijection, and < is the order of job ids
    NoKey,       \* "replayOfOperationId is undefined"
    Workers,     \* worker ids
    Bodies,      \* what tells the payloads of two operations apart
    Notes,       \* the (requestedBy, reason) pairs of operator replays
    NoNote,      \* "the payload has no replay field"
    MaxAttempts, \* the largest maxAttempts an operation is enqueued with
    Instants,    \* the clock readings callers use
    LeaseMs,     \* lease length
    RetryDelay,  \* configured back-off, by attempt number
    MinBackoff,  \* MIN_LEASE_EXPIRY_BACKOFF_MS
    MaxBackoff   \* MAX_LEASE_EXPIRY_BACKOFF_MS

ASSUME KeysAssumption == Keys \subseteq Nat /\ NoKey \notin Keys
ASSUME NotesAssumption == NoNote \notin Notes
ASSUME AttemptsAssumption == MaxAttempts \in Nat \ {0}
ASSUME InstantsAssumption == Instants \subseteq Nat
ASSUME LeaseAssumption == LeaseMs \in Nat \ {0}
ASSUME DelayAssumption == RetryDelay \in [1..MaxAttempts -> Nat]
ASSUME BackoffAssumption ==
    MinBackoff \in Nat \ {0} /\ MaxBackoff \in Nat /\ MinBackoff <= MaxBackoff

VARIABLES
    job,       \* #jobs, by operation key
    attempts,  \* #attempts, by operation and attempt number
    nextToken, \* #nextId, as far as lease tokens are concerned
    issued,    \* history: every lease a claim handed out
    accepted   \* history: the leases whose succeed call returned

vars == <<job, attempts, nextToken, issued, accepted>>

-----------------------------------------------------------------------------
(* Types *)

Status == {"absent", "queued", "leased", "retryable", "succeeded", "dead_letter"}
Terminal == {"succeeded", "dead_letter"}

NoLease == [owner |-> "none", token |-> 0, until |-> 0]
ActiveLease == [owner: Workers, token: Nat, until: Nat] \cup {NoLease}

Payload == [body: Bodies, note: Notes \cup {NoNote}, failedAttempt: 0..MaxAttempts]

Job == [status: Status, payload: Payload \cup {NoKey}, replayOf: Keys \cup {NoKey},
        maxAttempts: 0..MaxAttempts, attemptCount: 0..MaxAttempts,
        availableAt: Nat, lease: ActiveLease]

AbsentJob == [status |-> "absent", payload |-> NoKey, replayOf |-> NoKey,
              maxAttempts |-> 0, attemptCount |-> 0,
              availableAt |-> 0, lease |-> NoLease]

NewJob(payload, max, replayOf, at) ==
    [status |-> "queued", payload |-> payload, replayOf |-> replayOf,
     maxAttempts |-> max, attemptCount |-> 0,
     availableAt |-> at, lease |-> NoLease]

Codes == {"none", "lease_expired", "completed_late", "released", "transient", "final"}
Attempt == [worker: Workers, status: {"evaluating", "succeeded", "failed"}, code: Codes]
NoAttempt == [worker |-> "none", status |-> "none", code |-> "none"]

\* What a worker is handed by claim and shows again with every later call.
Lease == [key: Keys, attempt: 1..MaxAttempts, owner: Workers, token: Nat]

TypeOK ==
    /\ job \in [Keys -> Job]
    /\ attempts \in [Keys -> [1..MaxAttempts -> Attempt \cup {NoAttempt}]]
    /\ nextToken \in Nat \ {0}
    /\ issued \subseteq Lease
    /\ accepted \subseteq issued

-----------------------------------------------------------------------------
(* Helpers *)

Exists(k) == job[k].status # "absent"

HasAttemptsLeft(j) == j.attemptCount < j.maxAttempts

\* Bug: an expired lease is retried after the configured delay, however short.
UnclampedDelay(n) == RetryDelay[n]

\* #retryAt after a lease expiry: the configured delay, clamped on both sides.
ClampedDelay(n) ==
    LET floored == IF RetryDelay[n] < MinBackoff THEN MinBackoff ELSE RetryDelay[n]
    IN  IF floored > MaxBackoff THEN MaxBackoff ELSE floored

\* #activeAttempt finds the attempt to close, or throws.
HasActiveAttempt(k) ==
    /\ job[k].attemptCount > 0
    /\ attempts[k][job[k].attemptCount].status = "evaluating"

\* #completeActiveAttempt: the attempt under evaluation gets its final status.
Close(k, status, code) ==
    [attempts[k] EXCEPT ![job[k].attemptCount] =
        [worker |-> @.worker, status |-> status, code |-> code]]

\* Bug: any lease of a leased job will do.
LeasedAtAll(l) == job[l.key].status = "leased"

\* #requireLeaseToken: the lease presented is the one the job is under.
HoldsToken(l) ==
    /\ job[l.key].status = "leased"
    /\ job[l.key].lease.token = l.token
    /\ job[l.key].lease.owner = l.owner
    /\ job[l.key].attemptCount = l.attempt

\* #requireLiveLease
HoldsLive(l, at) == HoldsToken(l) /\ job[l.key].lease.until > at

\* The job as fail, release and the expiry sweep leave it when it may run again.
Retried(j, at) == [j EXCEPT !.status = "retryable", !.availableAt = at, !.lease = NoLease]

\* The job as claim hands it out.
Granted(j, w, token, until) ==
    [j EXCEPT !.status = "leased", !.attemptCount = @ + 1,
              !.lease = [owner |-> w, token |-> token, until |-> until]]

\* The job as fail, release and the sweep leave it when it may not run again.
Buried(j, at) == [j EXCEPT !.status = "dead_letter", !.availableAt = at, !.lease = NoLease]

-----------------------------------------------------------------------------
(* Enqueue and replay *)

Init ==
    /\ job = [k \in Keys |-> AbsentJob]
    /\ attempts = [k \in Keys |-> [n \in 1..MaxAttempts |-> NoAttempt]]
    /\ nextToken = 1
    /\ issued = {}
    /\ accepted = {}

\* enqueue with a key not seen before.  With a known key the call returns the
\* existing job or throws JobQueueConflictError, and changes nothing.
Enqueue(k, payload, max, replayOf, at) ==
    /\ ~Exists(k)
    /\ replayOf # NoKey => Exists(replayOf)
    /\ job' = [job EXCEPT ![k] = NewJob(payload, max, replayOf, at)]
    /\ UNCHANGED <<attempts, nextToken, issued, accepted>>

\* operatorReplay: a new operation, linked to the attempt that failed for good.
OperatorReplay(original, k, note, at) ==
    /\ job[original].status = "dead_letter"
    /\ Enqueue(k, [job[original].payload EXCEPT
                      !.note = note, !.failedAttempt = job[original].attemptCount],
               job[original].maxAttempts, original, at)

-----------------------------------------------------------------------------
(* Claim *)

Expired(k, at) == job[k].status = "leased" /\ job[k].lease.until <= at

\* Bug: the sweep makes every expired job retryable.
SweptWithoutLimit(at) ==
    [k \in Keys |->
        IF Expired(k, at)
        THEN Retried(job[k], at + ClampedDelay(job[k].attemptCount))
        ELSE job[k]]

\* One pass of claim over the jobs first ends every lease that ran out.
Swept(at) ==
    [k \in Keys |->
        IF ~Expired(k, at) THEN job[k]
        ELSE IF HasAttemptsLeft(job[k])
             THEN Retried(job[k], at + ClampedDelay(job[k].attemptCount))
             ELSE Buried(job[k], job[k].availableAt)]

\* Bug: the sweep ends the lease and leaves the attempt open.
SweptAttemptsLeftOpen(at) == attempts

SweptAttempts(at) ==
    [k \in Keys |-> IF Expired(k, at)
                    THEN Close(k, "failed", "lease_expired")
                    ELSE attempts[k]]

Eligible(j, at) ==
    /\ j.status \in {"queued", "retryable"}
    /\ j.availableAt <= at
    /\ HasAttemptsLeft(j)

\* The candidate is the eligible job available longest; the id breaks a tie.
IsCandidate(jobs, k, at) ==
    /\ Eligible(jobs[k], at)
    /\ \A m \in Keys : Eligible(jobs[m], at) =>
         \/ jobs[k].availableAt < jobs[m].availableAt
         \/ jobs[k].availableAt = jobs[m].availableAt /\ k <= m

\* An expired lease without an attempt to close would make claim throw.
SweepDefined(at) == \A k \in Keys : Expired(k, at) => HasActiveAttempt(k)

ClaimJob(w, k, at) ==
    /\ SweepDefined(at)
    /\ IsCandidate(Swept(at), k, at)
    /\ job' = [Swept(at) EXCEPT ![k] = Granted(@, w, nextToken, at + LeaseMs)]
    /\ attempts' = [SweptAttempts(at) EXCEPT
                      ![k][job[k].attemptCount + 1] =
                          [worker |-> w, status |-> "evaluating", code |-> "none"]]
    /\ nextToken' = nextToken + 1
    /\ issued' = issued \cup {[key |-> k, attempt |-> job[k].attemptCount + 1,
                               owner |-> w, token |-> nextToken]}
    /\ UNCHANGED accepted

\* claim returns null, yet the leases it found expired stay ended.
ClaimNothing(at) ==
    /\ SweepDefined(at)
    /\ \A k \in Keys : ~Eligible(Swept(at)[k], at)
    /\ job' = Swept(at)
    /\ attempts' = SweptAttempts(at)
    /\ UNCHANGED <<nextToken, issued, accepted>>

-----------------------------------------------------------------------------
(* The calls of a lease holder *)

Heartbeat(l, at) ==
    /\ HoldsLive(l, at)
    /\ job' = [job EXCEPT ![l.key].lease.until = at + LeaseMs]
    /\ UNCHANGED <<attempts, nextToken, issued, accepted>>

Succeed(l, at) ==
    /\ HoldsLive(l, at)
    /\ HasActiveAttempt(l.key)
    /\ attempts' = [attempts EXCEPT ![l.key] = Close(l.key, "succeeded", "none")]
    /\ job' = [job EXCEPT ![l.key] = [@ EXCEPT !.status = "succeeded", !.lease = NoLease]]
    /\ accepted' = accepted \cup {l}
    /\ UNCHANGED <<nextToken, issued>>

\* The handler returned after its lease ran out but before anyone swept it:
\* terminal, for operator inspection, instead of running the work again.
ReconcileExpired(l, at) ==
    /\ HoldsToken(l)
    /\ job[l.key].lease.until <= at
    /\ HasActiveAttempt(l.key)
    /\ attempts' = [attempts EXCEPT ![l.key] = Close(l.key, "failed", "completed_late")]
    /\ job' = [job EXCEPT ![l.key] = Buried(@, at)]
    /\ UNCHANGED <<nextToken, issued, accepted>>

\* Bug: a transient failure is retried though it was the last attempt.
FailWithoutLimit(l, retryable, at) ==
    /\ HoldsLive(l, at)
    /\ HasActiveAttempt(l.key)
    /\ attempts' = [attempts EXCEPT ![l.key] =
                      Close(l.key, "failed", IF retryable THEN "transient" ELSE "final")]
    /\ job' = [job EXCEPT ![l.key] =
                 IF retryable
                 THEN Retried(@, at + RetryDelay[job[l.key].attemptCount])
                 ELSE Buried(@, at)]
    /\ UNCHANGED <<nextToken, issued, accepted>>

Fail(l, retryable, at) ==
    /\ HoldsLive(l, at)
    /\ HasActiveAttempt(l.key)
    /\ attempts' = [attempts EXCEPT ![l.key] =
                      Close(l.key, "failed", IF retryable THEN "transient" ELSE "final")]
    /\ job' = [job EXCEPT ![l.key] =
                 IF retryable /\ HasAttemptsLeft(@)
                 THEN Retried(@, at + RetryDelay[job[l.key].attemptCount])
                 ELSE Buried(@, at)]
    /\ UNCHANGED <<nextToken, issued, accepted>>

\* release: needs the token only; the delay is clamped when the code is LEASE_EXPIRED.
Release(l, code, at) ==
    /\ HoldsToken(l)
    /\ HasActiveAttempt(l.key)
    /\ attempts' = [attempts EXCEPT ![l.key] = Close(l.key, "failed", code)]
    /\ job' = [job EXCEPT ![l.key] =
                 IF HasAttemptsLeft(@)
                 THEN Retried(@, at + (IF code = "lease_expired"
                                       THEN ClampedDelay(job[l.key].attemptCount)
                                       ELSE RetryDelay[job[l.key].attemptCount]))
                 ELSE Buried(@, at)]
    /\ UNCHANGED <<nextToken, issued, accepted>>

-----------------------------------------------------------------------------
(* Specification *)

PlainPayload(b) == [body |-> b, note |-> NoNote, failedAttempt |-> 0]

Submission ==
    \E k \in Keys, at \in Instants :
        \/ \E b \in Bodies, max \in 1..MaxAttempts, r \in Keys \cup {NoKey} :
              Enqueue(k, PlainPayload(b), max, r, at)
        \/ \E original \in Keys, note \in Notes : OperatorReplay(original, k, note, at)

Claim ==
    \E at \in Instants :
        \/ \E w \in Workers, k \in Keys : ClaimJob(w, k, at)
        \/ ClaimNothing(at)

HolderCall ==
    \E l \in issued, at \in Instants :
        \/ Heartbeat(l, at)
        \/ Succeed(l, at)
        \/ ReconcileExpired(l, at)
        \/ \E retryable \in BOOLEAN : Fail(l, retryable, at)
        \/ \E code \in {"released", "lease_expired"} : Release(l, code, at)

Next == Submission \/ Claim \/ HolderCall

Spec == Init /\ [][Next]_vars

-----------------------------------------------------------------------------
(* What must hold *)

LastAttempt(k) == attempts[k][job[k].attemptCount]

\* A job under a lease has exactly one attempt under evaluation, its last one;
\* every earlier attempt has failed; the status of the job and the status of
\* its last attempt tell the same story.  Expiry, late completion, failure,
\* release and success each close the attempt and the lease together (queue.ts
\* #completeActiveAttempt, #clearLease), so #activeAttempt never throws.
AttemptLedger ==
    \A k \in Keys :
        /\ job[k].attemptCount <= job[k].maxAttempts
        /\ \A n \in 1..MaxAttempts :
             /\ n < job[k].attemptCount => attempts[k][n].status = "failed"
             /\ n > job[k].attemptCount => attempts[k][n] = NoAttempt
        /\ job[k].status \in {"absent", "queued"} <=> job[k].attemptCount = 0
        /\ job[k].status = "leased" => LastAttempt(k).status = "evaluating"
        /\ job[k].status = "succeeded" => LastAttempt(k).status = "succeeded"
        /\ job[k].status \in {"retryable", "dead_letter"} => LastAttempt(k).status = "failed"

\* A worker is told its work succeeded only for the last attempt of the job,
\* the one made under its own lease, and no two workers are told so for one
\* job, whatever stale leases are still around (#requireLiveLease).
AcceptedOnce ==
    /\ \A l \in accepted :
         /\ job[l.key].status = "succeeded"
         /\ l.attempt = job[l.key].attemptCount
         /\ LastAttempt(l.key).worker = l.owner
    /\ \A l, m \in accepted : l.key = m.key => l = m
    /\ \A k \in Keys : job[k].status = "succeeded" => \E l \in accepted : l.key = k

\* A dead letter is owed to its attempts running out, to a failure classified
\* as final, or to work that completed after its lease expired; never to a
\* transient failure or an expiry with attempts left (queue.ts fail, claim).
DeadLetterJustified ==
    \A k \in Keys : job[k].status = "dead_letter" =>
        \/ job[k].attemptCount = job[k].maxAttempts
        \/ LastAttempt(k).code \in {"final", "completed_late"}

\* A job with attempts left can always be claimed again some day: it is never
\* parked as queued or retryable with its attempts used up, a state in which
\* claim skips it for ever.
NeverStranded ==
    \A k \in Keys : job[k].status \in {"queued", "retryable"} => HasAttemptsLeft(job[k])

\* An operator replay points at the attempt that failed for good: the original
\* is still a dead letter and that attempt is still its last.
ReplayLineage ==
    \A k \in Keys : Exists(k) /\ job[k].payload.note # NoNote =>
        LET original == job[k].replayOf
        IN  /\ original # NoKey
            /\ job[original].status = "dead_letter"
            /\ job[k].payload.failedAttempt = job[original].attemptCount
            /\ LastAttempt(original).status = "failed"

\* The history of attempts is append-only: a closed attempt never changes.
ClosedAttemptsFrozen ==
    [][\A k \in Keys : \A n \in 1..MaxAttempts :
          attempts[k][n].status \in {"succeeded", "failed"}
              => attempts'[k][n] = attempts[k][n]]_vars

\* What an operation was enqueued with never changes, however often its key is
\* submitted again: enqueue either returns the first job or throws.
SignatureFrozen ==
    [][\A k \in Keys : Exists(k) =>
          /\ job'[k].payload = job[k].payload
          /\ job'[k].maxAttempts = job[k].maxAttempts
          /\ job'[k].replayOf = job[k].replayOf]_vars

-----------------------------------------------------------------------------
(* The abstract specification this one implements *)

Phase(status) ==
    CASE status = "absent" -> "unborn"
      [] status \in {"queued", "retryable"} -> "waiting"
      [] status = "leased" -> "running"
      [] status = "succeeded" -> "done"
      [] status = "dead_letter" -> "dead"

Lifecycle == INSTANCE JobLifecycle WITH
    phase <- [k \in Keys |-> Phase(job[k].status)],
    tries <- [k \in Keys |-> job[k].attemptCount],
    limit <- [k \in Keys |-> job[k].maxAttempts]

\* Refinement: whatever the callers and their clocks do, each operation goes
\* through its tries one at a time, never leaves a terminal status, and no
\* single claim both ends a lease and hands the same job out again (the
\* back-off of an expired lease is at least one second, queue.ts #retryAt).
LifecycleRefined == Lifecycle!Spec

=============================================================================
