------------------------------ MODULE JobProofs ------------------------------
(***************************************************************************)
(* Proofs about JobQueue, for every set of keys and workers, every bound   *)
(* on attempts, every back-off and every choice of instants, and about     *)
(* JobRunner, which drives the queue, for any number of invocations, jobs  *)
(* and claims, any deadline and any length of lease.                       *)
(*                                                                         *)
(* A step of the queue is first reduced to what it does to each single     *)
(* operation (KeyStep); the queue's invariants are about one operation and *)
(* the attempts made for it, so that is all their proofs have to look at.  *)
(* Nothing of the runner, neither its constants nor its assumptions, is    *)
(* used there.                                                             *)
(*                                                                         *)
(* Every step of the runner is then shown to be a step of the queue, or to *)
(* leave the queue alone, so all that is shown of the queue is known of    *)
(* the runner's.  What is new is about two copies of one fact: the lease a *)
(* running invocation remembers and the one the queue has on record, and   *)
(* the counters of an invocation and the attempts made in its name.        *)
(*                                                                         *)
(* EodScheduler, which says what is enqueued, comes last and shares no     *)
(* state with the other two.  What it promises depends on how its caller   *)
(* uses it.  Two conditions on the caller appear as hypotheses: its        *)
(* invocations do not overlap (Serial), or the cursors have a value from   *)
(* the start.                                                              *)
(***************************************************************************)
EXTENDS JobRunner, EodScheduler, FiniteSetTheorems, TLAPS

Numbers == 1..MaxAttempts
HeldLease == [owner: Workers, token: Nat, until: Nat]
AttemptTable == [Numbers -> Attempt \cup {NoAttempt}]

-----------------------------------------------------------------------------
(* What a step does to one operation *)

Untouched(k) == job'[k] = job[k] /\ attempts'[k] = attempts[k]

Created(k) ==
    /\ job[k].status = "absent"
    /\ \E payload \in Payload, max \in Numbers, r \in Keys \cup {NoKey}, at \in Nat :
         job'[k] = NewJob(payload, max, r, at)
    /\ attempts'[k] = attempts[k]

Claimed(k) ==
    /\ job[k].status \in {"queued", "retryable"}
    /\ HasAttemptsLeft(job[k])
    /\ \E w \in Workers, until \in Nat :
         /\ job'[k] = Granted(job[k], w, nextToken, until)
         /\ attempts'[k] = [attempts[k] EXCEPT ![job[k].attemptCount + 1] =
                              [worker |-> w, status |-> "evaluating", code |-> "none"]]

Renewed(k) ==
    /\ job[k].status = "leased"
    /\ \E until \in Nat : job'[k] = [job[k] EXCEPT !.lease.until = until]
    /\ attempts'[k] = attempts[k]

Completed(k) ==
    /\ job[k].status = "leased"
    /\ HasActiveAttempt(k)
    /\ job'[k] = [job[k] EXCEPT !.status = "succeeded", !.lease = NoLease]
    /\ attempts'[k] = Close(k, "succeeded", "none")

\* The attempt under evaluation failed.
Ended(k) ==
    /\ job[k].status = "leased"
    /\ HasActiveAttempt(k)
    /\ \E code \in Codes, at \in Nat :
         /\ attempts'[k] = Close(k, "failed", code)
         /\ \/ /\ HasAttemptsLeft(job[k])
               /\ job'[k] = Retried(job[k], at)
            \/ /\ ~HasAttemptsLeft(job[k]) \/ code \in {"final", "completed_late"}
               /\ job'[k] = Buried(job[k], at)

KeyStep(k) ==
    Untouched(k) \/ Created(k) \/ Claimed(k) \/ Renewed(k) \/ Completed(k) \/ Ended(k)

-----------------------------------------------------------------------------
(* The inductive invariant, for one operation *)

\* Parts of the properties of JobQueue, and two facts that make them inductive:
\* an operation that exists has a payload, and the attempt under evaluation was
\* made by the owner of the lease.
JobInv(k) ==
    /\ job[k].attemptCount <= job[k].maxAttempts
    /\ \A n \in Numbers :
         /\ n < job[k].attemptCount => attempts[k][n].status = "failed"
         /\ n > job[k].attemptCount => attempts[k][n] = NoAttempt
    /\ (job[k].status \in {"absent", "queued"}) <=> (job[k].attemptCount = 0)
    /\ job[k].status = "leased" =>
         /\ job[k].lease \in HeldLease
         /\ LastAttempt(k).status = "evaluating"
         /\ LastAttempt(k).worker = job[k].lease.owner
    /\ job[k].status = "succeeded" => LastAttempt(k).status = "succeeded"
    /\ job[k].status \in {"retryable", "dead_letter"} => LastAttempt(k).status = "failed"
    /\ job[k].status \in {"queued", "retryable"} => HasAttemptsLeft(job[k])
    /\ job[k].status = "dead_letter" =>
         \/ job[k].attemptCount = job[k].maxAttempts
         \/ LastAttempt(k).code \in {"final", "completed_late"}
    /\ Exists(k) => job[k].payload \in Payload

\* The back-off of an expired lease is an instant later than now, never sooner.
LEMMA ClampedDelayPositive ==
    ASSUME NEW n \in Numbers PROVE ClampedDelay(n) \in Nat /\ ClampedDelay(n) >= MinBackoff
BY DelayAssumption, BackoffAssumption DEF ClampedDelay, Numbers

LEMMA JobExcept ==
    ASSUME NEW j \in Job, NEW s \in Status, NEW n \in 0..MaxAttempts, NEW l \in ActiveLease
    PROVE  [j EXCEPT !.status = s, !.attemptCount = n, !.lease = l] \in Job
BY DEF Job

LEMMA KeyStepType ==
    ASSUME NEW k \in Keys, job[k] \in Job, attempts[k] \in AttemptTable,
           nextToken \in Nat, JobInv(k), KeyStep(k)
    PROVE  job'[k] \in Job /\ attempts'[k] \in AttemptTable
<1> USE AttemptsAssumption DEF Numbers
<1>1. CASE Untouched(k)
  BY <1>1 DEF Untouched
<1>2. CASE Created(k)
  <2>1. PICK payload \in Payload, max \in Numbers, r \in Keys \cup {NoKey}, at \in Nat :
          job'[k] = NewJob(payload, max, r, at)
    BY <1>2 DEF Created
  <2>2. NewJob(payload, max, r, at) \in Job
    BY DEF NewJob, Job, Status, ActiveLease
  <2> QED BY <1>2, <2>1, <2>2 DEF Created
<1>3. CASE Claimed(k)
  <2>1. PICK w \in Workers, until \in Nat :
          /\ job'[k] = Granted(job[k], w, nextToken, until)
          /\ attempts'[k] = [attempts[k] EXCEPT ![job[k].attemptCount + 1] =
                               [worker |-> w, status |-> "evaluating", code |-> "none"]]
    BY <1>3 DEF Claimed
  <2>2. job[k].attemptCount + 1 \in 0..MaxAttempts
    BY <1>3 DEF Claimed, HasAttemptsLeft, Job
  <2>3. job'[k] \in Job
    <3>1. [owner |-> w, token |-> nextToken, until |-> until] \in ActiveLease
      BY DEF ActiveLease
    <3>2. "leased" \in Status
      BY DEF Status
    <3>3. [job[k] EXCEPT !.status = "leased", !.attemptCount = job[k].attemptCount + 1,
                         !.lease = [owner |-> w, token |-> nextToken, until |-> until]] \in Job
      BY <2>2, <3>1, <3>2, JobExcept
    <3> QED BY <2>1, <3>3 DEF Granted
  <2>4. [worker |-> w, status |-> "evaluating", code |-> "none"] \in Attempt
    BY DEF Attempt, Codes
  <2>5. attempts'[k] \in AttemptTable
    BY <2>1, <2>4 DEF AttemptTable
  <2> QED BY <2>3, <2>5
<1>4. CASE Renewed(k)
  <2>1. PICK until \in Nat : job'[k] = [job[k] EXCEPT !.lease.until = until]
    BY <1>4 DEF Renewed
  <2>2. [job[k].lease EXCEPT !.until = until] \in ActiveLease
    BY <1>4 DEF Renewed, Job, ActiveLease, HeldLease, JobInv
  <2>3. job'[k] \in Job
    BY <2>1, <2>2 DEF Job
  <2> QED BY <1>4, <2>3 DEF Renewed
<1>5. ASSUME NEW s \in {"succeeded", "failed"}, NEW c \in Codes, HasActiveAttempt(k)
      PROVE  Close(k, s, c) \in AttemptTable
  <2>1. job[k].attemptCount \in Numbers
    BY <1>5 DEF HasActiveAttempt, Job
  <2>2. attempts[k][job[k].attemptCount] \in Attempt
    BY <1>5, <2>1 DEF HasActiveAttempt, AttemptTable, NoAttempt
  <2> QED BY <2>1, <2>2 DEF Close, AttemptTable, Attempt
<1>6. CASE Completed(k)
  BY <1>5, <1>6 DEF Completed, Job, Status, ActiveLease, Codes
<1>7. CASE Ended(k)
  <2>1. \A at \in Nat : Retried(job[k], at) \in Job /\ Buried(job[k], at) \in Job
    BY DEF Retried, Buried, Job, Status, ActiveLease
  <2> QED BY <1>5, <1>7, <2>1 DEF Ended
<1> QED BY <1>1, <1>2, <1>3, <1>4, <1>6, <1>7 DEF KeyStep

-----------------------------------------------------------------------------
(* A step keeps the invariant of each operation *)

LEMMA KeyStepInv ==
    ASSUME NEW k \in Keys, job[k] \in Job, attempts[k] \in AttemptTable,
           nextToken \in Nat, JobInv(k), KeyStep(k)
    PROVE  JobInv(k)'
<1> USE AttemptsAssumption DEF Numbers
<1> DEFINE n == job[k].attemptCount
<1>0. n \in 0..MaxAttempts /\ job[k].maxAttempts \in 0..MaxAttempts
  BY DEF Job
<1>1. CASE Untouched(k)
  BY <1>1 DEF Untouched, JobInv, LastAttempt, HasAttemptsLeft, Exists
<1>2. CASE Created(k)
  <2>1. PICK payload \in Payload, max \in Numbers, r \in Keys \cup {NoKey}, at \in Nat :
          job'[k] = NewJob(payload, max, r, at)
    BY <1>2 DEF Created
  <2>2. /\ job'[k].status = "queued" /\ job'[k].attemptCount = 0
        /\ job'[k].maxAttempts = max /\ job'[k].payload = payload
    BY <2>1 DEF NewJob
  <2>3. \A m \in Numbers : attempts'[k][m] = NoAttempt
    BY <1>0, <1>2 DEF Created, JobInv
  <2> QED BY <2>2, <2>3 DEF JobInv, HasAttemptsLeft, Exists
<1>3. CASE Claimed(k)
  <2>1. PICK w \in Workers, until \in Nat :
          /\ job'[k] = Granted(job[k], w, nextToken, until)
          /\ attempts'[k] = [attempts[k] EXCEPT ![job[k].attemptCount + 1] =
                               [worker |-> w, status |-> "evaluating", code |-> "none"]]
    BY <1>3 DEF Claimed
  <2>2. /\ job'[k].status = "leased" /\ job'[k].attemptCount = n + 1
        /\ job'[k].maxAttempts = job[k].maxAttempts /\ job'[k].payload = job[k].payload
        /\ job'[k].lease = [owner |-> w, token |-> nextToken, until |-> until]
    BY <2>1 DEF Job, Granted
  <2>3. n + 1 \in Numbers /\ n + 1 <= job[k].maxAttempts
    BY <1>0, <1>3 DEF Claimed, HasAttemptsLeft
  <2>4. attempts'[k][n + 1] = [worker |-> w, status |-> "evaluating", code |-> "none"]
    BY <2>1, <2>3 DEF AttemptTable
  <2>5. \A m \in Numbers : m # n + 1 => attempts'[k][m] = attempts[k][m]
    BY <2>1 DEF AttemptTable
  <2>6. \A m \in Numbers : m < n + 1 => attempts[k][m].status = "failed"
    BY <1>0, <1>3 DEF Claimed, JobInv, LastAttempt
  <2>7. job'[k].lease \in HeldLease
    BY <2>2 DEF HeldLease
  <2> QED BY <1>0, <1>3, <2>2, <2>3, <2>4, <2>5, <2>6, <2>7
          DEF Claimed, JobInv, LastAttempt, Exists
<1>4. CASE Renewed(k)
  <2>1. PICK until \in Nat : job'[k] = [job[k] EXCEPT !.lease.until = until]
    BY <1>4 DEF Renewed
  <2>2. /\ job'[k].status = "leased" /\ job'[k].attemptCount = n
        /\ job'[k].maxAttempts = job[k].maxAttempts /\ job'[k].payload = job[k].payload
        /\ job'[k].lease = [job[k].lease EXCEPT !.until = until]
    BY <1>4, <2>1 DEF Job, Renewed
  <2>3. job'[k].lease \in HeldLease /\ job'[k].lease.owner = job[k].lease.owner
    BY <1>4, <2>2 DEF Renewed, HeldLease, JobInv
  <2> QED BY <1>4, <2>2, <2>3 DEF Renewed, JobInv, LastAttempt, Exists
<1>5. ASSUME NEW s \in {"succeeded", "failed"}, NEW c \in Codes, HasActiveAttempt(k),
             attempts'[k] = Close(k, s, c)
      PROVE  /\ n \in Numbers
             /\ attempts'[k][n].status = s /\ attempts'[k][n].code = c
             /\ \A m \in Numbers : m # n => attempts'[k][m] = attempts[k][m]
  <2>1. n \in Numbers
    BY <1>0, <1>5 DEF HasActiveAttempt
  <2> QED BY <1>5, <2>1 DEF Close, AttemptTable
<1>6. CASE Completed(k)
  <2>1. /\ job'[k].status = "succeeded" /\ job'[k].attemptCount = n
        /\ job'[k].maxAttempts = job[k].maxAttempts /\ job'[k].payload = job[k].payload
    BY <1>6 DEF Completed, Job
  <2>2. "none" \in Codes
    BY DEF Codes
  <2>3. /\ n \in Numbers /\ attempts'[k][n].status = "succeeded"
        /\ \A m \in Numbers : m # n => attempts'[k][m] = attempts[k][m]
    BY <1>5, <1>6, <2>2 DEF Completed
  <2> QED BY <1>0, <1>6, <2>1, <2>3 DEF Completed, JobInv, LastAttempt, Exists
<1>7. CASE Ended(k)
  <2>1. PICK code \in Codes, at \in Nat :
         /\ attempts'[k] = Close(k, "failed", code)
         /\ \/ /\ HasAttemptsLeft(job[k])
               /\ job'[k] = Retried(job[k], at)
            \/ /\ ~HasAttemptsLeft(job[k]) \/ code \in {"final", "completed_late"}
               /\ job'[k] = Buried(job[k], at)
    BY <1>7 DEF Ended
  <2>2. /\ job'[k].attemptCount = n
        /\ job'[k].maxAttempts = job[k].maxAttempts /\ job'[k].payload = job[k].payload
    BY <2>1 DEF Retried, Buried, Job
  <2>3. /\ n \in Numbers
        /\ attempts'[k][n].status = "failed" /\ attempts'[k][n].code = code
        /\ \A m \in Numbers : m # n => attempts'[k][m] = attempts[k][m]
    BY <1>5, <1>7, <2>1 DEF Ended
  <2>4. CASE HasAttemptsLeft(job[k]) /\ job'[k] = Retried(job[k], at)
    <3>1. job'[k].status = "retryable"
      BY <2>4 DEF Retried, Job
    <3> QED BY <1>0, <1>7, <2>2, <2>3, <2>4, <3>1
            DEF Ended, JobInv, LastAttempt, Exists, HasAttemptsLeft
  <2>5. CASE /\ ~HasAttemptsLeft(job[k]) \/ code \in {"final", "completed_late"}
             /\ job'[k] = Buried(job[k], at)
    <3>1. job'[k].status = "dead_letter"
      BY <2>5 DEF Buried, Job
    <3>2. n = job[k].maxAttempts \/ code \in {"final", "completed_late"}
      BY <1>0, <2>5 DEF HasAttemptsLeft, JobInv
    <3> QED BY <1>0, <1>7, <2>2, <2>3, <3>1, <3>2
            DEF Ended, JobInv, LastAttempt, Exists
  <2> QED BY <2>1, <2>4, <2>5
<1> QED BY <1>1, <1>2, <1>3, <1>4, <1>6, <1>7 DEF KeyStep

-----------------------------------------------------------------------------
(* Every step of the queue moves every operation by a KeyStep *)

IInv == TypeOK /\ \A k \in Keys : JobInv(k)

\* job' and attempts' are again functions over the operations.
Shaped == DOMAIN job' = Keys /\ DOMAIN attempts' = Keys
          /\ job' = [k \in Keys |-> job'[k]] /\ attempts' = [k \in Keys |-> attempts'[k]]

LEMMA TypesByKey ==
    ASSUME TypeOK
    PROVE  /\ \A k \in Keys : job[k] \in Job /\ attempts[k] \in AttemptTable
           /\ nextToken \in Nat
           /\ DOMAIN job = Keys /\ DOMAIN attempts = Keys
BY DEF TypeOK, AttemptTable, Numbers

LEMMA EnqueueByKey ==
    ASSUME IInv, NEW key \in Keys, NEW payload \in Payload, NEW max \in Numbers,
           NEW r \in Keys \cup {NoKey}, NEW at \in Nat, Enqueue(key, payload, max, r, at)
    PROVE  Shaped /\ \A k \in Keys : KeyStep(k)
<1> USE DEF IInv
<1>1. Shaped
  BY DEF TypeOK, Enqueue, Shaped
<1>2. \A k \in Keys : k # key => Untouched(k)
  BY TypesByKey DEF Enqueue, Untouched
<1>3. Created(key)
  BY TypesByKey DEF Enqueue, Created, Exists
<1> QED BY <1>1, <1>2, <1>3 DEF KeyStep

\* What a claim's first pass does to an operation.
LEMMA SweepByKey ==
    ASSUME IInv, NEW at \in Nat, SweepDefined(at), NEW k \in Keys,
           job'[k] = Swept(at)[k], attempts'[k] = SweptAttempts(at)[k]
    PROVE  KeyStep(k)
<1> USE DEF IInv
<1>1. CASE ~Expired(k, at)
  BY <1>1 DEF Swept, SweptAttempts, KeyStep, Untouched
<1>2. CASE Expired(k, at)
  <2>1. job[k].status = "leased" /\ HasActiveAttempt(k) /\ "lease_expired" \in Codes
    BY <1>2 DEF Expired, SweepDefined, Codes
  <2>2. attempts'[k] = Close(k, "failed", "lease_expired")
    BY <1>2 DEF SweptAttempts
  <2>3. job[k].attemptCount \in Numbers /\ job[k].availableAt \in Nat
    BY <2>1, TypesByKey, AttemptsAssumption DEF HasActiveAttempt, Job, Numbers
  <2>4. at + ClampedDelay(job[k].attemptCount) \in Nat
    BY <2>3, ClampedDelayPositive
  <2>5. CASE HasAttemptsLeft(job[k])
    <3>1. job'[k] = Retried(job[k], at + ClampedDelay(job[k].attemptCount))
      BY <1>2, <2>5 DEF Swept
    <3> QED BY <2>1, <2>2, <2>4, <2>5, <3>1 DEF KeyStep, Ended
  <2>6. CASE ~HasAttemptsLeft(job[k])
    <3>1. job'[k] = Buried(job[k], job[k].availableAt)
      BY <1>2, <2>6 DEF Swept
    <3> QED BY <2>1, <2>2, <2>3, <2>6, <3>1 DEF KeyStep, Ended
  <2> QED BY <2>5, <2>6
<1> QED BY <1>1, <1>2

LEMMA ClaimNothingByKey ==
    ASSUME IInv, NEW at \in Nat, ClaimNothing(at)
    PROVE  Shaped /\ \A k \in Keys : KeyStep(k)
<1>1. Shaped
  BY DEF ClaimNothing, Swept, SweptAttempts, Shaped
<1>2. ASSUME NEW k \in Keys PROVE KeyStep(k)
  BY SweepByKey DEF ClaimNothing
<1> QED BY <1>1, <1>2

\* The job just expired is not due yet, so it is not the one claimed.
LEMMA ClaimedIsNotExpired ==
    ASSUME IInv, NEW key \in Keys, NEW at \in Nat, SweepDefined(at), IsCandidate(Swept(at), key, at)
    PROVE  ~Expired(key, at)
<1> USE DEF IInv
<1> SUFFICES ASSUME Expired(key, at) PROVE FALSE
  OBVIOUS
<1>1. Eligible(Swept(at)[key], at)
  BY DEF IsCandidate
<1>2. job[key] \in Job /\ HasActiveAttempt(key)
  BY TypesByKey DEF SweepDefined
<1>3. job[key].attemptCount \in Numbers
  BY <1>2, AttemptsAssumption DEF HasActiveAttempt, Job, Numbers
<1>4. CASE HasAttemptsLeft(job[key])
  <2>1. Swept(at)[key] = Retried(job[key], at + ClampedDelay(job[key].attemptCount))
    BY <1>4 DEF Swept
  <2>2. Swept(at)[key].availableAt = at + ClampedDelay(job[key].attemptCount)
    BY <1>2, <2>1 DEF Retried, Job
  <2>3. /\ at + ClampedDelay(job[key].attemptCount) \in Nat
        /\ at + ClampedDelay(job[key].attemptCount) > at
    BY <1>3, ClampedDelayPositive, BackoffAssumption
  <2> QED BY <1>1, <2>2, <2>3 DEF Eligible
<1>5. CASE ~HasAttemptsLeft(job[key])
  <2>1. Swept(at)[key].status = "dead_letter"
    BY <1>2, <1>5 DEF Swept, Buried, Job
  <2> QED BY <1>1, <2>1 DEF Eligible
<1> QED BY <1>4, <1>5

LEMMA ClaimJobByKey ==
    ASSUME IInv, NEW w \in Workers, NEW key \in Keys, NEW at \in Nat, ClaimJob(w, key, at)
    PROVE  Shaped /\ \A k \in Keys : KeyStep(k)
<1> USE DEF IInv
<1>1. Shaped
  BY DEF ClaimJob, Swept, SweptAttempts, Shaped
<1>2. ASSUME NEW k \in Keys, k # key PROVE KeyStep(k)
  <2>1. job'[k] = Swept(at)[k] /\ attempts'[k] = SweptAttempts(at)[k] /\ SweepDefined(at)
    BY <1>2 DEF ClaimJob, Swept, SweptAttempts
  <2> QED BY <2>1, SweepByKey
<1>3. ~Expired(key, at)
  BY ClaimedIsNotExpired DEF ClaimJob
<1>4. Swept(at)[key] = job[key] /\ SweptAttempts(at)[key] = attempts[key]
  BY <1>3 DEF Swept, SweptAttempts
<1>5. Claimed(key)
  <2>1. job[key].status \in {"queued", "retryable"} /\ HasAttemptsLeft(job[key])
    BY <1>4 DEF ClaimJob, IsCandidate, Eligible
  <2>2. at + LeaseMs \in Nat
    BY LeaseAssumption
  <2>3. job'[key] = Granted(job[key], w, nextToken, at + LeaseMs)
    BY <1>4 DEF ClaimJob, Swept
  <2>4. attempts'[key] = [attempts[key] EXCEPT ![job[key].attemptCount + 1] =
                            [worker |-> w, status |-> "evaluating", code |-> "none"]]
    BY <1>4 DEF ClaimJob, SweptAttempts
  <2> QED BY <2>1, <2>2, <2>3, <2>4 DEF Claimed
<1> QED BY <1>1, <1>2, <1>5 DEF KeyStep

\* What the calls of a lease holder have in common.
LEMMA HolderByKey ==
    ASSUME IInv, NEW l \in Lease, HoldsToken(l),
           job' = [job EXCEPT ![l.key] = job'[l.key]],
           \/ attempts' = attempts
           \/ attempts' = [attempts EXCEPT ![l.key] = attempts'[l.key]],
           Renewed(l.key) \/ Completed(l.key) \/ Ended(l.key)
    PROVE  Shaped /\ \A k \in Keys : KeyStep(k)
<1> USE DEF IInv
<1>0. l.key \in Keys
  BY DEF Lease
<1>1. Shaped
  BY <1>0 DEF TypeOK, Shaped
<1>2. \A k \in Keys : k # l.key => Untouched(k)
  BY <1>0, TypesByKey DEF Untouched
<1> QED BY <1>0, <1>1, <1>2 DEF KeyStep

LEMMA HeartbeatByKey ==
    ASSUME IInv, NEW l \in Lease, NEW at \in Nat, Heartbeat(l, at)
    PROVE  Shaped /\ \A k \in Keys : KeyStep(k)
<1>0. l.key \in Keys /\ at + LeaseMs \in Nat
  BY LeaseAssumption DEF Lease
<1>1. job'[l.key] = [job[l.key] EXCEPT !.lease.until = at + LeaseMs]
  BY <1>0, TypesByKey DEF Heartbeat, IInv
<1>2. Renewed(l.key)
  BY <1>0, <1>1 DEF Heartbeat, HoldsLive, HoldsToken, Renewed
<1>3. job' = [job EXCEPT ![l.key] = job'[l.key]]
  BY <1>0, <1>1, TypesByKey DEF Heartbeat, IInv
<1> QED BY <1>2, <1>3, HolderByKey DEF Heartbeat, HoldsLive

LEMMA SucceedByKey ==
    ASSUME IInv, NEW l \in Lease, NEW at \in Nat, Succeed(l, at)
    PROVE  Shaped /\ \A k \in Keys : KeyStep(k)
<1>0. l.key \in Keys
  BY DEF Lease
<1>1. /\ job'[l.key] = [job[l.key] EXCEPT !.status = "succeeded", !.lease = NoLease]
      /\ attempts'[l.key] = Close(l.key, "succeeded", "none")
  BY <1>0, TypesByKey DEF Succeed, IInv
<1>2. Completed(l.key)
  BY <1>1 DEF Succeed, HoldsLive, HoldsToken, Completed
<1>3. /\ job' = [job EXCEPT ![l.key] = job'[l.key]]
      /\ attempts' = [attempts EXCEPT ![l.key] = attempts'[l.key]]
  BY <1>0, <1>1, TypesByKey DEF Succeed, IInv
<1> QED BY <1>2, <1>3, HolderByKey DEF Succeed, HoldsLive

LEMMA ReconcileExpiredByKey ==
    ASSUME IInv, NEW l \in Lease, NEW at \in Nat, ReconcileExpired(l, at)
    PROVE  Shaped /\ \A k \in Keys : KeyStep(k)
<1>0. l.key \in Keys /\ "completed_late" \in Codes
  BY DEF Lease, Codes
<1>1. /\ job'[l.key] = Buried(job[l.key], at)
      /\ attempts'[l.key] = Close(l.key, "failed", "completed_late")
  BY <1>0, TypesByKey DEF ReconcileExpired, IInv
<1>2. Ended(l.key)
  BY <1>0, <1>1 DEF ReconcileExpired, HoldsToken, Ended
<1>3. /\ job' = [job EXCEPT ![l.key] = job'[l.key]]
      /\ attempts' = [attempts EXCEPT ![l.key] = attempts'[l.key]]
  BY <1>0, <1>1, TypesByKey DEF ReconcileExpired, IInv
<1> QED BY <1>2, <1>3, HolderByKey DEF ReconcileExpired

LEMMA FailByKey ==
    ASSUME IInv, NEW l \in Lease, NEW retryable \in BOOLEAN, NEW at \in Nat,
           Fail(l, retryable, at)
    PROVE  Shaped /\ \A k \in Keys : KeyStep(k)
<1> DEFINE code == IF retryable THEN "transient" ELSE "final"
<1> DEFINE late == at + RetryDelay[job[l.key].attemptCount]
<1>0. l.key \in Keys /\ code \in Codes
  BY DEF Lease, Codes
<1>1. late \in Nat
  BY <1>0, TypesByKey, AttemptsAssumption, DelayAssumption
     DEF Fail, HasActiveAttempt, Job, IInv
<1>2. /\ job'[l.key] = IF retryable /\ HasAttemptsLeft(job[l.key])
                       THEN Retried(job[l.key], late)
                       ELSE Buried(job[l.key], at)
      /\ attempts'[l.key] = Close(l.key, "failed", code)
  BY <1>0, TypesByKey DEF Fail, IInv
<1>3. Ended(l.key)
  <2>1. job[l.key].status = "leased" /\ HasActiveAttempt(l.key)
    BY DEF Fail, HoldsLive, HoldsToken
  <2>2. CASE retryable /\ HasAttemptsLeft(job[l.key])
    <3> HIDE DEF late, code
    <3> QED BY <1>0, <1>1, <1>2, <2>1, <2>2 DEF Ended
  <2>3. CASE ~(retryable /\ HasAttemptsLeft(job[l.key]))
    <3>1. ~HasAttemptsLeft(job[l.key]) \/ code \in {"final", "completed_late"}
      BY <2>3
    <3> HIDE DEF late, code
    <3> QED BY <1>0, <1>2, <2>1, <2>3, <3>1 DEF Ended
  <2> QED BY <2>2, <2>3
<1>4. /\ job' = [job EXCEPT ![l.key] = job'[l.key]]
      /\ attempts' = [attempts EXCEPT ![l.key] = attempts'[l.key]]
  BY <1>0, TypesByKey DEF Fail, IInv
<1> QED BY <1>3, <1>4, HolderByKey DEF Fail, HoldsLive

LEMMA ReleaseByKey ==
    ASSUME IInv, NEW l \in Lease, NEW code \in {"released", "lease_expired"},
           NEW at \in Nat, Release(l, code, at)
    PROVE  Shaped /\ \A k \in Keys : KeyStep(k)
<1> DEFINE late == at + (IF code = "lease_expired"
                        THEN ClampedDelay(job[l.key].attemptCount)
                        ELSE RetryDelay[job[l.key].attemptCount])
<1>0. l.key \in Keys /\ code \in Codes
  BY DEF Lease, Codes
<1>1. late \in Nat
  <2>1. job[l.key].attemptCount \in Numbers
    BY <1>0, TypesByKey, AttemptsAssumption DEF Release, HasActiveAttempt, Job, IInv, Numbers
  <2> QED BY <2>1, ClampedDelayPositive, DelayAssumption DEF Numbers
<1>2. /\ job'[l.key] = IF HasAttemptsLeft(job[l.key])
                       THEN Retried(job[l.key], late)
                       ELSE Buried(job[l.key], at)
      /\ attempts'[l.key] = Close(l.key, "failed", code)
  BY <1>0, TypesByKey DEF Release, IInv
<1>3. Ended(l.key)
  <2>1. job[l.key].status = "leased" /\ HasActiveAttempt(l.key)
    BY DEF Release, HoldsToken
  <2> HIDE DEF late
  <2> QED BY <1>0, <1>1, <1>2, <2>1 DEF Ended
<1>4. /\ job' = [job EXCEPT ![l.key] = job'[l.key]]
      /\ attempts' = [attempts EXCEPT ![l.key] = attempts'[l.key]]
  BY <1>0, TypesByKey DEF Release, IInv
<1> QED BY <1>3, <1>4, HolderByKey DEF Release

LEMMA OperatorReplayByKey ==
    ASSUME IInv, NEW original \in Keys, NEW key \in Keys, NEW note \in Notes,
           NEW at \in Nat, OperatorReplay(original, key, note, at)
    PROVE  Shaped /\ \A k \in Keys : KeyStep(k)
<1>1. job[original] \in Job /\ JobInv(original) /\ job[original].status = "dead_letter"
  BY TypesByKey DEF IInv, OperatorReplay
<1>2. job[original].payload \in Payload /\ job[original].maxAttempts \in Numbers
  BY <1>1, AttemptsAssumption DEF JobInv, Exists, Job, Numbers
<1>3. [job[original].payload EXCEPT !.note = note,
                                    !.failedAttempt = job[original].attemptCount] \in Payload
  BY <1>1, <1>2 DEF Payload, Job
<1> QED BY <1>2, <1>3, EnqueueByKey DEF OperatorReplay

-----------------------------------------------------------------------------
(* One step of the queue *)

\* Only a successful completion adds to accepted, and it adds the lease it was
\* called with; nothing else completes an operation.
Accepting ==
    \/ /\ accepted' = accepted
       /\ \A k \in Keys : job'[k].status = "succeeded" => job'[k] = job[k]
    \/ \E l \in issued :
         /\ accepted' = accepted \cup {l}
         /\ HoldsToken(l) /\ Completed(l.key)
         /\ \A k \in Keys : k # l.key => Untouched(k)

\* An operation with a replay note was created from a dead letter.
Noting ==
    \A k \in Keys : ~Exists(k) /\ job'[k].status # "absent" /\ job'[k].payload.note # NoNote =>
        LET original == job'[k].replayOf
        IN  /\ original \in Keys
            /\ job[original].status = "dead_letter"
            /\ job'[k].payload.failedAttempt = job[original].attemptCount

Bookkeeping ==
    /\ nextToken' \in Nat \ {0}
    /\ issued' \subseteq Lease /\ issued \subseteq issued'
    /\ Accepting
    /\ Noting

StepOK == Shaped /\ (\A k \in Keys : KeyStep(k)) /\ Bookkeeping

LEMMA SubmissionStep ==
    ASSUME IInv, Submission PROVE StepOK
<1> USE DEF IInv
<1>0. \A at \in Instants : at \in Nat
  BY InstantsAssumption
<1>1. ASSUME NEW key \in Keys, NEW payload \in Payload, NEW max \in Numbers,
             NEW r \in Keys \cup {NoKey}, NEW at \in Nat, Enqueue(key, payload, max, r, at)
      PROVE  /\ nextToken' \in Nat \ {0}
             /\ issued' \subseteq Lease /\ issued \subseteq issued'
             /\ Accepting
             /\ job'[key] = NewJob(payload, max, r, at)
             /\ \A k \in Keys : k # key => job'[k] = job[k]
  <2>1. job'[key] = NewJob(payload, max, r, at)
    BY <1>1, TypesByKey DEF Enqueue
  <2>2. \A k \in Keys : k # key => job'[k] = job[k]
    BY <1>1, TypesByKey DEF Enqueue
  <2>3. job'[key].status = "queued"
    BY <2>1 DEF NewJob
  <2>4. Accepting
    BY <1>1, <2>2, <2>3 DEF Enqueue, Accepting
  <2> QED BY <1>1, <2>1, <2>2, <2>4 DEF Enqueue, TypeOK
<1>2. ASSUME NEW key \in Keys, NEW at \in Instants, NEW b \in Bodies,
             NEW max \in 1..MaxAttempts, NEW r \in Keys \cup {NoKey},
             Enqueue(key, PlainPayload(b), max, r, at)
      PROVE  StepOK
  <2>1. PlainPayload(b) \in Payload /\ max \in Numbers /\ at \in Nat
    BY <1>0, AttemptsAssumption DEF PlainPayload, Payload, Numbers
  <2>2. /\ job'[key] = NewJob(PlainPayload(b), max, r, at)
        /\ \A k \in Keys : k # key => job'[k] = job[k]
        /\ nextToken' \in Nat \ {0}
        /\ issued' \subseteq Lease /\ issued \subseteq issued'
        /\ Accepting
    BY <1>1, <1>2, <2>1
  <2>4. job'[key].payload.note = NoNote
    BY <2>2 DEF NewJob, PlainPayload
  <2>3. Noting
    BY <2>2, <2>4 DEF Noting, Exists
  <2>5. Shaped /\ \A k \in Keys : KeyStep(k)
    BY <1>2, <2>1, EnqueueByKey
  <2> QED BY <2>2, <2>3, <2>5 DEF StepOK, Bookkeeping
<1>3. ASSUME NEW key \in Keys, NEW at \in Instants, NEW original \in Keys, NEW note \in Notes,
             OperatorReplay(original, key, note, at)
      PROVE  StepOK
  <2> DEFINE payload == [job[original].payload EXCEPT
                           !.note = note, !.failedAttempt = job[original].attemptCount]
  <2>1. job[original] \in Job /\ JobInv(original) /\ job[original].status = "dead_letter"
    BY <1>3, TypesByKey DEF OperatorReplay
  <2>2. job[original].payload \in Payload /\ job[original].maxAttempts \in Numbers
    BY <2>1, AttemptsAssumption DEF JobInv, Exists, Job, Numbers
  <2>3. payload \in Payload /\ payload.failedAttempt = job[original].attemptCount
    BY <2>1, <2>2 DEF Payload, Job
  <2>4. Enqueue(key, payload, job[original].maxAttempts, original, at) /\ at \in Nat
    BY <1>0, <1>3 DEF OperatorReplay
  <2>5. /\ nextToken' \in Nat \ {0}
        /\ issued' \subseteq Lease /\ issued \subseteq issued'
        /\ Accepting
        /\ job'[key] = NewJob(payload, job[original].maxAttempts, original, at)
        /\ \A k \in Keys : k # key => job'[k] = job[k]
    <3> HIDE DEF payload
    <3> QED BY <1>1, <2>2, <2>3, <2>4
  <2>6. job'[key].replayOf = original /\ job'[key].payload = payload
    BY <2>5 DEF NewJob
  <2>7. Noting
    BY <2>1, <2>3, <2>5, <2>6 DEF Noting, Exists
  <2>8. Shaped /\ \A k \in Keys : KeyStep(k)
    BY <1>0, <1>3, OperatorReplayByKey
  <2> QED BY <2>5, <2>7, <2>8 DEF StepOK, Bookkeeping
<1> QED BY <1>2, <1>3 DEF Submission

LEMMA ClaimStep ==
    ASSUME IInv, Claim PROVE StepOK
<1> USE DEF IInv
<1>0. \A at \in Instants : at \in Nat
  BY InstantsAssumption
\* Neither the sweep nor the grant makes an operation succeed or come into being.
<1>1. ASSUME NEW at \in Nat, NEW k \in Keys
      PROVE  /\ Swept(at)[k].status = "succeeded" => Swept(at)[k] = job[k]
             /\ ~Exists(k) => Swept(at)[k] = job[k]
  <2>1. job[k] \in Job
    BY TypesByKey
  <2> QED BY <2>1 DEF Swept, Expired, Retried, Buried, Exists, Job
<1>2. ASSUME NEW at \in Instants, ClaimNothing(at) PROVE StepOK
  <2>1. Accepting
    BY <1>0, <1>1, <1>2 DEF ClaimNothing, Accepting
  <2>2. Noting
    BY <1>0, <1>1, <1>2 DEF ClaimNothing, Noting, Exists
  <2> QED BY <1>0, <1>2, <2>1, <2>2, ClaimNothingByKey
          DEF ClaimNothing, StepOK, Bookkeeping, TypeOK
<1>3. ASSUME NEW at \in Instants, NEW w \in Workers, NEW key \in Keys, ClaimJob(w, key, at)
      PROVE  StepOK
  <2>1. \A k \in Keys : k # key => job'[k] = Swept(at)[k]
    BY <1>3 DEF ClaimJob, Swept
  <2>2. job'[key] = Granted(Swept(at)[key], w, nextToken, at + LeaseMs)
    BY <1>3 DEF ClaimJob, Swept
  <2>3. Swept(at)[key].status \in {"queued", "retryable"}
    BY <1>3 DEF ClaimJob, IsCandidate, Eligible
  <2>4. Swept(at)[key] \in Job
    <3>1. CASE ~Expired(key, at)
      BY <3>1, TypesByKey DEF Swept
    <3>2. CASE Expired(key, at) /\ HasAttemptsLeft(job[key])
      <4>1. job[key].attemptCount \in Numbers
        BY <1>3, <3>2, TypesByKey, AttemptsAssumption
           DEF ClaimJob, SweepDefined, HasActiveAttempt, Job, Numbers
      <4>2. at + ClampedDelay(job[key].attemptCount) \in Nat
        BY <1>0, <4>1, ClampedDelayPositive
      <4> QED BY <3>2, <4>2, TypesByKey DEF Swept, Retried, Job, Status, ActiveLease
    <3>3. CASE Expired(key, at) /\ ~HasAttemptsLeft(job[key])
      BY <3>3, TypesByKey DEF Swept, Buried, Job, Status, ActiveLease
    <3> QED BY <3>1, <3>2, <3>3
  <2>5. job'[key].status = "leased"
    BY <2>2, <2>4 DEF Granted, Job
  <2>6. Exists(key)
    BY <1>0, <1>1, <2>3 DEF Exists
  <2>7. Accepting
    BY <1>0, <1>1, <1>3, <2>1, <2>5 DEF ClaimJob, Accepting
  <2>8. Noting
    BY <1>0, <1>1, <2>1, <2>6 DEF Noting, Exists
  <2>9. job[key].attemptCount + 1 \in 1..MaxAttempts
    <3>1. HasAttemptsLeft(Swept(at)[key])
      BY <1>3 DEF ClaimJob, IsCandidate, Eligible
    <3>2. /\ Swept(at)[key].attemptCount = job[key].attemptCount
          /\ Swept(at)[key].maxAttempts = job[key].maxAttempts
      BY TypesByKey DEF Swept, Retried, Buried, Job
    <3> QED BY <3>1, <3>2, TypesByKey, AttemptsAssumption DEF HasAttemptsLeft, Job
  <2>10. issued' \subseteq Lease /\ nextToken' \in Nat \ {0} /\ issued \subseteq issued'
    BY <1>3, <2>9 DEF ClaimJob, Lease, TypeOK
  <2> QED BY <1>0, <1>3, <2>7, <2>8, <2>10, ClaimJobByKey DEF StepOK, Bookkeeping
<1> QED BY <1>2, <1>3 DEF Claim

LEMMA HolderStep ==
    ASSUME IInv, HolderCall PROVE StepOK
<1> USE DEF IInv
<1>0. (\A at \in Instants : at \in Nat) /\ issued \subseteq Lease
  BY InstantsAssumption DEF TypeOK
<1> SUFFICES ASSUME NEW l \in issued, NEW at \in Instants,
                    \/ Heartbeat(l, at) \/ Succeed(l, at) \/ ReconcileExpired(l, at)
                    \/ \E retryable \in BOOLEAN : Fail(l, retryable, at)
                    \/ \E code \in {"released", "lease_expired"} : Release(l, code, at)
             PROVE  StepOK
  BY DEF HolderCall
<1>1. l \in Lease /\ l.key \in Keys /\ at \in Nat /\ job[l.key] \in Job
  BY <1>0, TypesByKey DEF Lease
<1>2. ASSUME HoldsToken(l), job' = [job EXCEPT ![l.key] = job'[l.key]],
             UNCHANGED <<nextToken, issued>>
      PROVE  /\ nextToken' \in Nat \ {0}
             /\ issued' \subseteq Lease /\ issued \subseteq issued'
             /\ Noting
             /\ \A k \in Keys : k # l.key => job'[k] = job[k]
  <2>1. \A k \in Keys : k # l.key => job'[k] = job[k]
    BY <1>1, <1>2, TypesByKey
  <2>2. Exists(l.key)
    BY <1>2 DEF HoldsToken, Exists
  <2>3. Noting
    BY <2>1, <2>2 DEF Noting, Exists
  <2> QED BY <1>2, <2>1, <2>3 DEF TypeOK
<1>3. CASE Heartbeat(l, at)
  <2>1. job'[l.key] = [job[l.key] EXCEPT !.lease.until = at + LeaseMs]
    BY <1>1, <1>3, TypesByKey DEF Heartbeat
  <2>2. job' = [job EXCEPT ![l.key] = job'[l.key]] /\ HoldsToken(l)
    BY <1>1, <1>3, <2>1, TypesByKey DEF Heartbeat, HoldsLive
  <2>3. job'[l.key].status = "leased"
    BY <1>1, <2>1, <2>2 DEF HoldsToken, Job
  <2>4. Accepting
    BY <1>2, <1>3, <2>2, <2>3 DEF Heartbeat, Accepting
  <2> QED BY <1>1, <1>2, <1>3, <2>2, <2>4, HeartbeatByKey DEF Heartbeat, StepOK, Bookkeeping
<1>4. CASE Succeed(l, at)
  <2>1. /\ job'[l.key] = [job[l.key] EXCEPT !.status = "succeeded", !.lease = NoLease]
        /\ attempts'[l.key] = Close(l.key, "succeeded", "none")
    BY <1>1, <1>4, TypesByKey DEF Succeed
  <2>2. /\ job' = [job EXCEPT ![l.key] = job'[l.key]] /\ HoldsToken(l)
        /\ \A k \in Keys : k # l.key => Untouched(k)
    BY <1>1, <1>4, <2>1, TypesByKey DEF Succeed, HoldsLive, Untouched
  <2>3. Completed(l.key)
    BY <1>4, <2>1 DEF Succeed, HoldsLive, HoldsToken, Completed
  <2>4. Accepting
    BY <1>4, <2>2, <2>3 DEF Succeed, Accepting
  <2> QED BY <1>1, <1>2, <1>4, <2>2, <2>4, SucceedByKey DEF Succeed, StepOK, Bookkeeping
\* The other calls end the attempt without success.
<1>5. ASSUME HoldsToken(l), UNCHANGED <<nextToken, issued, accepted>>,
             NEW late, job'[l.key] = Retried(job[l.key], late) \/ job'[l.key] = Buried(job[l.key], late),
             job' = [job EXCEPT ![l.key] = job'[l.key]]
      PROVE  Bookkeeping
  <2>1. job'[l.key].status # "succeeded"
    BY <1>1, <1>5 DEF Retried, Buried, Job
  <2> QED BY <1>2, <1>5, <2>1 DEF Bookkeeping, Accepting
<1>6. CASE ReconcileExpired(l, at)
  <2>1. job'[l.key] = Buried(job[l.key], at) /\ job' = [job EXCEPT ![l.key] = job'[l.key]]
    BY <1>1, <1>6, TypesByKey DEF ReconcileExpired
  <2> QED BY <1>1, <1>5, <1>6, <2>1, ReconcileExpiredByKey DEF ReconcileExpired, StepOK
<1>7. ASSUME NEW retryable \in BOOLEAN, Fail(l, retryable, at) PROVE StepOK
  <2>1. /\ \/ job'[l.key] = Retried(job[l.key], at + RetryDelay[job[l.key].attemptCount])
           \/ job'[l.key] = Buried(job[l.key], at)
        /\ job' = [job EXCEPT ![l.key] = job'[l.key]]
    BY <1>1, <1>7, TypesByKey DEF Fail
  <2> QED BY <1>1, <1>5, <1>7, <2>1, FailByKey DEF Fail, HoldsLive, StepOK
<1>8. ASSUME NEW code \in {"released", "lease_expired"}, Release(l, code, at) PROVE StepOK
  <2>1. /\ \/ \E late : job'[l.key] = Retried(job[l.key], late)
           \/ job'[l.key] = Buried(job[l.key], at)
        /\ job' = [job EXCEPT ![l.key] = job'[l.key]]
    BY <1>1, <1>8, TypesByKey DEF Release
  <2> QED BY <1>1, <1>5, <1>8, <2>1, ReleaseByKey DEF Release, StepOK
<1> QED BY <1>3, <1>4, <1>6, <1>7, <1>8

LEMMA QueueStep == ASSUME IInv, Next PROVE StepOK
BY SubmissionStep, ClaimStep, HolderStep DEF Next

-----------------------------------------------------------------------------
(* The invariants *)

\* The inductive invariant: each operation's part, who was told of a success,
\* and where the replays come from.
QueueInv == IInv /\ AcceptedOnce /\ ReplayLineage

LEMMA QueueInvInit == ASSUME Init PROVE QueueInv
<1>0. AbsentJob \in Job
  BY AttemptsAssumption DEF AbsentJob, Job, Status, ActiveLease
<1>1. TypeOK
  BY <1>0 DEF Init, TypeOK
<1>2. ASSUME NEW k \in Keys PROVE JobInv(k)
  <2>1. job[k] = AbsentJob /\ \A n \in Numbers : attempts[k][n] = NoAttempt
    BY DEF Init, Numbers
  <2>2. /\ job[k].status = "absent" /\ job[k].attemptCount = 0 /\ job[k].maxAttempts = 0
    BY <2>1 DEF AbsentJob
  <2> QED BY <2>1, <2>2 DEF JobInv, Exists, Numbers
<1>3. AcceptedOnce
  BY DEF Init, AcceptedOnce, AbsentJob
<1>4. ReplayLineage
  BY DEF Init, ReplayLineage, AbsentJob, Exists
<1> QED BY <1>1, <1>2, <1>3, <1>4 DEF QueueInv, IInv

\* What no step undoes: a terminal operation stays as it is, a closed attempt
\* stays as it is, and what the operation was enqueued with stays as it is.
LEMMA KeyStepFrozen ==
    ASSUME NEW k \in Keys, job[k] \in Job, attempts[k] \in AttemptTable, JobInv(k), KeyStep(k)
    PROVE  /\ job[k].status \in Terminal => job'[k] = job[k] /\ attempts'[k] = attempts[k]
           /\ \A n \in Numbers : attempts[k][n].status \in {"succeeded", "failed"}
                                   => attempts'[k][n] = attempts[k][n]
           /\ Exists(k) => /\ job'[k].payload = job[k].payload
                           /\ job'[k].maxAttempts = job[k].maxAttempts
                           /\ job'[k].replayOf = job[k].replayOf
<1> USE AttemptsAssumption DEF Numbers
<1>1. job[k].status \in Terminal => job'[k] = job[k] /\ attempts'[k] = attempts[k]
  BY DEF KeyStep, Untouched, Created, Claimed, Renewed, Completed, Ended, Terminal
<1>2. ASSUME NEW n \in Numbers, attempts[k][n].status \in {"succeeded", "failed"}
      PROVE  attempts'[k][n] = attempts[k][n]
  <2>1. CASE Claimed(k)
    <3>1. job[k].attemptCount + 1 \in Numbers /\ attempts[k][job[k].attemptCount + 1] = NoAttempt
      BY <2>1 DEF Claimed, HasAttemptsLeft, Job, JobInv
    <3>2. n # job[k].attemptCount + 1
      BY <1>2, <3>1 DEF NoAttempt
    <3> QED BY <2>1, <3>2 DEF Claimed, AttemptTable
  <2>2. CASE Completed(k) \/ Ended(k)
    <3>1. n # job[k].attemptCount
      BY <1>2, <2>2 DEF Completed, Ended, HasActiveAttempt
    <3> QED BY <2>2, <3>1 DEF Completed, Ended, Close, AttemptTable
  <2>3. CASE Untouched(k) \/ Created(k) \/ Renewed(k)
    BY <2>3 DEF Untouched, Created, Renewed
  <2> QED BY <2>1, <2>2, <2>3 DEF KeyStep
<1>3. ASSUME Exists(k)
      PROVE  /\ job'[k].payload = job[k].payload
             /\ job'[k].maxAttempts = job[k].maxAttempts
             /\ job'[k].replayOf = job[k].replayOf
  <2>1. CASE Claimed(k)
    BY <2>1 DEF Claimed, Granted, Job
  <2>2. CASE Completed(k) \/ Ended(k)
    BY <2>2 DEF Completed, Ended, Retried, Buried, Job
  <2>3. CASE Untouched(k) \/ Renewed(k)
    BY <2>3 DEF Untouched, Renewed, Job
  <2>4. ~Created(k)
    BY <1>3 DEF Created, Exists
  <2> QED BY <2>1, <2>2, <2>3, <2>4 DEF KeyStep
<1> QED BY <1>1, <1>2, <1>3

LEMMA IInvStep == ASSUME IInv, StepOK PROVE IInv' /\ TypeOK'
<1> USE DEF IInv
<1>1. ASSUME NEW k \in Keys PROVE job'[k] \in Job /\ attempts'[k] \in AttemptTable /\ JobInv(k)'
  BY TypesByKey, KeyStepType, KeyStepInv DEF StepOK
<1>2. job' \in [Keys -> Job] /\ attempts' \in [Keys -> AttemptTable]
  BY <1>1 DEF StepOK, Shaped
<1>3. accepted' \subseteq issued'
  BY DEF StepOK, Bookkeeping, Accepting, TypeOK
<1>4. TypeOK'
  BY <1>2, <1>3 DEF TypeOK, StepOK, Bookkeeping, AttemptTable, Numbers
<1> QED BY <1>1, <1>4

LEMMA AcceptedOnceStep == ASSUME IInv, AcceptedOnce, StepOK PROVE AcceptedOnce'
<1> USE DEF IInv
<1>0. issued \subseteq Lease /\ accepted \subseteq issued
  BY DEF TypeOK
\* A lease accepted before names an operation that no longer changes.
<1>1. ASSUME NEW l \in accepted
      PROVE  /\ l.key \in Keys /\ job[l.key].status = "succeeded"
             /\ job'[l.key] = job[l.key] /\ attempts'[l.key] = attempts[l.key]
             /\ l.attempt = job[l.key].attemptCount /\ LastAttempt(l.key).worker = l.owner
  <2>1. l.key \in Keys
    BY <1>0 DEF Lease
  <2>2. /\ job[l.key].status = "succeeded"
        /\ l.attempt = job[l.key].attemptCount /\ LastAttempt(l.key).worker = l.owner
    BY DEF AcceptedOnce
  <2> QED BY <2>1, <2>2, TypesByKey, KeyStepFrozen DEF StepOK, Terminal
<1>2. CASE /\ accepted' = accepted
           /\ \A k \in Keys : job'[k].status = "succeeded" => job'[k] = job[k]
  BY <1>1, <1>2 DEF AcceptedOnce, LastAttempt
<1>3. ASSUME NEW l \in issued, accepted' = accepted \cup {l}, HoldsToken(l), Completed(l.key),
             \A k \in Keys : k # l.key => Untouched(k)
      PROVE  AcceptedOnce'
  <2>1. l.key \in Keys /\ job[l.key] \in Job /\ attempts[l.key] \in AttemptTable /\ JobInv(l.key)
    BY <1>0, TypesByKey DEF Lease
  <2>2. /\ job'[l.key].status = "succeeded"
        /\ job'[l.key].attemptCount = job[l.key].attemptCount
    BY <1>3, <2>1 DEF Completed, Job
  <2>3. l.attempt = job[l.key].attemptCount /\ job[l.key].lease.owner = l.owner
    BY <1>3 DEF HoldsToken
  <2>4. LastAttempt(l.key)'.worker = LastAttempt(l.key).worker
    <3>1. job[l.key].attemptCount \in Numbers
      BY <1>3, <2>1, AttemptsAssumption DEF Completed, HasActiveAttempt, Job, Numbers
    <3> QED BY <1>3, <2>1, <2>2, <3>1 DEF Completed, Close, LastAttempt, AttemptTable
  <2>5. LastAttempt(l.key)'.worker = l.owner
    BY <1>3, <2>1, <2>3, <2>4 DEF Completed, JobInv
  <2>6. \A m \in accepted : m.key # l.key
    BY <1>1, <1>3 DEF Completed
  <2>7. \A m \in accepted' : /\ job'[m.key].status = "succeeded"
                             /\ m.attempt = job'[m.key].attemptCount
                             /\ LastAttempt(m.key)'.worker = m.owner
    BY <1>1, <1>3, <2>2, <2>3, <2>5 DEF LastAttempt
  <2>8. \A a, b \in accepted' : a.key = b.key => a = b
    BY <1>3, <2>6 DEF AcceptedOnce
  <2>9. \A k \in Keys : job'[k].status = "succeeded" => \E m \in accepted' : m.key = k
    BY <1>3 DEF AcceptedOnce, Untouched
  <2> QED BY <2>7, <2>8, <2>9 DEF AcceptedOnce
<1> QED BY <1>2, <1>3 DEF StepOK, Bookkeeping, Accepting

LEMMA ReplayLineageStep == ASSUME IInv, ReplayLineage, StepOK PROVE ReplayLineage'
<1> USE DEF IInv
<1>1. ASSUME NEW k \in Keys, job[k].status = "dead_letter"
      PROVE  /\ job'[k] = job[k] /\ attempts'[k] = attempts[k]
             /\ LastAttempt(k).status = "failed"
  BY <1>1, TypesByKey, KeyStepFrozen DEF StepOK, Terminal, JobInv
<1>2. ASSUME NEW k \in Keys, Exists(k)', job'[k].payload.note # NoNote
      PROVE  /\ job'[k].replayOf \in Keys
             /\ job[job'[k].replayOf].status = "dead_letter"
             /\ job'[k].payload.failedAttempt = job[job'[k].replayOf].attemptCount
  <2>1. CASE Exists(k)
    <3>1. job'[k].payload = job[k].payload /\ job'[k].replayOf = job[k].replayOf
      BY <2>1, TypesByKey, KeyStepFrozen DEF StepOK
    <3>2. job[k].replayOf \in Keys
      BY <1>2, <2>1, <3>1, TypesByKey DEF ReplayLineage, Job
    <3> QED BY <1>2, <2>1, <3>1, <3>2 DEF ReplayLineage
  <2>2. CASE ~Exists(k)
    BY <1>2, <2>2 DEF StepOK, Bookkeeping, Noting, Exists
  <2> QED BY <2>1, <2>2
<1>3. ASSUME NEW k \in Keys, Exists(k)', job'[k].payload.note # NoNote, NEW original,
             original = job'[k].replayOf
      PROVE  /\ original # NoKey
             /\ job'[original].status = "dead_letter"
             /\ job'[k].payload.failedAttempt = job'[original].attemptCount
             /\ LastAttempt(original)'.status = "failed"
  <2>1. /\ original \in Keys /\ job[original].status = "dead_letter"
        /\ job'[k].payload.failedAttempt = job[original].attemptCount
    BY <1>2, <1>3
  <2>2. /\ job'[original] = job[original] /\ attempts'[original] = attempts[original]
        /\ LastAttempt(original).status = "failed"
    BY <1>1, <2>1
  <2> QED BY <2>1, <2>2, KeysAssumption DEF LastAttempt
<1> QED BY <1>3 DEF ReplayLineage

-----------------------------------------------------------------------------
(* Stuttering, and the theorems *)

LEMMA QueueInvStep == ASSUME QueueInv, [Next]_vars PROVE QueueInv'
<1>1. CASE Next
  BY <1>1, QueueStep, IInvStep, AcceptedOnceStep, ReplayLineageStep DEF QueueInv
<1>2. CASE UNCHANGED vars
  <2>1. TypeOK'
    BY <1>2 DEF QueueInv, IInv, TypeOK, vars
  <2>2. (\A k \in Keys : JobInv(k))'
    BY <1>2 DEF QueueInv, IInv, JobInv, LastAttempt, Exists, vars
  <2>3. AcceptedOnce'
    BY <1>2 DEF QueueInv, AcceptedOnce, LastAttempt, vars
  <2>4. ReplayLineage'
    BY <1>2 DEF QueueInv, ReplayLineage, LastAttempt, Exists, vars
  <2> QED BY <2>1, <2>2, <2>3, <2>4 DEF QueueInv, IInv
<1> QED BY <1>1, <1>2

THEOREM QueueInvariance == Spec => []QueueInv
<1>1. Init => QueueInv
  BY QueueInvInit
<1>2. QueueInv /\ [Next]_vars => QueueInv'
  BY QueueInvStep
<1> QED BY <1>1, <1>2, PTL DEF Spec

\* The queue's state always has the shape the types of jobs/types.ts give it.
THEOREM TypeCorrectness == Spec => []TypeOK
<1>1. QueueInv => TypeOK
  BY DEF QueueInv, IInv
<1> QED BY <1>1, QueueInvariance, PTL

\* A job and the attempts made for it never disagree (queue.ts #activeAttempt
\* never throws for a leased job), for any number of jobs, workers and attempts.
THEOREM AttemptLedgerHolds == Spec => []AttemptLedger
<1>1. QueueInv => AttemptLedger
  BY DEF QueueInv, IInv, AttemptLedger, JobInv, Numbers
<1> QED BY <1>1, QueueInvariance, PTL

\* No queued or retryable job has used up its attempts.
THEOREM NeverStrandedHolds == Spec => []NeverStranded
<1>1. QueueInv => NeverStranded
  BY DEF QueueInv, IInv, NeverStranded, JobInv
<1> QED BY <1>1, QueueInvariance, PTL

\* Every dead letter has run out of attempts, failed for good or finished late.
THEOREM DeadLetterJustifiedHolds == Spec => []DeadLetterJustified
<1>1. QueueInv => DeadLetterJustified
  BY DEF QueueInv, IInv, DeadLetterJustified, JobInv
<1> QED BY <1>1, QueueInvariance, PTL

\* At most one lease of a job is ever told that its work succeeded, and it is
\* the lease of the attempt on record as the successful one.
THEOREM AcceptedOnceHolds == Spec => []AcceptedOnce
<1>1. QueueInv => AcceptedOnce
  BY DEF QueueInv
<1> QED BY <1>1, QueueInvariance, PTL

\* An operator replay always points at a dead letter and its last attempt.
THEOREM ReplayLineageHolds == Spec => []ReplayLineage
<1>1. QueueInv => ReplayLineage
  BY DEF QueueInv
<1> QED BY <1>1, QueueInvariance, PTL

\* No step rewrites an attempt that has been closed.
THEOREM ClosedAttemptsAreFrozen == Spec => ClosedAttemptsFrozen
<1> DEFINE Frozen == \A k \in Keys : \A n \in 1..MaxAttempts :
                       attempts[k][n].status \in {"succeeded", "failed"}
                           => attempts'[k][n] = attempts[k][n]
<1>1. QueueInv /\ [Next]_vars => [Frozen]_vars
  BY QueueStep, TypesByKey, KeyStepFrozen DEF QueueInv, IInv, StepOK, Numbers
<1> QED BY <1>1, QueueInvariance, PTL DEF Spec, ClosedAttemptsFrozen

\* No step rewrites what an operation was enqueued with.
THEOREM SignaturesAreFrozen == Spec => SignatureFrozen
<1> DEFINE Frozen == \A k \in Keys : Exists(k) =>
                       /\ job'[k].payload = job[k].payload
                       /\ job'[k].maxAttempts = job[k].maxAttempts
                       /\ job'[k].replayOf = job[k].replayOf
<1>1. QueueInv /\ [Next]_vars => [Frozen]_vars
  BY QueueStep, TypesByKey, KeyStepFrozen DEF QueueInv, IInv, StepOK
<1> QED BY <1>1, QueueInvariance, PTL DEF Spec, SignatureFrozen

-----------------------------------------------------------------------------
(* The queue implements the life cycle *)

\* A KeyStep is one move of the operation's life cycle, or none.
LEMMA KeyStepMoves ==
    ASSUME NEW k \in Keys, job[k] \in Job, JobInv(k), KeyStep(k)
    PROVE  \/ /\ job[k].status = "absent" /\ job'[k].status = "queued"
              /\ job'[k].maxAttempts \in Numbers /\ job'[k].attemptCount = 0
           \/ /\ job[k].status \in {"queued", "retryable"} /\ job'[k].status = "leased"
              /\ job'[k].attemptCount = job[k].attemptCount + 1
              /\ job'[k].attemptCount <= job[k].maxAttempts
              /\ job'[k].maxAttempts = job[k].maxAttempts
           \/ /\ job[k].status = "leased"
              /\ \/ job'[k].status \in {"succeeded", "dead_letter"}
                 \/ /\ job'[k].status = "retryable"
                    /\ job[k].attemptCount < job[k].maxAttempts
              /\ job'[k].attemptCount = job[k].attemptCount
              /\ job'[k].maxAttempts = job[k].maxAttempts
           \/ /\ job'[k].status = job[k].status
              /\ job'[k].attemptCount = job[k].attemptCount
              /\ job'[k].maxAttempts = job[k].maxAttempts
<1>1. CASE Untouched(k)
  BY <1>1 DEF Untouched
<1>2. CASE Created(k)
  BY <1>2 DEF Created, NewJob
<1>3. CASE Claimed(k)
  BY <1>3 DEF Claimed, Granted, HasAttemptsLeft, Job
<1>4. CASE Renewed(k)
  BY <1>4 DEF Renewed, Job
<1>5. CASE Completed(k)
  BY <1>5 DEF Completed, Job
<1>6. CASE Ended(k)
  BY <1>6 DEF Ended, Retried, Buried, HasAttemptsLeft, Job
<1> QED BY <1>1, <1>2, <1>3, <1>4, <1>5, <1>6 DEF KeyStep

LEMMA PhaseValues ==
    /\ Phase("absent") = "unborn"
    /\ Phase("queued") = "waiting" /\ Phase("retryable") = "waiting"
    /\ Phase("leased") = "running"
    /\ Phase("succeeded") = "done" /\ Phase("dead_letter") = "dead"
BY DEF Phase

LEMMA RefinedInit == ASSUME Init PROVE Lifecycle!Init
<1>1. \A k \in Keys : job[k] = AbsentJob
  BY DEF Init
<1>2. AbsentJob.status = "absent" /\ AbsentJob.attemptCount = 0 /\ AbsentJob.maxAttempts = 0
  BY DEF AbsentJob
<1>3. \A k \in Keys : /\ Phase(job[k].status) = "unborn"
                      /\ job[k].attemptCount = 0 /\ job[k].maxAttempts = 0
  BY <1>1, <1>2, PhaseValues
<1> QED BY <1>3 DEF Lifecycle!Init

LEMMA RefinedStep == ASSUME QueueInv, [Next]_vars PROVE [Lifecycle!Next]_(Lifecycle!vars)
<1>1. CASE Next
  <2>1. ASSUME NEW k \in Keys
        PROVE  Lifecycle!Submit(k) \/ Lifecycle!Start(k) \/ Lifecycle!End(k) \/ Lifecycle!Stay(k)
    <3>1. job[k] \in Job /\ JobInv(k) /\ KeyStep(k)
      BY <1>1, QueueStep, TypesByKey DEF QueueInv, IInv, StepOK
    <3>2. CASE /\ job[k].status = "absent" /\ job'[k].status = "queued"
               /\ job'[k].maxAttempts \in Numbers /\ job'[k].attemptCount = 0
      BY <3>2, PhaseValues DEF Lifecycle!Submit, Numbers
    <3>3. CASE /\ job[k].status \in {"queued", "retryable"} /\ job'[k].status = "leased"
               /\ job'[k].attemptCount = job[k].attemptCount + 1
               /\ job'[k].attemptCount <= job[k].maxAttempts
               /\ job'[k].maxAttempts = job[k].maxAttempts
      BY <3>3, PhaseValues DEF Lifecycle!Start
    <3>4. CASE /\ job[k].status = "leased"
               /\ \/ job'[k].status \in {"succeeded", "dead_letter"}
                  \/ /\ job'[k].status = "retryable"
                     /\ job[k].attemptCount < job[k].maxAttempts
               /\ job'[k].attemptCount = job[k].attemptCount
               /\ job'[k].maxAttempts = job[k].maxAttempts
      BY <3>4, PhaseValues DEF Lifecycle!End
    <3>5. CASE /\ job'[k].status = job[k].status
               /\ job'[k].attemptCount = job[k].attemptCount
               /\ job'[k].maxAttempts = job[k].maxAttempts
      BY <3>5 DEF Lifecycle!Stay
    <3> QED BY <3>1, <3>2, <3>3, <3>4, <3>5, KeyStepMoves
  <2> QED BY <2>1 DEF Lifecycle!Next
<1>2. CASE UNCHANGED vars
  BY <1>2 DEF vars, Lifecycle!vars
<1> QED BY <1>1, <1>2

\* Every behaviour of the queue is a behaviour of JobLifecycle, for every
\* operation: submitted once, tried within its limit, ended at most once.
THEOREM QueueImplementsLifecycle == Spec => LifecycleRefined
BY RefinedInit, RefinedStep, QueueInvariance, PTL DEF Spec, LifecycleRefined, Lifecycle!Spec

-----------------------------------------------------------------------------
(* The runner: its inductive invariant *)

\* No lease handed out so far has the next lease's token.
TokensUsed == \A l \in issued : l.token < nextToken

\* What has become of a job whose lease the invocation lost: nobody may claim
\* it before the back-off after the lease's end is over.
Lapsed(w) ==
    LET j == job[run[w].lease.key]
    IN  \/ run[w].until + MinBackoff <= now
        \/ j.status = "retryable" /\ run[w].until + MinBackoff <= j.availableAt
        \/ j.status \in Terminal

\* A running invocation has a lease of its own that no stray handler knows;
\* the queue agrees with its copy, or took the lease away after it had run out.
Held(w) ==
    /\ run[w].lease \in issued \ strays
    /\ run[w].lease.owner = w
    /\ HoldsToken(run[w].lease) => job[run[w].lease.key].lease.until = run[w].until
    /\ ~HoldsToken(run[w].lease) => run[w].until <= now /\ Lapsed(w)

RunnerTypes ==
    /\ now \in 0..MaxTime
    /\ run \in [Workers -> Invocation]
    /\ strays \subseteq issued

FenceInv ==
    /\ QueueInv
    /\ RunnerTypes
    /\ TokensUsed
    /\ \A w \in Workers : run[w].phase = "running" => Held(w)

-----------------------------------------------------------------------------
(* Every step of the runner is a step of the queue *)

LEMMA NowIsInstant == ASSUME RunnerTypes PROVE now \in Nat /\ now \in Instants
BY ClockAssumption, RunnerAssumption DEF RunnerTypes

LEMMA HeldIsIssued ==
    ASSUME FenceInv, NEW w \in Workers, run[w].phase = "running"
    PROVE  /\ run[w].lease \in issued /\ run[w].lease \in Lease
           /\ run[w].lease.key \in Keys /\ run[w].lease.owner = w
BY DEF FenceInv, Held, QueueInv, IInv, TypeOK, Lease

LEMMA RecoverIsQueueStep ==
    ASSUME FenceInv, NEW w \in Workers, run[w].phase = "running",
           NEW retryable \in BOOLEAN, NEW fired \in BOOLEAN, Recover(w, retryable, fired)
    PROVE  [Next]_vars
<1>1. run[w].lease \in issued /\ now \in Instants
  BY HeldIsIssued, NowIsInstant DEF FenceInv
<1>2. CASE UNCHANGED vars
  BY <1>2
<1>3. CASE Release(run[w].lease, "lease_expired", now)
  BY <1>1, <1>3 DEF Next, HolderCall
<1>4. CASE Fail(run[w].lease, retryable, now)
  BY <1>1, <1>4 DEF Next, HolderCall
<1> QED BY <1>2, <1>3, <1>4 DEF Recover

LEMMA InvocationIsQueueStep ==
    ASSUME FenceInv, NEW w \in Workers, InvocationStep(w)
    PROVE  [Next]_vars
<1>0. now \in Instants
  BY NowIsInstant DEF FenceInv
<1>1. CASE StartInvocation(w) \/ OutOfBudget(w) \/ Terminate(w)
  BY <1>1 DEF StartInvocation, OutOfBudget, Terminate
<1>2. CASE FindEmpty(w)
  BY <1>0, <1>2 DEF FindEmpty, Next, Claim
<1>3. CASE \E k \in Keys : StartHandler(w, k)
  BY <1>0, <1>3 DEF StartHandler, Next, Claim
<1>4. CASE RenewLease(w)
  BY <1>0, <1>4, HeldIsIssued DEF RenewLease, Next, HolderCall
<1>5. CASE HandlerReturns(w)
  <2>1. CASE ReconcileExpired(run[w].lease, now) \/ Succeed(run[w].lease, now)
    BY <1>0, <1>5, <2>1, HeldIsIssued DEF HandlerReturns, Next, HolderCall
  <2>2. CASE Recover(w, TRUE, FALSE)
    BY <1>5, <2>2, RecoverIsQueueStep DEF HandlerReturns
  <2> QED BY <1>5, <2>1, <2>2 DEF HandlerReturns
<1>6. CASE \E retryable \in BOOLEAN : HandlerThrows(w, retryable)
  BY <1>6, RecoverIsQueueStep DEF HandlerThrows
<1>7. CASE DeadlineFires(w)
  BY <1>7, RecoverIsQueueStep DEF DeadlineFires
<1> QED BY <1>1, <1>2, <1>3, <1>4, <1>5, <1>6, <1>7 DEF InvocationStep

LEMMA RunnerIsQueueStep ==
    ASSUME FenceInv, [RunnerNext]_runnerVars PROVE [Next]_vars
<1>0. now \in Instants
  BY NowIsInstant DEF FenceInv
<1>1. CASE \E w \in Workers : InvocationStep(w)
  BY <1>1, InvocationIsQueueStep
<1>2. CASE \E l \in strays : StrayRenews(l)
  BY <1>0, <1>2 DEF FenceInv, RunnerTypes, StrayRenews, Next, HolderCall
<1>3. CASE \E l \in strays : StrayEnds(l)
  BY <1>3 DEF StrayEnds
<1>4. CASE Schedule
  BY <1>4, SubmissionsAssumption DEF Schedule, Next, Submission
<1>5. CASE Tick \/ UNCHANGED runnerVars
  BY <1>5 DEF Tick, runnerVars
<1> QED BY <1>1, <1>2, <1>3, <1>4, <1>5 DEF RunnerNext

-----------------------------------------------------------------------------
(* What a step does to the job of a lease it is not called with *)

\* Nothing; or it ends the lease the job is under, which has run out; or it
\* creates or hands out the job, which was due; or it acts for another lease.
Spared(l) ==
    \/ job'[l.key] = job[l.key]
    \/ /\ Expired(l.key, now)
       /\ \/ job'[l.key].status = "dead_letter"
          \/ job'[l.key].status = "retryable" /\ now + MinBackoff <= job'[l.key].availableAt
    \/ /\ \/ job[l.key].status = "absent"
          \/ job[l.key].status \in {"queued", "retryable"} /\ job[l.key].availableAt <= now
       /\ \/ job'[l.key].status = "queued"
          \/ job'[l.key].lease.token = nextToken
    \/ /\ job[l.key].status = "leased" /\ ~HoldsToken(l)
       /\ \/ job'[l.key].status # "leased"
          \/ /\ job'[l.key].lease.token = job[l.key].lease.token
             /\ job'[l.key].lease.owner = job[l.key].lease.owner
             /\ job'[l.key].attemptCount = job[l.key].attemptCount

\* A job is under at most one lease.
LEMMA OneHolder ==
    ASSUME NEW l \in Lease, NEW m \in Lease, HoldsToken(l), HoldsToken(m), l.key = m.key
    PROVE  l = m
BY DEF HoldsToken, Lease

LEMMA SweptIsSpared ==
    ASSUME IInv, NEW k \in Keys, now \in Nat, SweepDefined(now), Expired(k, now)
    PROVE  \/ Swept(now)[k].status = "dead_letter"
           \/ /\ Swept(now)[k].status = "retryable"
              /\ now + MinBackoff <= Swept(now)[k].availableAt
<1>1. job[k] \in Job /\ job[k].attemptCount \in Numbers
  BY TypesByKey, AttemptsAssumption DEF IInv, SweepDefined, HasActiveAttempt, Job, Numbers
<1>2. CASE HasAttemptsLeft(job[k])
  <2>1. Swept(now)[k] = Retried(job[k], now + ClampedDelay(job[k].attemptCount))
    BY <1>2 DEF Swept
  <2>2. /\ Swept(now)[k].status = "retryable"
        /\ Swept(now)[k].availableAt = now + ClampedDelay(job[k].attemptCount)
    BY <1>1, <2>1 DEF Retried, Job
  <2>3. /\ ClampedDelay(job[k].attemptCount) \in Nat
        /\ ClampedDelay(job[k].attemptCount) >= MinBackoff
    BY <1>1, ClampedDelayPositive
  <2> QED BY <2>2, <2>3, BackoffAssumption
<1>3. CASE ~HasAttemptsLeft(job[k])
  <2>1. Swept(now)[k] = Buried(job[k], job[k].availableAt)
    BY <1>3 DEF Swept
  <2> QED BY <1>1, <2>1 DEF Buried, Job
<1> QED BY <1>2, <1>3

LEMMA ClaimNothingSpares ==
    ASSUME IInv, now \in Nat, ClaimNothing(now), NEW l \in Lease
    PROVE  Spared(l)
<1>0. l.key \in Keys /\ job'[l.key] = Swept(now)[l.key]
  BY DEF Lease, ClaimNothing, Swept
<1>1. CASE Expired(l.key, now)
  BY <1>0, <1>1, SweptIsSpared DEF ClaimNothing, Spared
<1>2. CASE ~Expired(l.key, now)
  BY <1>0, <1>2 DEF Swept, Spared
<1> QED BY <1>1, <1>2

\* The job a claim hands out was due, and nobody's lease of it had just run out.
LEMMA ClaimedIsDue ==
    ASSUME IInv, now \in Nat, NEW w \in Workers, NEW k \in Keys, ClaimJob(w, k, now)
    PROVE  /\ job[k].status \in {"queued", "retryable"} /\ job[k].availableAt <= now
           /\ HasAttemptsLeft(job[k])
           /\ job'[k] = Granted(job[k], w, nextToken, now + LeaseMs)
           /\ job'[k].status = "leased"
           /\ job'[k].attemptCount = job[k].attemptCount + 1
           /\ job'[k].lease = [owner |-> w, token |-> nextToken, until |-> now + LeaseMs]
<1>1. Swept(now)[k] = job[k]
  BY ClaimedIsNotExpired DEF ClaimJob, Swept
<1>2. job'[k] = Granted(job[k], w, nextToken, now + LeaseMs)
  BY <1>1 DEF ClaimJob, Swept
<1>3. job[k] \in Job
  BY TypesByKey DEF IInv
<1>4. /\ job'[k].status = "leased"
      /\ job'[k].attemptCount = job[k].attemptCount + 1
      /\ job'[k].lease = [owner |-> w, token |-> nextToken, until |-> now + LeaseMs]
  BY <1>2, <1>3 DEF Granted, Job
<1>5. Eligible(job[k], now)
  BY <1>1 DEF ClaimJob, IsCandidate
<1> QED BY <1>2, <1>4, <1>5 DEF Eligible

LEMMA ClaimJobSpares ==
    ASSUME IInv, now \in Nat, NEW w \in Workers, NEW k \in Keys, ClaimJob(w, k, now),
           NEW l \in Lease
    PROVE  Spared(l)
<1>0. l.key \in Keys /\ SweepDefined(now)
  BY DEF Lease, ClaimJob
<1>1. CASE l.key = k
  <2>1. /\ job[k].status \in {"queued", "retryable"} /\ job[k].availableAt <= now
        /\ job'[k].lease = [owner |-> w, token |-> nextToken, until |-> now + LeaseMs]
    BY ClaimedIsDue
  <2>2. job'[k].lease.token = nextToken
    BY <2>1
  <2> QED BY <1>1, <2>1, <2>2 DEF Spared
<1>2. CASE l.key # k
  <2>1. job'[l.key] = Swept(now)[l.key]
    BY <1>0, <1>2 DEF ClaimJob, Swept
  <2>2. CASE Expired(l.key, now)
    BY <1>0, <2>1, <2>2, SweptIsSpared DEF Spared
  <2>3. CASE ~Expired(l.key, now)
    BY <1>0, <2>1, <2>3 DEF Swept, Spared
  <2> QED BY <2>2, <2>3
<1> QED BY <1>1, <1>2

\* The calls of a lease holder, seen by the holder of another lease.
LEMMA HolderSpares ==
    ASSUME IInv, NEW m \in Lease, NEW l \in Lease, l # m,
           \/ Heartbeat(m, now) \/ Succeed(m, now) \/ ReconcileExpired(m, now)
           \/ \E retryable \in BOOLEAN : Fail(m, retryable, now)
           \/ Release(m, "lease_expired", now)
    PROVE  Spared(l)
<1>0. l.key \in Keys /\ m.key \in Keys /\ HoldsToken(m) /\ job \in [Keys -> Job]
  BY DEF Lease, Heartbeat, Succeed, ReconcileExpired, Fail, Release, HoldsLive, IInv, TypeOK
<1>1. CASE l.key # m.key
  BY <1>0, <1>1 DEF Spared, Heartbeat, Succeed, ReconcileExpired, Fail, Release
<1>2. CASE l.key = m.key
  <2>1. job[l.key].status = "leased" /\ ~HoldsToken(l)
    BY <1>0, <1>2, OneHolder DEF HoldsToken
  <2>2. CASE Heartbeat(m, now)
    <3>1. job'[l.key] = [job[l.key] EXCEPT !.lease.until = now + LeaseMs]
      BY <1>0, <1>2, <2>2 DEF Heartbeat
    <3>2. job[l.key] \in Job /\ job[l.key].lease \in HeldLease
      BY <1>0, <2>1 DEF IInv, JobInv
    <3>3. /\ job'[l.key].lease.token = job[l.key].lease.token
          /\ job'[l.key].lease.owner = job[l.key].lease.owner
          /\ job'[l.key].attemptCount = job[l.key].attemptCount
      BY <3>1, <3>2 DEF Job, HeldLease
    <3> QED BY <2>1, <3>3 DEF Spared
  <2>3. CASE \/ Succeed(m, now) \/ ReconcileExpired(m, now)
             \/ \E retryable \in BOOLEAN : Fail(m, retryable, now)
             \/ Release(m, "lease_expired", now)
    <3>1. job[l.key] \in Job
      BY <1>0
    <3>2. \/ job'[l.key] = [job[l.key] EXCEPT !.status = "succeeded", !.lease = NoLease]
          \/ \E at : \/ job'[l.key] = Retried(job[l.key], at)
                     \/ job'[l.key] = Buried(job[l.key], at)
      <4>1. CASE Succeed(m, now)
        BY <1>0, <1>2, <4>1 DEF Succeed
      <4>2. CASE ReconcileExpired(m, now)
        BY <1>0, <1>2, <4>2 DEF ReconcileExpired
      <4>3. CASE \E retryable \in BOOLEAN : Fail(m, retryable, now)
        BY <1>0, <1>2, <4>3 DEF Fail
      <4>4. CASE Release(m, "lease_expired", now)
        BY <1>0, <1>2, <4>4 DEF Release
      <4> QED BY <2>3, <4>1, <4>2, <4>3, <4>4
    <3>3. job'[l.key].status # "leased"
      BY <3>1, <3>2 DEF Retried, Buried, Job
    <3> QED BY <2>1, <3>3 DEF Spared
  <2> QED BY <2>2, <2>3
<1> QED BY <1>1, <1>2

LEMMA EnqueueSpares ==
    ASSUME IInv, NEW k \in Keys, NEW payload, NEW max, NEW r, NEW at,
           Enqueue(k, payload, max, r, at), NEW l \in Lease
    PROVE  Spared(l)
<1>0. l.key \in Keys /\ job \in [Keys -> Job]
  BY DEF Lease, IInv, TypeOK
<1>1. CASE l.key = k
  <2>1. job[l.key].status = "absent" /\ job'[l.key].status = "queued"
    BY <1>0, <1>1 DEF Enqueue, Exists, NewJob
  <2> QED BY <2>1 DEF Spared
<1>2. CASE l.key # k
  BY <1>0, <1>2 DEF Enqueue, Spared
<1> QED BY <1>1, <1>2

\* An invocation that a step leaves alone still has its lease, or still may not
\* have it back, whatever the step did.
LEMMA HeldKept ==
    ASSUME FenceInv, NEW w \in Workers, run[w].phase = "running", run'[w] = run[w],
           issued \subseteq issued', run[w].lease \notin strays',
           now' \in Nat, now <= now', TypeOK', Spared(run[w].lease)
    PROVE  Held(w)'
<1> DEFINE l == run[w].lease
           j == job[l.key]
           t == run[w].until
<1>0. /\ l \in issued /\ l \in Lease /\ l.key \in Keys /\ l.owner = w
      /\ j \in Job /\ t \in Nat /\ now \in Nat /\ MinBackoff \in Nat /\ IInv
  BY HeldIsIssued, NowIsInstant, TypesByKey, BackoffAssumption
     DEF FenceInv, RunnerTypes, Invocation, QueueInv, IInv
<1>9. j'.availableAt \in Nat
  BY <1>0 DEF TypeOK, Job
<1>1. /\ HoldsToken(l) => j.lease.until = t
      /\ ~HoldsToken(l) => /\ t <= now
                           /\ \/ t + MinBackoff <= now
                              \/ j.status = "retryable" /\ t + MinBackoff <= j.availableAt
                              \/ j.status \in Terminal
  BY DEF FenceInv, Held, Lapsed
<1>2. l.token # nextToken
  BY <1>0 DEF FenceInv, TokensUsed, Lease, IInv, TypeOK
<1>3. SUFFICES /\ HoldsToken(l)' => j'.lease.until = t
               /\ ~HoldsToken(l)' => /\ t <= now'
                                     /\ \/ t + MinBackoff <= now'
                                        \/ j'.status = "retryable" /\ t + MinBackoff <= j'.availableAt
                                        \/ j'.status \in Terminal
  BY <1>0 DEF Held, Lapsed
<1>4. CASE j' = j
  <2>1. HoldsToken(l)' <=> HoldsToken(l)
    BY <1>4 DEF HoldsToken
  <2> QED BY <1>0, <1>1, <1>4, <2>1
<1>5. ASSUME ~HoldsToken(l)', t + MinBackoff <= now
      PROVE  t <= now' /\ t + MinBackoff <= now'
  BY <1>0, <1>5
<1>6. CASE /\ Expired(l.key, now)
           /\ \/ j'.status = "dead_letter"
              \/ j'.status = "retryable" /\ now + MinBackoff <= j'.availableAt
  <2>1. ~HoldsToken(l)' /\ j.status = "leased" /\ j.lease.until <= now
    BY <1>6 DEF HoldsToken, Expired
  <2>2. CASE HoldsToken(l)
    <3>1. t <= now
      BY <1>1, <2>1, <2>2
    <3>2. j'.status = "retryable" => t + MinBackoff <= j'.availableAt
      BY <1>0, <1>6, <1>9, <3>1
    <3> QED BY <1>0, <1>6, <2>1, <3>1, <3>2 DEF Terminal
  <2>3. CASE ~HoldsToken(l)
    <3>1. t + MinBackoff <= now
      BY <1>1, <2>1, <2>3 DEF Terminal
    <3> QED BY <1>5, <2>1, <3>1
  <2> QED BY <2>2, <2>3
<1>7. CASE /\ \/ j.status = "absent"
              \/ j.status \in {"queued", "retryable"} /\ j.availableAt <= now
           /\ \/ j'.status = "queued"
              \/ j'.lease.token = nextToken
  <2>1. ~HoldsToken(l) /\ ~HoldsToken(l)'
    BY <1>2, <1>7 DEF HoldsToken
  <2>2. j.availableAt \in Nat
    BY <1>0 DEF Job
  <2>3. t + MinBackoff <= now
    BY <1>0, <1>1, <1>7, <2>1, <2>2 DEF Terminal
  <2> QED BY <1>5, <2>1, <2>3
<1>8. CASE /\ j.status = "leased" /\ ~HoldsToken(l)
           /\ \/ j'.status # "leased"
              \/ /\ j'.lease.token = j.lease.token /\ j'.lease.owner = j.lease.owner
                 /\ j'.attemptCount = j.attemptCount
  <2>1. ~HoldsToken(l)'
    BY <1>8 DEF HoldsToken
  <2>2. t + MinBackoff <= now
    BY <1>1, <1>8 DEF Terminal
  <2> QED BY <1>5, <2>1, <2>2
<1> QED BY <1>4, <1>6, <1>7, <1>8 DEF Spared

-----------------------------------------------------------------------------
(* Every step keeps the invariant *)

LEMMA FenceInit == ASSUME RunnerInit PROVE FenceInv
<1>1. QueueInv
  BY QueueInvInit DEF RunnerInit
<1>2. IdleInvocation \in Invocation
  BY DEF IdleInvocation, Invocation, Stops
<1>3. RunnerTypes
  BY <1>2, RunnerAssumption DEF RunnerInit, Init, RunnerTypes
<1>4. TokensUsed
  BY DEF RunnerInit, Init, TokensUsed
<1>5. \A w \in Workers : run[w].phase # "running"
  BY DEF RunnerInit, IdleInvocation
<1> QED BY <1>1, <1>3, <1>4, <1>5 DEF FenceInv

LEMMA QueuePart ==
    ASSUME FenceInv, [Next]_vars
    PROVE  QueueInv' /\ TypeOK' /\ issued \subseteq issued'
<1>1. QueueInv'
  BY QueueInvStep DEF FenceInv
<1>2. issued \subseteq issued'
  <2>1. CASE Next
    BY <2>1, QueueStep DEF FenceInv, QueueInv, StepOK, Bookkeeping
  <2>2. CASE UNCHANGED vars
    BY <2>2 DEF vars
  <2> QED BY <2>1, <2>2
<1> QED BY <1>1, <1>2 DEF QueueInv, IInv

\* It is enough to look at the invocations a step changes.
LEMMA FenceKept ==
    ASSUME FenceInv, [Next]_vars, RunnerTypes', TokensUsed', now <= now',
           \A v \in Workers : run'[v].phase = "running" =>
               \/ Held(v)'
               \/ /\ run'[v] = run[v]
                  /\ run[v].lease \notin strays' /\ Spared(run[v].lease)
    PROVE  FenceInv'
<1>1. QueueInv' /\ TypeOK' /\ issued \subseteq issued'
  BY QueuePart
<1>2. now' \in Nat
  BY RunnerAssumption DEF RunnerTypes
<1>3. ASSUME NEW v \in Workers, run'[v].phase = "running" PROVE Held(v)'
  <2>1. CASE /\ run'[v] = run[v]
             /\ run[v].lease \notin strays' /\ Spared(run[v].lease)
    <3>1. run[v].phase = "running"
      BY <1>3, <2>1
    <3> QED BY <1>1, <1>2, <2>1, <3>1, HeldKept
  <2> QED BY <1>3, <2>1
<1> QED BY <1>1, <1>3 DEF FenceInv

\* The lease of a running invocation is no stray's and no other invocation's.
LEMMA OwnLease ==
    ASSUME FenceInv, NEW w \in Workers, run[w].phase = "running"
    PROVE  /\ run[w].lease \in Lease /\ run[w].lease \notin strays
           /\ \A v \in Workers \ {w} : run[v].phase = "running" => run[v].lease # run[w].lease
<1>1. \A v \in Workers : run[v].phase = "running" => run[v].lease.owner = v
  BY HeldIsIssued
<1> QED BY <1>1, HeldIsIssued DEF FenceInv, Held

\* The invocation w changes, and does not run a handler afterwards.
Leaves(w) ==
    /\ run' = [run EXCEPT ![w] = run'[w]]
    /\ run'[w] \in Invocation /\ run'[w].phase # "running"

LEMMA LoopMoves ==
    ASSUME FenceInv, NEW w \in Workers
    PROVE  /\ \A fate \in Counters : NextClaim(w, fate) \/ StopAfter(w, fate) => Leaves(w)
           /\ \A reason \in Stops : StopFor(w, reason) => Leaves(w)
           /\ StartInvocation(w) \/ Terminate(w) => Leaves(w)
<1>1. run \in [Workers -> Invocation] /\ now \in Nat
  BY NowIsInstant DEF FenceInv, RunnerTypes
<1>2. ASSUME NEW fate \in Counters PROVE Counted(w, fate) \in [Counters -> Nat]
  BY <1>1 DEF Counted, Invocation
<1>3. ASSUME NEW fate \in Counters, NextClaim(w, fate) PROVE Leaves(w)
  BY <1>1, <1>2, <1>3 DEF NextClaim, Leaves, Invocation, Stops
<1>4. ASSUME NEW fate \in Counters, StopAfter(w, fate) PROVE Leaves(w)
  BY <1>1, <1>2, <1>4 DEF StopAfter, Leaves, Invocation, Stops
<1>5. ASSUME NEW reason \in Stops, StopFor(w, reason) PROVE Leaves(w)
  BY <1>1, <1>5 DEF StopFor, Leaves, Invocation
<1>6. ASSUME StartInvocation(w) PROVE Leaves(w)
  <2>1. now + Budget \in Nat
    BY <1>1, RunnerAssumption
  <2>2. run' = [run EXCEPT ![w] = [run[w] EXCEPT !.phase = "claiming", !.deadline = now + Budget]]
    BY <1>6 DEF StartInvocation
  <2>3. [run[w] EXCEPT !.phase = "claiming", !.deadline = now + Budget] \in Invocation
    BY <1>1, <2>1 DEF Invocation
  <2>4. run'[w] = [run[w] EXCEPT !.phase = "claiming", !.deadline = now + Budget]
    BY <1>1, <2>2
  <2>5. run'[w].phase = "claiming"
    BY <1>1, <2>4 DEF Invocation
  <2> QED BY <2>2, <2>3, <2>4, <2>5 DEF Leaves
<1>7. ASSUME Terminate(w) PROVE Leaves(w)
  BY <1>1, <1>7 DEF Terminate, Leaves, Invocation
<1> QED BY <1>3, <1>4, <1>5, <1>6, <1>7

LEMMA LeavingKeepsFence ==
    ASSUME FenceInv, [Next]_vars, NEW w \in Workers, Leaves(w),
           UNCHANGED <<now, nextToken, issued>>,
           strays' \subseteq strays \cup (IF run[w].phase = "running" THEN {run[w].lease} ELSE {}),
           \A v \in Workers \ {w} : run[v].phase = "running" => Spared(run[v].lease)
    PROVE  FenceInv'
<1>1. run' \in [Workers -> Invocation] /\ \A v \in Workers \ {w} : run'[v] = run[v]
  BY DEF FenceInv, RunnerTypes, Leaves
<1>2. strays' \subseteq issued'
  BY HeldIsIssued DEF FenceInv, RunnerTypes
<1>3. RunnerTypes' /\ TokensUsed' /\ now <= now'
  BY <1>1, <1>2, NowIsInstant DEF FenceInv, RunnerTypes, TokensUsed
<1>4. ASSUME NEW v \in Workers, run'[v].phase = "running"
      PROVE  /\ run'[v] = run[v]
             /\ run[v].lease \notin strays' /\ Spared(run[v].lease)
  <2>1. v # w
    BY <1>4 DEF Leaves
  <2>2. run'[v] = run[v] /\ run[v].phase = "running"
    BY <1>1, <1>4, <2>1
  <2>3. run[v].lease \notin strays'
    <3>1. run[v].lease \notin strays
      BY <2>2, OwnLease
    <3>2. run[w].phase = "running" => run[v].lease # run[w].lease
      BY <2>1, <2>2, OwnLease
    <3> QED BY <3>1, <3>2
  <2> QED BY <2>1, <2>2, <2>3
<1> QED BY <1>3, <1>4, FenceKept

\* What the end of a handler, however it ends, does.
LEMMA RecoverLeaves ==
    ASSUME FenceInv, NEW w \in Workers, run[w].phase = "running",
           NEW retryable \in BOOLEAN, NEW fired \in BOOLEAN, Recover(w, retryable, fired)
    PROVE  /\ Leaves(w) /\ UNCHANGED <<nextToken, issued>>
           /\ \A v \in Workers \ {w} : run[v].phase = "running" => Spared(run[v].lease)
<1>1. Leaves(w)
  BY LoopMoves DEF Recover, Counters, Stops
<1>2. ASSUME NEW v \in Workers \ {w}, run[v].phase = "running" PROVE Spared(run[v].lease)
  <2>1. run[v].lease \in Lease /\ run[w].lease \in Lease /\ run[v].lease # run[w].lease /\ IInv
    BY <1>2, OwnLease DEF FenceInv, QueueInv
  <2>2. CASE UNCHANGED vars
    BY <2>2 DEF vars, Spared
  <2>3. CASE Release(run[w].lease, "lease_expired", now) \/ Fail(run[w].lease, retryable, now)
    BY <2>1, <2>3, HolderSpares
  <2> QED BY <2>2, <2>3 DEF Recover
<1>3. UNCHANGED <<nextToken, issued>>
  BY DEF Recover, Release, Fail, vars
<1> QED BY <1>1, <1>2, <1>3

LEMMA HandlerEndsFence ==
    ASSUME FenceInv, [Next]_vars, NEW w \in Workers,
           \/ HandlerReturns(w)
           \/ \E retryable \in BOOLEAN : HandlerThrows(w, retryable)
           \/ DeadlineFires(w)
    PROVE  FenceInv'
<1>1. CASE HandlerReturns(w)
  <2>1. CASE Recover(w, TRUE, FALSE)
    BY <1>1, <2>1, RecoverLeaves, LeavingKeepsFence DEF HandlerReturns
  <2>2. CASE /\ ReconcileExpired(run[w].lease, now) \/ Succeed(run[w].lease, now)
             /\ NextClaim(w, "expired") \/ NextClaim(w, "succeeded")
    <3>1. Leaves(w)
      BY <2>2, LoopMoves DEF Counters
    <3>2. ASSUME NEW v \in Workers \ {w}, run[v].phase = "running" PROVE Spared(run[v].lease)
      <4>1. /\ run[v].lease \in Lease /\ run[w].lease \in Lease
            /\ run[v].lease # run[w].lease /\ IInv
        BY <1>1, <3>2, OwnLease DEF FenceInv, QueueInv, HandlerReturns
      <4> QED BY <2>2, <4>1, HolderSpares
    <3>3. UNCHANGED <<nextToken, issued>>
      BY <2>2 DEF ReconcileExpired, Succeed
    <3> QED BY <1>1, <3>1, <3>2, <3>3, LeavingKeepsFence DEF HandlerReturns
  <2> QED BY <1>1, <2>1, <2>2 DEF HandlerReturns
<1>2. CASE \E retryable \in BOOLEAN : HandlerThrows(w, retryable)
  BY <1>2, RecoverLeaves, LeavingKeepsFence DEF HandlerThrows
<1>3. CASE DeadlineFires(w)
  BY <1>3, RecoverLeaves, LeavingKeepsFence DEF DeadlineFires
<1> QED BY <1>1, <1>2, <1>3

LEMMA StartHandlerFence ==
    ASSUME FenceInv, [Next]_vars, NEW w \in Workers, NEW k \in Keys, StartHandler(w, k)
    PROVE  FenceInv'
<1> DEFINE lease == [key |-> k, attempt |-> job[k].attemptCount + 1,
                     owner |-> w, token |-> nextToken]
<1>0. now \in Nat /\ IInv /\ run \in [Workers -> Invocation] /\ now + LeaseMs \in Nat
      /\ nextToken \in Nat
  BY NowIsInstant, LeaseAssumption DEF FenceInv, RunnerTypes, QueueInv, IInv, TypeOK
<1>1. /\ ClaimJob(w, k, now) /\ run[w].phase = "claiming"
      /\ nextToken' = nextToken + 1 /\ issued' = issued \cup {lease}
      /\ UNCHANGED <<now, strays>>
  BY DEF StartHandler, ClaimJob
<1>2. /\ job'[k].status = "leased" /\ job'[k].attemptCount = job[k].attemptCount + 1
      /\ job'[k].lease = [owner |-> w, token |-> nextToken, until |-> now + LeaseMs]
  BY <1>0, <1>1, ClaimedIsDue
<1>3. lease \in Lease
  BY <1>1, QueuePart DEF TypeOK
<1>4. run' = [run EXCEPT ![w] = [run[w] EXCEPT !.phase = "running", !.lease = lease,
                                               !.until = now + LeaseMs,
                                               !.counts = Counted(w, "claimed")]]
  BY <1>2 DEF StartHandler
<1>5. Counted(w, "claimed") \in [Counters -> Nat]
  BY <1>0 DEF Counted, Invocation, Counters
<1>6. /\ run'[w] \in Invocation /\ run'[w].phase = "running"
      /\ run'[w].lease = lease /\ run'[w].until = now + LeaseMs
  <2> HIDE DEF lease
  <2> QED BY <1>0, <1>3, <1>4, <1>5 DEF Invocation
<1>7. TokensUsed'
  <2>1. lease.token < nextToken'
    BY <1>0, <1>1
  <2>2. \A l \in issued : l.token < nextToken'
    BY <1>0, <1>1 DEF FenceInv, TokensUsed, QueueInv, IInv, TypeOK, Lease
  <2> QED BY <1>1, <2>1, <2>2 DEF TokensUsed
<1>8. RunnerTypes' /\ now <= now'
  BY <1>0, <1>1, <1>4, <1>6 DEF FenceInv, RunnerTypes
<1>9. Held(w)'
  <2>1. lease \in issued' \ strays'
    <3>1. lease \notin issued
      BY <1>0 DEF FenceInv, TokensUsed
    <3> QED BY <1>1, <3>1 DEF FenceInv, RunnerTypes
  <2>2. /\ lease.key = k /\ lease.owner = w /\ lease.token = nextToken
        /\ lease.attempt = job[k].attemptCount + 1
    OBVIOUS
  <2>3. /\ job'[k].lease.token = lease.token /\ job'[k].lease.owner = lease.owner
        /\ job'[k].attemptCount = lease.attempt /\ job'[k].lease.until = now + LeaseMs
    BY <1>2, <2>2
  <2> HIDE DEF lease
  <2> QED BY <1>2, <1>6, <2>1, <2>2, <2>3 DEF Held, HoldsToken
<1>10. ASSUME NEW v \in Workers \ {w}, run'[v].phase = "running"
       PROVE  run'[v] = run[v] /\ run[v].lease \notin strays' /\ Spared(run[v].lease)
  <2>1. run'[v] = run[v] /\ run[v].phase = "running"
    BY <1>0, <1>4, <1>10
  <2> QED BY <1>0, <1>1, <2>1, OwnLease, ClaimJobSpares
<1> QED BY <1>7, <1>8, <1>9, <1>10, FenceKept

LEMMA RenewLeaseFence ==
    ASSUME FenceInv, [Next]_vars, NEW w \in Workers, RenewLease(w)
    PROVE  FenceInv'
<1> DEFINE l == run[w].lease
<1>0. /\ now \in Nat /\ IInv /\ run \in [Workers -> Invocation] /\ now + LeaseMs \in Nat
      /\ run[w].phase = "running" /\ l \in issued \ strays /\ l \in Lease
      /\ l.key \in Keys /\ l.owner = w
  BY NowIsInstant, LeaseAssumption, HeldIsIssued, OwnLease
     DEF FenceInv, RunnerTypes, QueueInv, IInv, RenewLease
<1>1. /\ HoldsToken(l) /\ job[l.key] \in Job /\ job[l.key].lease \in HeldLease
      /\ job'[l.key] = [job[l.key] EXCEPT !.lease.until = now + LeaseMs]
  BY <1>0, TypesByKey DEF RenewLease, Heartbeat, HoldsLive, HoldsToken, IInv, JobInv
<1>2. /\ job'[l.key].status = "leased" /\ job'[l.key].lease.token = l.token
      /\ job'[l.key].lease.owner = l.owner /\ job'[l.key].attemptCount = l.attempt
      /\ job'[l.key].lease.until = now + LeaseMs
  BY <1>1 DEF HoldsToken, Job, HeldLease
<1>3. /\ UNCHANGED <<now, strays, nextToken, issued>>
      /\ run' = [run EXCEPT ![w].until = now + LeaseMs]
  BY DEF RenewLease, Heartbeat
<1>4. /\ run'[w] \in Invocation /\ run'[w].lease = l /\ run'[w].until = now + LeaseMs
      /\ \A v \in Workers \ {w} : run'[v] = run[v]
      /\ run' \in [Workers -> Invocation]
  <2>1. [run[w] EXCEPT !.until = now + LeaseMs] \in Invocation
    BY <1>0 DEF Invocation
  <2>2. run'[w] = [run[w] EXCEPT !.until = now + LeaseMs]
    BY <1>0, <1>3
  <2> QED BY <1>0, <1>3, <2>1, <2>2 DEF Invocation
<1>5. RunnerTypes' /\ TokensUsed' /\ now <= now'
  BY <1>0, <1>3, <1>4 DEF FenceInv, RunnerTypes, TokensUsed
<1>6. Held(w)'
  <2> HIDE DEF l
  <2> QED BY <1>0, <1>2, <1>3, <1>4 DEF Held, HoldsToken
<1>7. ASSUME NEW v \in Workers \ {w}, run'[v].phase = "running"
      PROVE  run'[v] = run[v] /\ run[v].lease \notin strays' /\ Spared(run[v].lease)
  <2>1. run'[v] = run[v] /\ run[v].phase = "running"
    BY <1>4, <1>7
  <2>2. run[v].lease \in Lease /\ run[v].lease # l /\ run[v].lease \notin strays'
    BY <1>0, <1>3, <2>1, OwnLease
  <2>3. Heartbeat(l, now)
    BY DEF RenewLease
  <2> QED BY <1>0, <2>1, <2>2, <2>3, HolderSpares
<1> QED BY <1>5, <1>6, <1>7, FenceKept

LEMMA InvocationFence ==
    ASSUME FenceInv, [Next]_vars, NEW w \in Workers, InvocationStep(w)
    PROVE  FenceInv'
<1>0. now \in Nat /\ IInv
  BY NowIsInstant DEF FenceInv, QueueInv
<1>1. CASE StartInvocation(w) \/ OutOfBudget(w) \/ Terminate(w)
  <2>1. Leaves(w) /\ UNCHANGED <<vars, now, strays>>
    BY <1>1, LoopMoves DEF StartInvocation, OutOfBudget, Terminate, Stops
  <2>2. \A l : Spared(l)
    BY <2>1 DEF vars, Spared
  <2> QED BY <2>1, <2>2, LeavingKeepsFence DEF vars
<1>2. CASE FindEmpty(w)
  <2>1. Leaves(w) /\ UNCHANGED <<nextToken, issued, now, strays>>
    BY <1>2, LoopMoves DEF FindEmpty, ClaimNothing, Stops
  <2>2. \A l \in Lease : Spared(l)
    BY <1>0, <1>2, ClaimNothingSpares DEF FindEmpty
  <2> QED BY <2>1, <2>2, OwnLease, LeavingKeepsFence
<1>3. CASE \E k \in Keys : StartHandler(w, k)
  BY <1>3, StartHandlerFence
<1>4. CASE RenewLease(w)
  BY <1>4, RenewLeaseFence
<1>5. CASE \/ HandlerReturns(w) \/ (\E retryable \in BOOLEAN : HandlerThrows(w, retryable))
           \/ DeadlineFires(w)
  BY <1>5, HandlerEndsFence
<1> QED BY <1>1, <1>2, <1>3, <1>4, <1>5 DEF InvocationStep

LEMMA FenceStep == ASSUME FenceInv, [RunnerNext]_runnerVars PROVE FenceInv'
<1>0. [Next]_vars /\ now \in Nat /\ IInv
  BY RunnerIsQueueStep, NowIsInstant DEF FenceInv, QueueInv
<1>1. CASE \E w \in Workers : InvocationStep(w)
  BY <1>0, <1>1, InvocationFence
\* The other steps change no invocation, and call the queue with no running one's lease.
<1>2. ASSUME run' = run, UNCHANGED <<nextToken, issued>>, strays' \subseteq strays,
             now' \in 0..MaxTime, now <= now',
             \A v \in Workers : run[v].phase = "running" => Spared(run[v].lease)
      PROVE  FenceInv'
  <2>1. RunnerTypes' /\ TokensUsed'
    BY <1>2 DEF FenceInv, RunnerTypes, TokensUsed
  <2>2. ASSUME NEW v \in Workers, run'[v].phase = "running"
        PROVE  run'[v] = run[v] /\ run[v].lease \notin strays' /\ Spared(run[v].lease)
    BY <1>2, <2>2, OwnLease
  <2> QED BY <1>0, <1>2, <2>1, <2>2, FenceKept
<1>3. ASSUME NEW l \in strays, StrayRenews(l) PROVE FenceInv'
  <2>1. l \in Lease /\ Heartbeat(l, now)
    BY <1>3 DEF StrayRenews, FenceInv, RunnerTypes, QueueInv, IInv, TypeOK
  <2>2. \A v \in Workers : run[v].phase = "running" => Spared(run[v].lease)
    BY <1>0, <2>1, OwnLease, HolderSpares
  <2> QED BY <1>0, <1>2, <1>3, <2>2 DEF StrayRenews, Heartbeat, FenceInv, RunnerTypes
<1>4. ASSUME NEW l \in strays, StrayEnds(l) PROVE FenceInv'
  <2>1. \A m : Spared(m)
    BY <1>4 DEF StrayEnds, vars, Spared
  <2> QED BY <1>0, <1>2, <1>4, <2>1 DEF StrayEnds, vars, FenceInv, RunnerTypes
<1>5. CASE Schedule
  <2>1. \A m \in Lease : Spared(m)
    BY <1>0, <1>5, SubmissionsAssumption, EnqueueSpares DEF Schedule
  <2>2. UNCHANGED <<nextToken, issued, now, run, strays>>
    BY <1>5 DEF Schedule, Enqueue
  <2> QED BY <1>0, <1>2, <2>1, <2>2, OwnLease DEF FenceInv, RunnerTypes
<1>6. CASE Tick \/ UNCHANGED runnerVars
  <2>1. \A m : Spared(m)
    BY <1>6 DEF Tick, runnerVars, vars, Spared
  <2>2. now' \in 0..MaxTime /\ now <= now'
    BY <1>0, <1>6, RunnerAssumption DEF Tick, runnerVars, FenceInv, RunnerTypes
  <2> QED BY <1>2, <1>6, <2>1, <2>2 DEF Tick, runnerVars, vars
<1> QED BY <1>1, <1>3, <1>4, <1>5, <1>6 DEF RunnerNext

-----------------------------------------------------------------------------
(* Theorems about leases *)

THEOREM FenceInvariance == RunnerSpec => []FenceInv
<1>1. RunnerInit => FenceInv
  BY FenceInit
<1>2. FenceInv /\ [RunnerNext]_runnerVars => FenceInv'
  BY FenceStep
<1> QED BY <1>1, <1>2, PTL DEF RunnerSpec

\* Invocations, stray handlers and schedulers only ever make legal calls of the
\* queue: every property proved of the queue under any callers holds under these.
THEOREM RunnerImplementsQueue == RunnerSpec => Spec
<1>1. RunnerInit => Init
  BY DEF RunnerInit
<1>2. FenceInv /\ [RunnerNext]_runnerVars => [Next]_vars
  BY RunnerIsQueueStep
<1> QED BY <1>1, <1>2, FenceInvariance, PTL DEF RunnerSpec, Spec

\* While an invocation takes its lease for live, so does the queue, and until
\* the same instant (runner.ts, completion and catch).
THEOREM FencedWhileLiveHolds == RunnerSpec => []FencedWhileLive
<1>1. FenceInv => FencedWhileLive
  <2> SUFFICES ASSUME FenceInv, NEW w \in Workers, run[w].phase = "running", run[w].until > now
               PROVE  /\ HoldsLive(run[w].lease, now)
                      /\ job[run[w].lease.key].lease.until = run[w].until
    BY DEF FencedWhileLive
  <2>1. run[w].until \in Nat /\ now \in Nat
    BY NowIsInstant DEF FenceInv, RunnerTypes, Invocation
  <2>2. HoldsToken(run[w].lease)
    BY <2>1 DEF FenceInv, Held
  <2> QED BY <2>1, <2>2 DEF FenceInv, Held, HoldsLive
<1> QED BY <1>1, FenceInvariance, PTL

\* An invocation starts to run a handler only by claiming its job.
LEMMA RunsWhatItClaimed ==
    ASSUME FenceInv, [RunnerNext]_runnerVars, NEW w \in Workers,
           run[w].phase = "claiming", run'[w].phase = "running"
    PROVE  \E k \in Keys : ClaimJob(w, k, now) /\ run'[w].lease.key = k
<1>0. run \in [Workers -> Invocation]
  BY DEF FenceInv, RunnerTypes
<1>1. run'[w] # run[w]
  OBVIOUS
<1>2. PICK u \in Workers : InvocationStep(u)
  BY <1>1 DEF RunnerNext, runnerVars, StrayRenews, StrayEnds, Schedule, Tick
<1>3. CASE u # w
  <2>1. run' = [run EXCEPT ![u] = run'[u]]
    <3>1. CASE StartInvocation(u) \/ OutOfBudget(u) \/ FindEmpty(u) \/ Terminate(u)
      BY <1>0, <3>1, LoopMoves DEF OutOfBudget, FindEmpty, Leaves, Stops
    <3>2. CASE (\E k \in Keys : StartHandler(u, k)) \/ RenewLease(u)
      BY <1>0, <3>2 DEF StartHandler, RenewLease
    <3>3. ASSUME run[u].phase = "running", NEW retryable \in BOOLEAN, NEW fired \in BOOLEAN,
                 Recover(u, retryable, fired)
          PROVE  run' = [run EXCEPT ![u] = run'[u]]
      BY <3>3, RecoverLeaves DEF Leaves
    <3>4. CASE HandlerReturns(u)
      BY <3>3, <3>4, LoopMoves DEF HandlerReturns, Leaves, Counters
    <3>5. CASE (\E retryable \in BOOLEAN : HandlerThrows(u, retryable)) \/ DeadlineFires(u)
      BY <3>3, <3>5 DEF HandlerThrows, DeadlineFires
    <3> QED BY <1>2, <3>1, <3>2, <3>4, <3>5 DEF InvocationStep
  <2>2. run'[w] = run[w]
    BY <1>0, <1>3, <2>1
  <2> QED BY <1>1, <2>2
<1>4. CASE u = w
  <2>1. ~(StartInvocation(w) \/ OutOfBudget(w) \/ FindEmpty(w) \/ Terminate(w))
    BY LoopMoves DEF OutOfBudget, FindEmpty, Leaves, Stops
  <2>2. ~(RenewLease(w) \/ HandlerReturns(w) \/ DeadlineFires(w))
    BY DEF RenewLease, HandlerReturns, DeadlineFires
  <2>3. ~\E retryable \in BOOLEAN : HandlerThrows(w, retryable)
    BY DEF HandlerThrows
  <2>4. PICK k \in Keys : StartHandler(w, k)
    BY <1>2, <1>4, <2>1, <2>2, <2>3 DEF InvocationStep
  <2>5. run'[w].lease.key = k
    BY <1>0, <2>4 DEF StartHandler, Invocation
  <2> QED BY <2>4, <2>5 DEF StartHandler
<1> QED BY <1>3, <1>4

\* Two handlers of one job never run within the back-off of each other's leases
\* (queue.ts #retryAt), whatever becomes of the first.
THEOREM ReclaimGapHolds == RunnerSpec => ReclaimGap
<1> DEFINE Gap == \A v, w \in Workers :
                    (/\ run[v].phase = "running"
                     /\ run[w].phase = "claiming" /\ run'[w].phase = "running"
                     /\ run'[w].lease.key = run[v].lease.key)
                    => run[v].until + MinBackoff <= now
<1>1. FenceInv /\ [RunnerNext]_runnerVars => [Gap]_runnerVars
  <2> SUFFICES ASSUME FenceInv, [RunnerNext]_runnerVars, NEW v \in Workers, NEW w \in Workers,
                      run[v].phase = "running",
                      run[w].phase = "claiming", run'[w].phase = "running",
                      run'[w].lease.key = run[v].lease.key
               PROVE  run[v].until + MinBackoff <= now
    OBVIOUS
  <2>1. PICK k \in Keys : ClaimJob(w, k, now) /\ run'[w].lease.key = k
    BY RunsWhatItClaimed
  <2>2. now \in Nat /\ IInv /\ run[v].until \in Nat /\ MinBackoff \in Nat
    BY NowIsInstant, BackoffAssumption DEF FenceInv, QueueInv, RunnerTypes, Invocation
  <2>3. job[k].status \in {"queued", "retryable"} /\ job[k].availableAt <= now
        /\ job[k].availableAt \in Nat
    BY <2>1, <2>2, ClaimedIsDue, TypesByKey DEF IInv, Job
  <2>4. ~HoldsToken(run[v].lease)
    BY <2>1, <2>3 DEF HoldsToken
  <2>5. \/ run[v].until + MinBackoff <= now
        \/ run[v].until + MinBackoff <= job[k].availableAt
        \/ job[k].status \in Terminal
    BY <2>1, <2>4 DEF FenceInv, Held, Lapsed
  <2> QED BY <2>2, <2>3, <2>5 DEF Terminal
<1> QED BY <1>1, FenceInvariance, PTL DEF RunnerSpec, ReclaimGap

-----------------------------------------------------------------------------
(* Counters and attempts *)

\* The counters the report owes to the queue's record, and the attempts each counts.
Reported == {"claimed", "succeeded", "failed", "expired"}

StatusesOf == [fate \in Reported |->
    IF fate = "claimed" THEN {"evaluating", "succeeded", "failed"}
    ELSE IF fate = "succeeded" THEN {"succeeded"} ELSE {"failed"}]

CodesOf == [fate \in Reported |->
    IF fate = "failed" THEN {"transient", "final"}
    ELSE IF fate = "expired" THEN {"completed_late"} ELSE Codes]

Fated(attempt, w, fate) ==
    /\ attempt.worker = w
    /\ attempt.status \in StatusesOf[fate]
    /\ attempt.code \in CodesOf[fate]

\* ReportMatchesQueue, and that there are finitely many attempts to count.
CountInv ==
    \A w \in Workers, fate \in Reported :
        /\ IsFiniteSet(Made(w, StatusesOf[fate], CodesOf[fate]))
        /\ Cardinality(Made(w, StatusesOf[fate], CodesOf[fate])) = run[w].counts[fate]

\* The sweep of a claim, or a release, ended the attempt for its expired lease.
Expiring(before, after) ==
    /\ before.status = "evaluating"
    /\ after = [worker |-> before.worker, status |-> "failed", code |-> "lease_expired"]

QuietAt(k, m) ==
    attempts'[k][m] = attempts[k][m] \/ Expiring(attempts[k][m], attempts'[k][m])

Quiet == \A k \in Keys, m \in Numbers : QuietAt(k, m)
QuietBut(k0, m0) == \A k \in Keys, m \in Numbers : <<k, m>> # <<k0, m0>> => QuietAt(k, m)

\* At most the counter of one fate of one invocation goes up.
CountedFor(w, fate) ==
    \A v \in Workers, f \in Reported :
        run'[v].counts[f] = IF v = w /\ f = fate THEN run[v].counts[f] + 1
                                                 ELSE run[v].counts[f]

\* No counter goes up for an attempt whose lease expired.
LEMMA QuietIsUncounted ==
    ASSUME NEW k \in Keys, NEW m \in Numbers, attempts[k] \in AttemptTable, QuietAt(k, m),
           NEW w, NEW fate \in Reported
    PROVE  Fated(attempts'[k][m], w, fate) <=> Fated(attempts[k][m], w, fate)
<1>1. CASE attempts'[k][m] = attempts[k][m]
  BY <1>1 DEF Fated
<1>2. CASE Expiring(attempts[k][m], attempts'[k][m])
  <2>1. attempts[k][m].code \in Codes
    BY <1>2 DEF AttemptTable, Attempt, NoAttempt, Expiring
  <2>2. CASE fate = "claimed"
    BY <1>2, <2>1, <2>2 DEF Fated, Expiring, StatusesOf, CodesOf, Reported, Codes
  <2>3. CASE fate # "claimed"
    BY <1>2, <2>3 DEF Fated, Expiring, StatusesOf, CodesOf, Reported, Codes
  <2> QED BY <2>2, <2>3
<1> QED BY <1>1, <1>2 DEF QuietAt

\* Counting goes by attempt: a set to which one attempt is added has one more.
LEMMA MadeSame ==
    ASSUME NEW w, NEW fate,
           \A k \in Keys, m \in Numbers :
               Fated(attempts'[k][m], w, fate) <=> Fated(attempts[k][m], w, fate)
    PROVE  Made(w, StatusesOf[fate], CodesOf[fate])' = Made(w, StatusesOf[fate], CodesOf[fate])
BY DEF Made, Fated, Numbers

LEMMA MadeOneMore ==
    ASSUME NEW w, NEW fate, NEW k0 \in Keys, NEW m0 \in Numbers,
           \A k \in Keys, m \in Numbers : <<k, m>> # <<k0, m0>> =>
               (Fated(attempts'[k][m], w, fate) <=> Fated(attempts[k][m], w, fate)),
           ~Fated(attempts[k0][m0], w, fate), Fated(attempts'[k0][m0], w, fate)
    PROVE  /\ <<k0, m0>> \notin Made(w, StatusesOf[fate], CodesOf[fate])
           /\ Made(w, StatusesOf[fate], CodesOf[fate])' =
                Made(w, StatusesOf[fate], CodesOf[fate]) \cup {<<k0, m0>>}
BY DEF Made, Fated, Numbers

LEMMA QuietCounts ==
    ASSUME TypeOK, CountInv, Quiet, NEW w, NEW fate, CountedFor(w, fate), fate \notin Reported
    PROVE  CountInv'
<1> SUFFICES ASSUME NEW v \in Workers, NEW f \in Reported
             PROVE  /\ IsFiniteSet(Made(v, StatusesOf[f], CodesOf[f])')
                    /\ Cardinality(Made(v, StatusesOf[f], CodesOf[f])') = run'[v].counts[f]
  BY DEF CountInv
<1>1. Made(v, StatusesOf[f], CodesOf[f])' = Made(v, StatusesOf[f], CodesOf[f])
  BY QuietIsUncounted, TypesByKey, MadeSame DEF Quiet
<1>2. run'[v].counts[f] = run[v].counts[f]
  BY DEF CountedFor
<1> QED BY <1>1, <1>2 DEF CountInv

\* One attempt of the invocation w meets the given fate, and that fate is counted.
LEMMA OneCounts ==
    ASSUME TypeOK, CountInv, NEW w \in Workers, NEW fate \in Reported, CountedFor(w, fate),
           NEW k0 \in Keys, NEW m0 \in Numbers, QuietBut(k0, m0),
           \A v \in Workers, f \in Reported :
               IF v = w /\ f = fate
               THEN ~Fated(attempts[k0][m0], v, f) /\ Fated(attempts'[k0][m0], v, f)
               ELSE Fated(attempts'[k0][m0], v, f) <=> Fated(attempts[k0][m0], v, f)
    PROVE  CountInv'
<1> SUFFICES ASSUME NEW v \in Workers, NEW f \in Reported
             PROVE  /\ IsFiniteSet(Made(v, StatusesOf[f], CodesOf[f])')
                    /\ Cardinality(Made(v, StatusesOf[f], CodesOf[f])') = run'[v].counts[f]
  BY DEF CountInv
<1>1. \A k \in Keys, m \in Numbers : <<k, m>> # <<k0, m0>> =>
        (Fated(attempts'[k][m], v, f) <=> Fated(attempts[k][m], v, f))
  BY QuietIsUncounted, TypesByKey DEF QuietBut
<1>2. CASE v = w /\ f = fate
  <2>1. /\ <<k0, m0>> \notin Made(v, StatusesOf[f], CodesOf[f])
        /\ Made(v, StatusesOf[f], CodesOf[f])' =
             Made(v, StatusesOf[f], CodesOf[f]) \cup {<<k0, m0>>}
    BY <1>1, <1>2, MadeOneMore
  <2>2. run'[v].counts[f] = run[v].counts[f] + 1
    BY <1>2 DEF CountedFor
  <2> QED BY <2>1, <2>2, FS_AddElement DEF CountInv
<1>3. CASE ~(v = w /\ f = fate)
  <2>1. \A k \in Keys, m \in Numbers :
          Fated(attempts'[k][m], v, f) <=> Fated(attempts[k][m], v, f)
    BY <1>1, <1>3
  <2>2. Made(v, StatusesOf[f], CodesOf[f])' = Made(v, StatusesOf[f], CodesOf[f])
    BY <2>1, MadeSame
  <2>3. run'[v].counts[f] = run[v].counts[f]
    BY <1>3 DEF CountedFor
  <2> QED BY <2>2, <2>3 DEF CountInv
<1> QED BY <1>2, <1>3

\* The holder of a lease closes the attempt it made under it, and no other.
LEMMA Closing ==
    ASSUME FenceInv, NEW w \in Workers, run[w].phase = "running",
           NEW l \in Lease, l = run[w].lease, HoldsToken(l), HasActiveAttempt(l.key),
           NEW s, NEW c \in Codes,
           attempts' = [attempts EXCEPT ![l.key] = Close(l.key, s, c)]
    PROVE  /\ l.key \in Keys /\ l.attempt \in Numbers
           /\ attempts[l.key][l.attempt] \in Attempt
           /\ attempts[l.key][l.attempt].status = "evaluating"
           /\ attempts[l.key][l.attempt].worker = w
           /\ attempts'[l.key][l.attempt] = [worker |-> w, status |-> s, code |-> c]
           /\ \A k \in Keys, m \in Numbers :
                k # l.key \/ m # l.attempt => attempts'[k][m] = attempts[k][m]
<1> DEFINE k0 == l.key
           m0 == job[l.key].attemptCount
<1>0. /\ TypeOK /\ k0 \in Keys /\ job[k0] \in Job /\ attempts[k0] \in AttemptTable
      /\ attempts \in [Keys -> AttemptTable] /\ JobInv(k0) /\ l.owner = w
  BY HeldIsIssued, TypesByKey DEF FenceInv, QueueInv, IInv, TypeOK, AttemptTable, Numbers, Lease
<1>1. m0 \in Numbers
  BY <1>0, AttemptsAssumption DEF HasActiveAttempt, Job, Numbers
<1>2. attempts[k0][m0] \in Attempt /\ attempts[k0][m0].status = "evaluating"
  BY <1>0, <1>1 DEF AttemptTable, HasActiveAttempt, NoAttempt
<1>3. attempts[k0][m0].worker = w
  BY <1>0 DEF JobInv, HoldsToken, LastAttempt
<1>4. attempts'[k0][m0] = [worker |-> w, status |-> s, code |-> c]
  BY <1>0, <1>1, <1>3 DEF Close, AttemptTable
<1>5. \A k \in Keys, m \in Numbers : <<k, m>> # <<k0, m0>> => attempts'[k][m] = attempts[k][m]
  BY <1>0, <1>1 DEF Close, AttemptTable
<1>6. l.attempt = m0
  BY DEF HoldsToken
<1> QED BY <1>0, <1>1, <1>2, <1>3, <1>4, <1>5, <1>6

\* The holder of a lease closes its attempt, and counts what it closed it as.
LEMMA CloseCounts ==
    ASSUME FenceInv, CountInv, NEW w \in Workers, run[w].phase = "running",
           NEW l \in Lease, l = run[w].lease, HoldsToken(l), HasActiveAttempt(l.key),
           NEW s, NEW c \in Codes,
           attempts' = [attempts EXCEPT ![l.key] = Close(l.key, s, c)],
           NEW fate, CountedFor(w, fate),
           \/ s = "failed" /\ c = "lease_expired" /\ fate \notin Reported
           \/ s = "succeeded" /\ c = "none" /\ fate = "succeeded"
           \/ s = "failed" /\ c \in {"transient", "final"} /\ fate = "failed"
           \/ s = "failed" /\ c = "completed_late" /\ fate = "expired"
    PROVE  CountInv'
<1>a. /\ l.key \in Keys /\ l.attempt \in Numbers
      /\ attempts[l.key][l.attempt] \in Attempt
      /\ attempts[l.key][l.attempt].status = "evaluating"
      /\ attempts[l.key][l.attempt].worker = w
      /\ attempts'[l.key][l.attempt] = [worker |-> w, status |-> s, code |-> c]
      /\ \A k \in Keys, m \in Numbers :
           k # l.key \/ m # l.attempt => attempts'[k][m] = attempts[k][m]
  BY Closing
<1> DEFINE k0 == l.key
           m0 == l.attempt
<1>0. TypeOK /\ k0 \in Keys
  BY DEF FenceInv, QueueInv, IInv, Lease
<1>1. m0 \in Numbers
  BY <1>a
<1>2. attempts[k0][m0] \in Attempt /\ attempts[k0][m0].status = "evaluating"
  BY <1>a
<1>3. attempts[k0][m0].worker = w
  BY <1>a
<1>4. attempts'[k0][m0] = [worker |-> w, status |-> s, code |-> c]
  BY <1>a
<1>5. \A k \in Keys, m \in Numbers : <<k, m>> # <<k0, m0>> => attempts'[k][m] = attempts[k][m]
  BY <1>a
<1>6. QuietBut(k0, m0)
  BY <1>5 DEF QuietBut, QuietAt
<1>7. CASE s = "failed" /\ c = "lease_expired" /\ fate \notin Reported
  <2>1. QuietAt(k0, m0)
    BY <1>2, <1>3, <1>4, <1>7 DEF QuietAt, Expiring
  <2>2. Quiet
    BY <1>6, <2>1 DEF Quiet, QuietBut
  <2> QED BY <1>0, <1>7, <2>2, QuietCounts
<1>8. ASSUME fate \in Reported \ {"claimed"},
             \A f \in Reported \ {"claimed"} :
                 (s \in StatusesOf[f] /\ c \in CodesOf[f]) <=> f = fate,
             s \in {"succeeded", "failed"}
      PROVE  CountInv'
  <2>1. ASSUME NEW v \in Workers, NEW f \in Reported
        PROVE  IF v = w /\ f = fate
               THEN ~Fated(attempts[k0][m0], v, f) /\ Fated(attempts'[k0][m0], v, f)
               ELSE Fated(attempts'[k0][m0], v, f) <=> Fated(attempts[k0][m0], v, f)
    <3>1. CASE f = "claimed"
      <4>1. "claimed" \in Reported /\ StatusesOf["claimed"] = {"evaluating", "succeeded", "failed"}
            /\ CodesOf["claimed"] = Codes
        BY DEF StatusesOf, CodesOf, Reported
      <4>2. Fated(attempts[k0][m0], v, f) <=> v = w
        BY <1>2, <1>3, <3>1, <4>1 DEF Fated, Attempt
      <4>3. Fated(attempts'[k0][m0], v, f) <=> v = w
        BY <1>4, <1>8, <3>1, <4>1 DEF Fated
      <4>4. f # fate
        BY <1>8, <3>1
      <4> QED BY <4>2, <4>3, <4>4
    <3>2. CASE f # "claimed"
      <4>1. ~Fated(attempts[k0][m0], v, f)
        BY <1>2, <3>2 DEF Fated, StatusesOf, Reported
      <4>2. Fated(attempts'[k0][m0], v, f) <=> v = w /\ f = fate
        BY <1>4, <1>8, <3>2 DEF Fated
      <4> QED BY <4>1, <4>2
    <3> QED BY <3>1, <3>2
  <2> HIDE DEF k0, m0
  <2> QED BY <1>0, <1>1, <1>6, <1>8, <2>1, OneCounts
<1>9. CASE s = "succeeded" /\ c = "none" /\ fate = "succeeded"
  BY <1>8, <1>9 DEF Reported, StatusesOf, CodesOf
<1>10. CASE s = "failed" /\ c \in {"transient", "final"} /\ fate = "failed"
  BY <1>8, <1>10 DEF Reported, StatusesOf, CodesOf, Codes
<1>11. CASE s = "failed" /\ c = "completed_late" /\ fate = "expired"
  BY <1>8, <1>11 DEF Reported, StatusesOf, CodesOf, Codes
<1> QED BY <1>7, <1>9, <1>10, <1>11

\* What the first pass of a claim ends, it ends for an expired lease.
LEMMA SweepIsQuiet ==
    ASSUME IInv, now \in Nat, SweepDefined(now), NEW k \in Keys, NEW m \in Numbers
    PROVE  \/ SweptAttempts(now)[k][m] = attempts[k][m]
           \/ Expiring(attempts[k][m], SweptAttempts(now)[k][m])
<1>1. CASE ~Expired(k, now)
  BY <1>1 DEF SweptAttempts
<1>2. CASE Expired(k, now)
  <2>1. HasActiveAttempt(k) /\ job[k] \in Job /\ attempts[k] \in AttemptTable
    BY <1>2, TypesByKey DEF SweepDefined, IInv
  <2>2. job[k].attemptCount \in Numbers
    BY <2>1, AttemptsAssumption DEF HasActiveAttempt, Job, Numbers
  <2>3. SweptAttempts(now)[k] = Close(k, "failed", "lease_expired")
    BY <1>2 DEF SweptAttempts
  <2> QED BY <2>1, <2>2, <2>3 DEF Close, AttemptTable, HasActiveAttempt, Expiring
<1> QED BY <1>1, <1>2

LEMMA ClaimNothingIsQuiet ==
    ASSUME IInv, now \in Nat, ClaimNothing(now) PROVE Quiet
BY SweepIsQuiet DEF ClaimNothing, Quiet, QuietAt

\* A claim adds one attempt where there was none; what else it does is quiet.
LEMMA ClaimAdds ==
    ASSUME FenceInv, NEW w \in Workers, NEW k0 \in Keys, ClaimJob(w, k0, now)
    PROVE  /\ job[k0].attemptCount + 1 \in Numbers
           /\ attempts[k0][job[k0].attemptCount + 1] = NoAttempt
           /\ attempts'[k0][job[k0].attemptCount + 1] =
                [worker |-> w, status |-> "evaluating", code |-> "none"]
           /\ QuietBut(k0, job[k0].attemptCount + 1)
<1> DEFINE m0 == job[k0].attemptCount + 1
<1>0. /\ now \in Nat /\ IInv /\ TypeOK /\ SweepDefined(now) /\ job[k0] \in Job
      /\ attempts[k0] \in AttemptTable /\ JobInv(k0)
  BY NowIsInstant, TypesByKey DEF FenceInv, QueueInv, IInv, ClaimJob
<1>1. HasAttemptsLeft(job[k0]) /\ ~Expired(k0, now)
  BY <1>0, ClaimedIsDue, ClaimedIsNotExpired DEF ClaimJob
<1>2. m0 \in Numbers
  BY <1>0, <1>1, AttemptsAssumption DEF HasAttemptsLeft, Job, Numbers
<1>3. SweptAttempts(now)[k0] = attempts[k0]
  BY <1>1 DEF SweptAttempts
<1>4. attempts'[k0] = [attempts[k0] EXCEPT
        ![m0] = [worker |-> w, status |-> "evaluating", code |-> "none"]]
  BY <1>3 DEF ClaimJob, SweptAttempts
<1>5. \A k \in Keys : k # k0 => attempts'[k] = SweptAttempts(now)[k]
  BY DEF ClaimJob, SweptAttempts
<1>6. attempts'[k0][m0] = [worker |-> w, status |-> "evaluating", code |-> "none"]
  BY <1>0, <1>2, <1>4 DEF AttemptTable
<1>7. attempts[k0][m0] = NoAttempt
  BY <1>0, <1>2 DEF JobInv, Job
<1>8. QuietBut(k0, m0)
  <2> SUFFICES ASSUME NEW k \in Keys, NEW m \in Numbers, <<k, m>> # <<k0, m0>>
               PROVE  QuietAt(k, m)
    BY DEF QuietBut
  <2>1. CASE k = k0
    <3>1. attempts'[k][m] = attempts[k][m]
      BY <1>0, <1>4, <2>1 DEF AttemptTable
    <3> QED BY <3>1 DEF QuietAt
  <2>2. CASE k # k0
    BY <1>0, <1>5, <2>2, SweepIsQuiet DEF QuietAt
  <2> QED BY <2>1, <2>2
<1> QED BY <1>2, <1>6, <1>7, <1>8

LEMMA ClaimCounts ==
    ASSUME FenceInv, CountInv, NEW w \in Workers, NEW k0 \in Keys, ClaimJob(w, k0, now),
           CountedFor(w, "claimed")
    PROVE  CountInv'
<1> DEFINE m0 == job[k0].attemptCount + 1
<1>0. TypeOK
  BY DEF FenceInv, QueueInv, IInv
<1>2. m0 \in Numbers
  BY ClaimAdds
<1>6. attempts'[k0][m0] = [worker |-> w, status |-> "evaluating", code |-> "none"]
  BY ClaimAdds
<1>7. attempts[k0][m0] = NoAttempt
  BY ClaimAdds
<1>8. QuietBut(k0, m0)
  BY ClaimAdds
<1>9. ASSUME NEW v \in Workers, NEW f \in Reported
      PROVE  IF v = w /\ f = "claimed"
             THEN ~Fated(attempts[k0][m0], v, f) /\ Fated(attempts'[k0][m0], v, f)
             ELSE Fated(attempts'[k0][m0], v, f) <=> Fated(attempts[k0][m0], v, f)
  <2>1. ~Fated(attempts[k0][m0], v, f)
    BY <1>7 DEF Fated, NoAttempt, StatusesOf, Reported
  <2>2. CASE f = "claimed"
    <3>1. "evaluating" \in StatusesOf[f] /\ "none" \in CodesOf[f]
      BY <2>2 DEF StatusesOf, CodesOf, Codes, Reported
    <3> QED BY <1>6, <2>1, <2>2, <3>1 DEF Fated
  <2>3. CASE f # "claimed"
    <3>1. "evaluating" \notin StatusesOf[f]
      BY <2>3 DEF StatusesOf, Reported
    <3> QED BY <1>6, <2>1, <2>3, <3>1 DEF Fated
  <2> QED BY <2>2, <2>3
<1> HIDE DEF m0
<1> QED BY <1>0, <1>2, <1>8, <1>9, OneCounts DEF Reported

LEMMA CountInit == ASSUME RunnerInit PROVE CountInv
<1> SUFFICES ASSUME NEW w \in Workers, NEW fate \in Reported
             PROVE  /\ IsFiniteSet(Made(w, StatusesOf[fate], CodesOf[fate]))
                    /\ Cardinality(Made(w, StatusesOf[fate], CodesOf[fate])) = run[w].counts[fate]
  BY DEF CountInv
<1>1. \A k \in Keys, m \in Numbers : attempts[k][m].status = "none"
  BY DEF RunnerInit, Init, NoAttempt, Numbers
<1>2. "none" \notin StatusesOf[fate]
  BY DEF StatusesOf, Reported
<1>3. Made(w, StatusesOf[fate], CodesOf[fate]) = {}
  BY <1>1, <1>2 DEF Made, Numbers
<1>4. run[w].counts[fate] = 0
  BY DEF RunnerInit, IdleInvocation, Counters, Reported
<1> QED BY <1>3, <1>4, FS_EmptySet

LEMMA CountMoves ==
    ASSUME FenceInv, NEW w \in Workers
    PROVE  /\ \A fate \in Counters :
                NextClaim(w, fate) \/ StopAfter(w, fate) => CountedFor(w, fate)
           /\ (\E reason \in Stops : StopFor(w, reason)) => CountedFor(w, "none")
           /\ StartInvocation(w) \/ Terminate(w) \/ RenewLease(w) => CountedFor(w, "none")
           /\ run' = run => CountedFor(w, "none")
<1>1. run \in [Workers -> Invocation]
  BY DEF FenceInv, RunnerTypes
<1>2. ASSUME NEW fate \in Counters, NextClaim(w, fate) \/ StopAfter(w, fate)
      PROVE  CountedFor(w, fate)
  <2>1. run'[w].counts = Counted(w, fate) /\ \A v \in Workers \ {w} : run'[v] = run[v]
    <3>1. CASE NextClaim(w, fate)
      BY <1>1, <3>1 DEF NextClaim, Invocation
    <3>2. CASE StopAfter(w, fate)
      BY <1>1, <3>2 DEF StopAfter, Invocation
    <3> QED BY <1>2, <3>1, <3>2
  <2>2. \A f \in Reported : run'[w].counts[f] = IF f = fate THEN run[w].counts[f] + 1
                                                            ELSE run[w].counts[f]
    BY <1>1, <2>1 DEF Counted, Invocation, Reported, Counters
  <2> QED BY <2>1, <2>2 DEF CountedFor
<1>3. ASSUME \A v \in Workers : run'[v].counts = run[v].counts PROVE CountedFor(w, "none")
  BY <1>3 DEF CountedFor, Reported
<1>4. ASSUME NEW reason \in Stops, StopFor(w, reason) PROVE CountedFor(w, "none")
  BY <1>1, <1>3, <1>4 DEF StopFor, Invocation
<1>5. ASSUME StartInvocation(w) \/ Terminate(w) \/ RenewLease(w) PROVE CountedFor(w, "none")
  <2>1. CASE StartInvocation(w)
    BY <1>1, <1>3, <2>1 DEF StartInvocation, Invocation
  <2>2. CASE Terminate(w)
    BY <1>1, <1>3, <2>2 DEF Terminate, Invocation
  <2>3. CASE RenewLease(w)
    BY <1>1, <1>3, <2>3 DEF RenewLease, Invocation
  <2> QED BY <1>5, <2>1, <2>2, <2>3
<1>6. ASSUME run' = run PROVE CountedFor(w, "none")
  BY <1>3, <1>6
<1> QED BY <1>2, <1>4, <1>5, <1>6

LEMMA RecoverCounts ==
    ASSUME FenceInv, CountInv, NEW w \in Workers, run[w].phase = "running",
           NEW retryable \in BOOLEAN, NEW fired \in BOOLEAN, Recover(w, retryable, fired)
    PROVE  CountInv'
<1>0. TypeOK /\ run[w].lease \in Lease /\ run[w].lease.key \in Keys
  BY HeldIsIssued DEF FenceInv, QueueInv, IInv
<1>1. ASSUME NEW fate \in Counters \ Reported, UNCHANGED vars,
             NextClaim(w, fate) \/ StopAfter(w, fate)
      PROVE  CountInv'
  <2>1. Quiet
    BY <1>1 DEF vars, Quiet, QuietAt
  <2> QED BY <1>0, <1>1, <2>1, CountMoves, QuietCounts
<1>2. CASE UNCHANGED vars /\ StopFor(w, "DEADLINE_REACHED")
  <2>1. Quiet
    BY <1>2 DEF vars, Quiet, QuietAt
  <2>2. CountedFor(w, "none") /\ "none" \notin Reported
    BY <1>2, CountMoves DEF Stops, Reported
  <2> QED BY <1>0, <2>1, <2>2, QuietCounts
<1>3. CASE /\ HoldsToken(run[w].lease) /\ Release(run[w].lease, "lease_expired", now)
           /\ StopAfter(w, "released") \/ NextClaim(w, "released")
  <2>1. CountedFor(w, "released") /\ "released" \notin Reported /\ "lease_expired" \in Codes
    BY <1>3, CountMoves DEF Counters, Reported, Codes
  <2> QED BY <1>0, <1>3, <2>1, CloseCounts DEF Release
<1>4. CASE /\ HoldsToken(run[w].lease) /\ Fail(run[w].lease, retryable, now)
           /\ NextClaim(w, "failed")
  <2>1. CountedFor(w, "failed") /\ "transient" \in Codes /\ "final" \in Codes
    BY <1>4, CountMoves DEF Counters, Codes
  <2>2. \E c \in {"transient", "final"} :
          attempts' = [attempts EXCEPT ![run[w].lease.key] = Close(run[w].lease.key, "failed", c)]
    BY <1>4 DEF Fail
  <2> QED BY <1>0, <1>4, <2>1, <2>2, CloseCounts DEF Fail
<1>5. "lost" \in Counters \ Reported
  BY DEF Counters, Reported
<1> QED BY <1>1, <1>2, <1>3, <1>4, <1>5 DEF Recover

LEMMA InvocationCounts ==
    ASSUME FenceInv, CountInv, NEW w \in Workers, InvocationStep(w)
    PROVE  CountInv'
<1>0. TypeOK /\ IInv /\ now \in Nat /\ run \in [Workers -> Invocation]
  BY NowIsInstant DEF FenceInv, QueueInv, IInv, RunnerTypes
<1>a. ASSUME Quiet, CountedFor(w, "none") PROVE CountInv'
  BY <1>0, <1>a, QuietCounts DEF Reported
<1>1. CASE StartInvocation(w) \/ OutOfBudget(w) \/ Terminate(w)
  <2>1. Quiet
    BY <1>1 DEF StartInvocation, OutOfBudget, Terminate, vars, Quiet, QuietAt
  <2>2. CountedFor(w, "none")
    BY <1>1, CountMoves DEF OutOfBudget, Stops
  <2> QED BY <1>a, <2>1, <2>2
<1>2. CASE FindEmpty(w)
  <2>1. Quiet
    BY <1>0, <1>2, ClaimNothingIsQuiet DEF FindEmpty
  <2>2. CountedFor(w, "none")
    BY <1>2, CountMoves DEF FindEmpty, Stops
  <2> QED BY <1>a, <2>1, <2>2
<1>3. ASSUME NEW k \in Keys, StartHandler(w, k) PROVE CountInv'
  <2>1. run'[w].counts = Counted(w, "claimed") /\ \A v \in Workers \ {w} : run'[v] = run[v]
    BY <1>0, <1>3 DEF StartHandler, Invocation
  <2>2. \A f \in Reported : run'[w].counts[f] = IF f = "claimed" THEN run[w].counts[f] + 1
                                                                 ELSE run[w].counts[f]
    BY <1>0, <2>1 DEF Counted, Invocation, Reported, Counters
  <2>3. CountedFor(w, "claimed")
    BY <2>1, <2>2 DEF CountedFor
  <2> QED BY <1>3, <2>3, ClaimCounts DEF StartHandler
<1>4. CASE RenewLease(w)
  <2>1. Quiet
    BY <1>4 DEF RenewLease, Heartbeat, Quiet, QuietAt
  <2> QED BY <1>4, <1>a, <2>1, CountMoves
<1>5. CASE HandlerReturns(w)
  <2>0. run[w].phase = "running" /\ run[w].lease \in Lease
    BY <1>5, HeldIsIssued DEF HandlerReturns
  <2>1. CASE Recover(w, TRUE, FALSE)
    BY <2>0, <2>1, RecoverCounts
  <2>2. CASE ReconcileExpired(run[w].lease, now) /\ NextClaim(w, "expired")
    <3>1. CountedFor(w, "expired") /\ "completed_late" \in Codes
      BY <2>2, CountMoves DEF Counters, Codes
    <3> QED BY <2>0, <2>2, <3>1, CloseCounts DEF ReconcileExpired
  <2>3. CASE Succeed(run[w].lease, now) /\ NextClaim(w, "succeeded")
    <3>1. CountedFor(w, "succeeded") /\ "none" \in Codes
      BY <2>3, CountMoves DEF Counters, Codes
    <3> QED BY <2>0, <2>3, <3>1, CloseCounts DEF Succeed, HoldsLive
  <2> QED BY <1>5, <2>1, <2>2, <2>3 DEF HandlerReturns
<1>6. CASE \E retryable \in BOOLEAN : HandlerThrows(w, retryable)
  BY <1>6, RecoverCounts DEF HandlerThrows
<1>7. CASE DeadlineFires(w)
  BY <1>7, RecoverCounts DEF DeadlineFires
<1> QED BY <1>1, <1>2, <1>3, <1>4, <1>5, <1>6, <1>7 DEF InvocationStep

LEMMA CountStep ==
    ASSUME FenceInv, CountInv, [RunnerNext]_runnerVars PROVE CountInv'
<1>1. CASE \E w \in Workers : InvocationStep(w)
  BY <1>1, InvocationCounts
<1>2. CASE /\ run' = run
           /\ attempts' = attempts
  BY <1>2 DEF CountInv, Made
<1>3. CASE \/ \E l \in strays : StrayRenews(l) \/ StrayEnds(l)
           \/ Schedule \/ Tick \/ UNCHANGED runnerVars
  BY <1>2, <1>3 DEF StrayRenews, StrayEnds, Schedule, Tick, runnerVars, vars, Heartbeat, Enqueue
<1> QED BY <1>1, <1>3 DEF RunnerNext

THEOREM CountInvariance == RunnerSpec => []CountInv
<1>1. RunnerInit => CountInv
  BY CountInit
<1>2. FenceInv /\ CountInv /\ [RunnerNext]_runnerVars => CountInv'
  BY CountStep
<1> QED BY <1>1, <1>2, FenceInvariance, PTL DEF RunnerSpec

-----------------------------------------------------------------------------
(* Every claim is under one counter, or open *)

\* An attempt made for w that is under evaluation, or whose lease expired.
Unsettled(attempt, w) ==
    /\ attempt.worker = w
    /\ attempt.status = "evaluating" \/ (attempt.status = "failed" /\ attempt.code = "lease_expired")

Unreported(w) == {try \in Keys \X Numbers : Unsettled(attempts[try[1]][try[2]], w)}

IsOpen(w) == run[w].lease # NoHold

OpenCount(w) == IF IsOpen(w) THEN 1 ELSE 0

\* The open claim is this invocation's, and while its attempt is under evaluation
\* so is its lease: nobody else can have got the job.
OpenHeld(w) ==
    LET l == run[w].lease
    IN  IsOpen(w) =>
          /\ l \in Lease
          /\ Unsettled(attempts[l.key][l.attempt], w)
          /\ attempts[l.key][l.attempt].status = "evaluating" => HoldsToken(l)

\* Of the attempts made for w none but the open claim's is under evaluation.
OneOpen(w) ==
    \A k \in Keys, m \in Numbers :
        attempts[k][m].worker = w /\ attempts[k][m].status = "evaluating" =>
            IsOpen(w) /\ run[w].lease.key = k /\ run[w].lease.attempt = m

Balanced(w) ==
    LET c == run[w].counts
    IN  /\ IsFiniteSet(Unreported(w))
        /\ Cardinality(Unreported(w)) = c["released"] + c["lost"] + OpenCount(w)
        /\ c["claimed"] = c["succeeded"] + c["failed"] + c["expired"]
                            + c["released"] + c["lost"] + OpenCount(w)

Books(w) ==
    /\ run[w].phase \in {"idle", "claiming"} => ~IsOpen(w)
    /\ OpenHeld(w)
    /\ OneOpen(w)
    /\ Balanced(w)

BooksInv == \A w \in Workers : Books(w)

\* Nothing the step does concerns an attempt of w, but for a lease of it that is swept.
QuietFor(w) ==
    \A k \in Keys, m \in Numbers :
        \/ QuietAt(k, m)
        \/ ~Unsettled(attempts[k][m], w) /\ ~Unsettled(attempts'[k][m], w)

LEMMA KeepsToken ==
    ASSUME NEW l \in Lease, TypeOK, HoldsToken(l), KeyStep(l.key),
           attempts'[l.key][l.attempt].status = "evaluating"
    PROVE  HoldsToken(l)'
<1>0. /\ l.key \in Keys /\ l.attempt \in Numbers
      /\ job[l.key] \in Job /\ attempts[l.key] \in AttemptTable
  BY TypesByKey DEF Lease, Numbers
<1>1. job[l.key].status = "leased" /\ job[l.key].attemptCount = l.attempt
  BY DEF HoldsToken
<1>2. CASE Untouched(l.key)
  BY <1>2 DEF Untouched, HoldsToken
<1>3. CASE Created(l.key) \/ Claimed(l.key)
  BY <1>1, <1>3 DEF Created, Claimed
<1>4. CASE Renewed(l.key)
  <2>1. PICK until \in Nat : job'[l.key] = [job[l.key] EXCEPT !.lease.until = until]
    BY <1>4 DEF Renewed
  <2>2. /\ job'[l.key].status = job[l.key].status
        /\ job'[l.key].attemptCount = job[l.key].attemptCount
        /\ job'[l.key].lease = [job[l.key].lease EXCEPT !.until = until]
    BY <1>0, <2>1 DEF Job
  <2>3. job[l.key].lease \in ActiveLease
    BY <1>0 DEF Job
  <2>4. /\ job'[l.key].lease.token = job[l.key].lease.token
        /\ job'[l.key].lease.owner = job[l.key].lease.owner
    BY <2>2, <2>3 DEF ActiveLease, NoLease
  <2> QED BY <2>2, <2>4 DEF HoldsToken
<1>5. ASSUME NEW s \in {"succeeded", "failed"}, NEW c, attempts'[l.key] = Close(l.key, s, c)
      PROVE  FALSE
  <2>1. attempts'[l.key][l.attempt].status = s
    BY <1>0, <1>1, <1>5 DEF Close, AttemptTable
  <2> QED BY <2>1
<1>6. CASE Completed(l.key)
  BY <1>5, <1>6 DEF Completed
<1>7. CASE Ended(l.key)
  BY <1>5, <1>7 DEF Ended
<1> QED BY <1>2, <1>3, <1>4, <1>6, <1>7 DEF KeyStep

\* What a quiet step leaves of an attempt.
LEMMA QuietIsUnsettled ==
    ASSUME NEW w, NEW k \in Keys, NEW m \in Numbers, QuietAt(k, m)
    PROVE  /\ Unsettled(attempts'[k][m], w) <=> Unsettled(attempts[k][m], w)
           /\ attempts'[k][m].status = "evaluating" => attempts'[k][m] = attempts[k][m]
<1>1. CASE attempts'[k][m] = attempts[k][m]
  BY <1>1
<1>2. CASE Expiring(attempts[k][m], attempts'[k][m])
  BY <1>2 DEF Expiring, Unsettled
<1> QED BY <1>1, <1>2 DEF QuietAt

\* The books of an invocation that does not move stay right, whatever others do.
LEMMA OthersBooks ==
    ASSUME TypeOK, NEW w \in Workers, Books(w), QuietFor(w), \A k \in Keys : KeyStep(k),
           run'[w].lease = run[w].lease, run'[w].counts = run[w].counts,
           run'[w].phase \in {"idle", "claiming"} => run[w].phase \in {"idle", "claiming"}
    PROVE  Books(w)'
<1>1. ASSUME NEW k \in Keys, NEW m \in Numbers
      PROVE  Unsettled(attempts'[k][m], w) <=> Unsettled(attempts[k][m], w)
  BY QuietIsUnsettled DEF QuietFor
<1>2. ASSUME NEW k \in Keys, NEW m \in Numbers,
             attempts'[k][m].worker = w, attempts'[k][m].status = "evaluating"
      PROVE  attempts'[k][m] = attempts[k][m]
  <2>1. Unsettled(attempts'[k][m], w)
    BY <1>2 DEF Unsettled
  <2> QED BY <1>2, <2>1, QuietIsUnsettled DEF QuietFor
<1>3. Unreported(w)' = Unreported(w)
  BY <1>1 DEF Unreported
<1>4. IsOpen(w)' <=> IsOpen(w)
  BY DEF IsOpen
<1>5. OpenHeld(w)'
  <2> SUFFICES ASSUME IsOpen(w)
               PROVE  /\ run[w].lease \in Lease
                      /\ Unsettled(attempts'[run[w].lease.key][run[w].lease.attempt], w)
                      /\ attempts'[run[w].lease.key][run[w].lease.attempt].status = "evaluating"
                           => HoldsToken(run[w].lease)'
    BY <1>4 DEF OpenHeld
  <2>1. PICK l \in Lease : l = run[w].lease
    BY DEF Books, OpenHeld
  <2>2. l.key \in Keys /\ l.attempt \in Numbers
    BY DEF Lease, Numbers
  <2>3. /\ Unsettled(attempts[l.key][l.attempt], w)
        /\ attempts[l.key][l.attempt].status = "evaluating" => HoldsToken(l)
    BY <2>1 DEF Books, OpenHeld
  <2>4. Unsettled(attempts'[l.key][l.attempt], w)
    BY <1>1, <2>2, <2>3
  <2>5. ASSUME attempts'[l.key][l.attempt].status = "evaluating" PROVE HoldsToken(l)'
    <3>1. attempts'[l.key][l.attempt] = attempts[l.key][l.attempt]
      BY <1>2, <2>2, <2>4, <2>5 DEF Unsettled
    <3>2. HoldsToken(l)
      BY <2>3, <2>5, <3>1
    <3> QED BY <2>2, <2>5, <3>2, KeepsToken
  <2>6. HoldsToken(l)' => HoldsToken(run[w].lease)'
    BY <2>1 DEF HoldsToken
  <2> QED BY <2>1, <2>4, <2>5, <2>6
<1>6. OneOpen(w)'
  BY <1>2, <1>4 DEF Books, OneOpen
<1>7. Balanced(w)'
  BY <1>3, <1>4 DEF Books, Balanced, OpenCount
<1> QED BY <1>4, <1>5, <1>6, <1>7 DEF Books

\* What the head of the loop makes of an invocation whose claim met its fate.
LEMMA FateMoves ==
    ASSUME FenceInv, NEW w \in Workers, NEW fate \in Counters,
           NextClaim(w, fate) \/ StopAfter(w, fate)
    PROVE  /\ run'[w].lease = NoHold
           /\ run'[w].counts = Counted(w, fate)
           /\ \A f \in Counters : /\ run[w].counts[f] \in Nat
                                  /\ run'[w].counts[f] = IF f = fate THEN run[w].counts[f] + 1
                                                                     ELSE run[w].counts[f]
           /\ \A v \in Workers \ {w} : run'[v] = run[v]
<1>1. run \in [Workers -> Invocation]
  BY DEF FenceInv, RunnerTypes
<1>2. run'[w].lease = NoHold /\ run'[w].counts = Counted(w, fate)
      /\ \A v \in Workers \ {w} : run'[v] = run[v]
  <2>1. CASE NextClaim(w, fate)
    BY <1>1, <2>1 DEF NextClaim, Invocation
  <2>2. CASE StopAfter(w, fate)
    BY <1>1, <2>2 DEF StopAfter, Invocation
  <2> QED BY <2>1, <2>2
<1> QED BY <1>1, <1>2 DEF Counted, Invocation

\* The claim met its fate: it is open no longer, and under one counter.
LEMMA FateBooks ==
    ASSUME FenceInv, NEW w \in Workers, Books(w), IsOpen(w), NEW fate \in Counters \ {"claimed"},
           NextClaim(w, fate) \/ StopAfter(w, fate),
           \A k \in Keys, m \in Numbers :
               ~(attempts'[k][m].worker = w /\ attempts'[k][m].status = "evaluating"),
           \/ fate \in {"released", "lost"} /\ Unreported(w)' = Unreported(w)
           \/ /\ fate \in {"succeeded", "failed", "expired"}
              /\ \E try \in Unreported(w) : Unreported(w)' = Unreported(w) \ {try}
    PROVE  Books(w)'
<1>1. /\ run'[w].lease = NoHold
      /\ \A f \in Counters : /\ run[w].counts[f] \in Nat
                             /\ run'[w].counts[f] = IF f = fate THEN run[w].counts[f] + 1
                                                                ELSE run[w].counts[f]
  BY FateMoves
<1>2. ~IsOpen(w)' /\ OpenCount(w) = 1 /\ OpenCount(w)' = 0
  BY <1>1 DEF IsOpen, OpenCount
<1>3. OpenHeld(w)' /\ OneOpen(w)'
  BY <1>2 DEF OpenHeld, OneOpen
<1>4. /\ IsFiniteSet(Unreported(w))
      /\ Cardinality(Unreported(w)) = run[w].counts["released"] + run[w].counts["lost"] + 1
      /\ run[w].counts["claimed"] =
           run[w].counts["succeeded"] + run[w].counts["failed"] + run[w].counts["expired"]
             + run[w].counts["released"] + run[w].counts["lost"] + 1
  BY <1>2 DEF Books, Balanced
<1>5. IsFiniteSet(Unreported(w)')
      /\ Cardinality(Unreported(w)') = run'[w].counts["released"] + run'[w].counts["lost"]
  <2>1. CASE fate \in {"released", "lost"} /\ Unreported(w)' = Unreported(w)
    BY <1>1, <1>4, <2>1 DEF Counters
  <2>2. CASE /\ fate \in {"succeeded", "failed", "expired"}
             /\ \E try \in Unreported(w) : Unreported(w)' = Unreported(w) \ {try}
    <3>1. PICK try \in Unreported(w) : Unreported(w)' = Unreported(w) \ {try}
      BY <2>2
    <3>2. IsFiniteSet(Unreported(w)') /\ Cardinality(Unreported(w)') = Cardinality(Unreported(w)) - 1
      BY <1>4, <3>1, FS_RemoveElement
    <3>3. /\ run'[w].counts["released"] = run[w].counts["released"]
          /\ run'[w].counts["lost"] = run[w].counts["lost"]
      BY <1>1, <2>2 DEF Counters
    <3>4. run[w].counts["released"] \in Nat /\ run[w].counts["lost"] \in Nat
      BY <1>1 DEF Counters
    <3> QED BY <1>4, <3>2, <3>3, <3>4
  <2> QED BY <2>1, <2>2
<1>6. run'[w].counts["claimed"] =
        run'[w].counts["succeeded"] + run'[w].counts["failed"] + run'[w].counts["expired"]
          + run'[w].counts["released"] + run'[w].counts["lost"]
  BY <1>1, <1>4 DEF Counters
<1>7. Balanced(w)'
  <2>1. /\ run'[w].counts["released"] + run'[w].counts["lost"] + 0
             = run'[w].counts["released"] + run'[w].counts["lost"]
        /\ run'[w].counts["claimed"] + 0 = run'[w].counts["claimed"]
    BY <1>1 DEF Counters
  <2>2. \A f \in Counters : run'[w].counts[f] \in Nat
    BY <1>1
  <2> QED BY <1>2, <1>5, <1>6, <2>1, <2>2 DEF Balanced, Counters
<1> QED BY <1>2, <1>3, <1>7 DEF Books

\* The lease was lost to a sweep, or ran out and is released by its holder.
LEMMA LapseBooks ==
    ASSUME FenceInv, NEW w \in Workers, Books(w), IsOpen(w), NEW fate \in {"released", "lost"},
           NextClaim(w, fate) \/ StopAfter(w, fate), Quiet,
           attempts'[run[w].lease.key][run[w].lease.attempt].status # "evaluating"
    PROVE  Books(w)'
<1>1. ASSUME NEW k \in Keys, NEW m \in Numbers,
             attempts'[k][m].worker = w, attempts'[k][m].status = "evaluating"
      PROVE  FALSE
  <2>1. attempts'[k][m] = attempts[k][m]
    BY <1>1, QuietIsUnsettled DEF Quiet
  <2>2. run[w].lease.key = k /\ run[w].lease.attempt = m
    BY <1>1, <2>1 DEF Books, OneOpen
  <2> QED BY <1>1, <2>2
<1>2. Unreported(w)' = Unreported(w)
  BY QuietIsUnsettled DEF Quiet, Unreported
<1>3. fate \in Counters \ {"claimed"}
  BY DEF Counters
<1> QED BY <1>1, <1>2, <1>3, FateBooks

\* The holder closes its attempt and counts what it closed it as; to everyone
\* else the step is quiet.
LEMMA CloseBooks ==
    ASSUME FenceInv, NEW w \in Workers, run[w].phase = "running", Books(w), IsOpen(w),
           NEW l \in Lease, l = run[w].lease, HoldsToken(l), HasActiveAttempt(l.key),
           NEW s, NEW c \in Codes,
           attempts' = [attempts EXCEPT ![l.key] = Close(l.key, s, c)],
           NEW fate, NextClaim(w, fate) \/ StopAfter(w, fate),
           \/ s = "failed" /\ c = "lease_expired" /\ fate = "released"
           \/ s = "succeeded" /\ c = "none" /\ fate = "succeeded"
           \/ s = "failed" /\ c \in {"transient", "final"} /\ fate = "failed"
           \/ s = "failed" /\ c = "completed_late" /\ fate = "expired"
    PROVE  Books(w)' /\ \A v \in Workers \ {w} : QuietFor(v)
<1>1. /\ l.key \in Keys /\ l.attempt \in Numbers
      /\ attempts[l.key][l.attempt] \in Attempt
      /\ attempts[l.key][l.attempt].status = "evaluating"
      /\ attempts[l.key][l.attempt].worker = w
      /\ attempts'[l.key][l.attempt] = [worker |-> w, status |-> s, code |-> c]
      /\ \A k \in Keys, m \in Numbers :
           k # l.key \/ m # l.attempt => attempts'[k][m] = attempts[k][m]
  BY Closing
<1>2. ASSUME NEW v \in Workers \ {w} PROVE QuietFor(v)
  BY <1>1 DEF QuietFor, QuietAt, Unsettled
<1>3. ASSUME NEW k \in Keys, NEW m \in Numbers,
             attempts'[k][m].worker = w, attempts'[k][m].status = "evaluating"
      PROVE  FALSE
  <2>1. k # l.key \/ m # l.attempt
    BY <1>1, <1>3
  <2>2. attempts'[k][m] = attempts[k][m]
    BY <1>1, <2>1
  <2> QED BY <1>3, <2>1, <2>2 DEF Books, OneOpen
<1>a. \A k \in Keys, m \in Numbers :
        ~(attempts'[k][m].worker = w /\ attempts'[k][m].status = "evaluating")
  BY <1>3
<1>4. CASE s = "failed" /\ c = "lease_expired" /\ fate = "released"
  <2>1. ASSUME NEW k \in Keys, NEW m \in Numbers
        PROVE  Unsettled(attempts'[k][m], w) <=> Unsettled(attempts[k][m], w)
    <3>1. CASE k = l.key /\ m = l.attempt
      BY <1>1, <1>4, <3>1 DEF Unsettled
    <3>2. CASE k # l.key \/ m # l.attempt
      BY <1>1, <3>2
    <3> QED BY <3>1, <3>2
  <2>2. Unreported(w)' = Unreported(w)
    BY <2>1 DEF Unreported
  <2>3. fate \in Counters \ {"claimed"} /\ fate \in {"released", "lost"}
    BY <1>4 DEF Counters
  <2>4. Books(w)'
    BY <1>a, <2>2, <2>3, FateBooks
  <2> QED BY <1>2, <2>4
<1>5. CASE ~(s = "failed" /\ c = "lease_expired" /\ fate = "released")
  <2>1. Unsettled(attempts[l.key][l.attempt], w) /\ ~Unsettled(attempts'[l.key][l.attempt], w)
    BY <1>1, <1>5 DEF Unsettled
  <2>2. <<l.key, l.attempt>> \in Unreported(w)
    BY <1>1, <2>1 DEF Unreported
  <2>3. Unreported(w)' = Unreported(w) \ {<<l.key, l.attempt>>}
    <3>1. ASSUME NEW k \in Keys, NEW m \in Numbers
          PROVE  Unsettled(attempts'[k][m], w) <=>
                   Unsettled(attempts[k][m], w) /\ <<k, m>> # <<l.key, l.attempt>>
      <4>1. CASE k = l.key /\ m = l.attempt
        BY <2>1, <4>1
      <4>2. CASE k # l.key \/ m # l.attempt
        BY <1>1, <4>2
      <4> QED BY <4>1, <4>2
    <3> QED BY <3>1 DEF Unreported
  <2>4. fate \in Counters \ {"claimed"} /\ fate \in {"succeeded", "failed", "expired"}
    BY <1>5 DEF Counters
  <2>5. \E try \in Unreported(w) : Unreported(w)' = Unreported(w) \ {try}
    BY <2>2, <2>3
  <2>6. Books(w)'
    BY <1>a, <2>4, <2>5, FateBooks
  <2> QED BY <1>2, <2>6
<1> QED BY <1>2, <1>4, <1>5

\* A claim opens the one claim of the invocation; to everyone else it is quiet.
LEMMA StartBooks ==
    ASSUME FenceInv, NEW w \in Workers, Books(w), NEW k0 \in Keys, StartHandler(w, k0)
    PROVE  /\ Books(w)'
           /\ \A v \in Workers \ {w} : QuietFor(v) /\ run'[v] = run[v]
<1> DEFINE m0 == job[k0].attemptCount + 1
           lease == [key |-> k0, attempt |-> m0, owner |-> w, token |-> nextToken]
<1>0. /\ now \in Nat /\ IInv /\ run \in [Workers -> Invocation]
      /\ nextToken \in Nat /\ ClaimJob(w, k0, now) /\ run[w].phase = "claiming"
  BY NowIsInstant DEF FenceInv, RunnerTypes, QueueInv, IInv, TypeOK, StartHandler
<1>1. /\ m0 \in Numbers /\ attempts[k0][m0] = NoAttempt
      /\ attempts'[k0][m0] = [worker |-> w, status |-> "evaluating", code |-> "none"]
      /\ QuietBut(k0, m0)
  BY <1>0, ClaimAdds
<1>2. /\ job'[k0].status = "leased" /\ job'[k0].attemptCount = m0
      /\ job'[k0].lease = [owner |-> w, token |-> nextToken, until |-> now + LeaseMs]
  BY <1>0, ClaimedIsDue
<1>3. run' = [run EXCEPT ![w] = [run[w] EXCEPT !.phase = "running", !.lease = lease,
                                               !.until = now + LeaseMs,
                                               !.counts = Counted(w, "claimed")]]
  BY <1>2 DEF StartHandler
<1>4. /\ run'[w].phase = "running" /\ run'[w].lease = lease
      /\ run'[w].counts = Counted(w, "claimed")
  <2> HIDE DEF lease
  <2> QED BY <1>0, <1>3 DEF Invocation
<1>5. /\ lease.key = k0 /\ lease.attempt = m0 /\ lease.owner = w /\ lease.token = nextToken
      /\ lease \in Lease /\ lease # NoHold
  BY <1>0, <1>1 DEF Lease, NoHold, Numbers
<1> HIDE DEF lease, m0
<1>6. ~Unsettled(attempts[k0][m0], w) /\ Unsettled(attempts'[k0][m0], w)
  BY <1>1 DEF Unsettled, NoAttempt
<1>7. ASSUME NEW k \in Keys, NEW m \in Numbers, k # k0 \/ m # m0
      PROVE  /\ QuietAt(k, m)
             /\ Unsettled(attempts'[k][m], w) <=> Unsettled(attempts[k][m], w)
             /\ ~(attempts'[k][m].worker = w /\ attempts'[k][m].status = "evaluating")
  <2>1. QuietAt(k, m)
    BY <1>1, <1>7 DEF QuietBut
  <2>2. ASSUME attempts'[k][m].worker = w, attempts'[k][m].status = "evaluating" PROVE FALSE
    <3>1. attempts'[k][m] = attempts[k][m]
      BY <2>1, <2>2, QuietIsUnsettled
    <3> QED BY <1>0, <2>2, <3>1 DEF Books, OneOpen
  <2> QED BY <2>1, <2>2, QuietIsUnsettled
<1>8. ASSUME NEW v \in Workers \ {w} PROVE QuietFor(v) /\ run'[v] = run[v]
  <2>1. ~Unsettled(attempts[k0][m0], v) /\ ~Unsettled(attempts'[k0][m0], v)
    BY <1>1 DEF Unsettled, NoAttempt
  <2>2. QuietFor(v)
    BY <1>7, <2>1 DEF QuietFor
  <2> QED BY <1>0, <1>3, <2>2
<1>9. Unreported(w)' = Unreported(w) \cup {<<k0, m0>>} /\ <<k0, m0>> \notin Unreported(w)
  <2>1. ASSUME NEW k \in Keys, NEW m \in Numbers
        PROVE  Unsettled(attempts'[k][m], w) <=>
                 Unsettled(attempts[k][m], w) \/ <<k, m>> = <<k0, m0>>
    <3>1. CASE k = k0 /\ m = m0
      BY <1>6, <3>1
    <3>2. CASE k # k0 \/ m # m0
      BY <1>7, <3>2
    <3> QED BY <3>1, <3>2
  <2> QED BY <1>1, <1>6, <2>1 DEF Unreported
<1>10. IsOpen(w)' /\ ~IsOpen(w) /\ OpenCount(w)' = 1 /\ OpenCount(w) = 0
  BY <1>0, <1>4, <1>5 DEF IsOpen, OpenCount, Books
<1>12. OpenHeld(w)'
  <2>1. HoldsToken(run[w].lease)'
    BY <1>2, <1>4, <1>5 DEF HoldsToken
  <2> QED BY <1>4, <1>5, <1>6, <2>1 DEF OpenHeld
<1>13. OneOpen(w)'
  BY <1>4, <1>5, <1>7, <1>10 DEF OneOpen
<1>14. Balanced(w)'
  <2>1. \A f \in Counters : /\ run[w].counts[f] \in Nat
                            /\ run'[w].counts[f] = IF f = "claimed" THEN run[w].counts[f] + 1
                                                                    ELSE run[w].counts[f]
    BY <1>0, <1>4 DEF Counted, Invocation
  <2>2. /\ IsFiniteSet(Unreported(w))
        /\ Cardinality(Unreported(w)) = run[w].counts["released"] + run[w].counts["lost"] + 0
        /\ run[w].counts["claimed"] =
             run[w].counts["succeeded"] + run[w].counts["failed"] + run[w].counts["expired"]
               + run[w].counts["released"] + run[w].counts["lost"] + 0
    BY <1>10 DEF Books, Balanced
  <2>3. IsFiniteSet(Unreported(w)') /\ Cardinality(Unreported(w)') = Cardinality(Unreported(w)) + 1
    BY <1>9, <2>2, FS_AddElement
  <2>4. /\ "released" \in Counters /\ "lost" \in Counters /\ "claimed" \in Counters
        /\ "succeeded" \in Counters /\ "failed" \in Counters /\ "expired" \in Counters
    BY DEF Counters
  <2>5. Cardinality(Unreported(w)') = run'[w].counts["released"] + run'[w].counts["lost"] + 1
    BY <2>1, <2>2, <2>3, <2>4
  <2>6. run'[w].counts["claimed"] =
          run'[w].counts["succeeded"] + run'[w].counts["failed"] + run'[w].counts["expired"]
            + run'[w].counts["released"] + run'[w].counts["lost"] + 1
    BY <2>1, <2>2, <2>4
  <2> QED BY <1>10, <2>3, <2>5, <2>6 DEF Balanced
<1> QED BY <1>4, <1>8, <1>12, <1>13, <1>14 DEF Books

\* The catch block: the lease is lost, released, left as a fence, or failed.
LEMMA RecoverBooks ==
    ASSUME FenceInv, NEW w \in Workers, run[w].phase = "running", Books(w), IsOpen(w),
           NEW retryable \in BOOLEAN, NEW fired \in BOOLEAN, Recover(w, retryable, fired)
    PROVE  /\ Books(w)' \/ (/\ run'[w].lease = run[w].lease /\ run'[w].counts = run[w].counts
                            /\ run'[w].phase = "stopped" /\ UNCHANGED vars)
           /\ \A v \in Workers \ {w} : QuietFor(v) /\ run'[v] = run[v]
<1>0. run[w].lease \in Lease /\ run[w].lease.key \in Keys /\ run \in [Workers -> Invocation]
  BY HeldIsIssued DEF FenceInv, RunnerTypes
<1>1. ASSUME UNCHANGED vars PROVE Quiet /\ \A v \in Workers : QuietFor(v)
  BY <1>1 DEF vars, Quiet, QuietFor, QuietAt
<1>2. CASE /\ ~HoldsToken(run[w].lease) /\ UNCHANGED vars
           /\ StopAfter(w, "lost") \/ NextClaim(w, "lost")
  <2>1. attempts' = attempts
    BY <1>2 DEF vars
  <2>2. attempts'[run[w].lease.key][run[w].lease.attempt].status # "evaluating"
    BY <1>2, <2>1 DEF Books, OpenHeld
  <2>3. Books(w)'
    BY <1>1, <1>2, <2>2, LapseBooks
  <2>4. \A v \in Workers \ {w} : run'[v] = run[v]
    BY <1>2, FateMoves DEF Counters
  <2> QED BY <1>1, <1>2, <2>3, <2>4
<1>3. CASE /\ HoldsToken(run[w].lease) /\ Release(run[w].lease, "lease_expired", now)
           /\ StopAfter(w, "released") \/ NextClaim(w, "released")
  <2>1. "lease_expired" \in Codes
    BY DEF Codes
  <2>2. Books(w)' /\ \A v \in Workers \ {w} : QuietFor(v)
    BY <1>0, <1>3, <2>1, CloseBooks DEF Release
  <2>3. \A v \in Workers \ {w} : run'[v] = run[v]
    BY <1>3, FateMoves DEF Counters
  <2> QED BY <2>2, <2>3
<1>4. CASE UNCHANGED vars /\ StopFor(w, "DEADLINE_REACHED")
  <2>1. /\ run'[w].lease = run[w].lease /\ run'[w].counts = run[w].counts
        /\ run'[w].phase = "stopped" /\ \A v \in Workers \ {w} : run'[v] = run[v]
    BY <1>0, <1>4 DEF StopFor, Invocation
  <2> QED BY <1>1, <1>4, <2>1
<1>5. CASE /\ HoldsToken(run[w].lease) /\ Fail(run[w].lease, retryable, now)
           /\ NextClaim(w, "failed")
  <2>1. "transient" \in Codes /\ "final" \in Codes
    BY DEF Codes
  <2>2. \E c \in {"transient", "final"} :
          attempts' = [attempts EXCEPT ![run[w].lease.key] = Close(run[w].lease.key, "failed", c)]
    BY <1>5 DEF Fail
  <2>3. Books(w)' /\ \A v \in Workers \ {w} : QuietFor(v)
    BY <1>0, <1>5, <2>1, <2>2, CloseBooks DEF Fail
  <2>4. \A v \in Workers \ {w} : run'[v] = run[v]
    BY <1>5, FateMoves DEF Counters
  <2> QED BY <2>3, <2>4
<1> QED BY <1>2, <1>3, <1>4, <1>5 DEF Recover

LEMMA InvocationBooks ==
    ASSUME FenceInv, BooksInv, \A k \in Keys : KeyStep(k), NEW w \in Workers, InvocationStep(w)
    PROVE  BooksInv'
<1>0. /\ TypeOK /\ IInv /\ now \in Nat /\ run \in [Workers -> Invocation] /\ Books(w)
      /\ \A v \in Workers : Books(v)
  BY NowIsInstant DEF FenceInv, QueueInv, IInv, RunnerTypes, BooksInv
<1>a. ASSUME NEW v \in Workers, QuietFor(v), run'[v] = run[v] PROVE Books(v)'
  BY <1>0, <1>a, OthersBooks
<1>b. ASSUME Books(w)', \A v \in Workers \ {w} : QuietFor(v) /\ run'[v] = run[v]
      PROVE  BooksInv'
  BY <1>a, <1>b DEF BooksInv
\* The claim stays as it is, and so does every attempt but for a sweep.
<1>c. ASSUME Quiet, run'[w].lease = run[w].lease, run'[w].counts = run[w].counts,
             run'[w].phase \in {"idle", "claiming"} => run[w].phase \in {"idle", "claiming"},
             \A v \in Workers \ {w} : run'[v] = run[v]
      PROVE  BooksInv'
  <2>1. \A v \in Workers : QuietFor(v)
    BY <1>c DEF Quiet, QuietFor
  <2>2. Books(w)'
    BY <1>0, <1>c, <2>1, OthersBooks
  <2> QED BY <1>b, <1>c, <2>1, <2>2
<1>d. ASSUME run[w].phase = "running"
      PROVE  IsOpen(w) /\ run[w].lease \in Lease /\ run[w].lease.key \in Keys
  BY <1>d, HeldIsIssued DEF IsOpen, NoHold, Lease
<1>e. ASSUME run[w].phase = "running",
             NEW retryable \in BOOLEAN, NEW fired \in BOOLEAN, Recover(w, retryable, fired)
      PROVE  BooksInv'
  <2>1. /\ Books(w)' \/ (/\ run'[w].lease = run[w].lease /\ run'[w].counts = run[w].counts
                         /\ run'[w].phase = "stopped" /\ UNCHANGED vars)
        /\ \A v \in Workers \ {w} : QuietFor(v) /\ run'[v] = run[v]
    BY <1>0, <1>d, <1>e, RecoverBooks
  <2>2. CASE /\ run'[w].lease = run[w].lease /\ run'[w].counts = run[w].counts
             /\ run'[w].phase = "stopped" /\ UNCHANGED vars
    <3>1. Quiet
      BY <2>2 DEF vars, Quiet, QuietAt
    <3> QED BY <1>c, <2>1, <2>2, <3>1
  <2> QED BY <1>b, <2>1, <2>2
<1>1. CASE StartInvocation(w) \/ OutOfBudget(w) \/ Terminate(w)
  <2>1. Quiet
    BY <1>1 DEF StartInvocation, OutOfBudget, Terminate, vars, Quiet, QuietAt
  <2>2. /\ run'[w].lease = run[w].lease /\ run'[w].counts = run[w].counts
        /\ run'[w].phase \in {"idle", "claiming"} => run[w].phase \in {"idle", "claiming"}
        /\ \A v \in Workers \ {w} : run'[v] = run[v]
    <3>1. CASE StartInvocation(w)
      <4> DEFINE i == [run[w] EXCEPT !.phase = "claiming", !.deadline = now + Budget]
      <4>1. run' = [run EXCEPT ![w] = i] /\ run[w].phase = "idle"
        BY <3>1 DEF StartInvocation
      <4>2. run'[w] = i /\ \A v \in Workers \ {w} : run'[v] = run[v]
        BY <1>0, <4>1
      <4>3. i.lease = run[w].lease /\ i.counts = run[w].counts
        BY <1>0 DEF Invocation
      <4> QED BY <4>1, <4>2, <4>3
    <3>2. CASE OutOfBudget(w)
      BY <1>0, <3>2 DEF OutOfBudget, StopFor, Invocation
    <3>3. CASE Terminate(w)
      BY <1>0, <3>3 DEF Terminate, Invocation
    <3> QED BY <1>1, <3>1, <3>2, <3>3
  <2> QED BY <1>c, <2>1, <2>2
<1>2. CASE FindEmpty(w)
  <2>1. Quiet
    BY <1>0, <1>2, ClaimNothingIsQuiet DEF FindEmpty
  <2>2. /\ run'[w].lease = run[w].lease /\ run'[w].counts = run[w].counts
        /\ run'[w].phase = "stopped" /\ \A v \in Workers \ {w} : run'[v] = run[v]
    BY <1>0, <1>2 DEF FindEmpty, StopFor, Invocation
  <2> QED BY <1>c, <2>1, <2>2
<1>3. ASSUME NEW k \in Keys, StartHandler(w, k) PROVE BooksInv'
  <2>1. Books(w)' /\ \A v \in Workers \ {w} : QuietFor(v) /\ run'[v] = run[v]
    BY <1>0, <1>3, StartBooks
  <2> QED BY <1>b, <2>1
<1>4. CASE RenewLease(w)
  <2>1. Quiet
    BY <1>4 DEF RenewLease, Heartbeat, Quiet, QuietAt
  <2>2. /\ run'[w].lease = run[w].lease /\ run'[w].counts = run[w].counts
        /\ run'[w].phase = run[w].phase /\ \A v \in Workers \ {w} : run'[v] = run[v]
    BY <1>0, <1>4 DEF RenewLease, Invocation
  <2> QED BY <1>c, <2>1, <2>2
<1>5. CASE HandlerReturns(w)
  <2>0. run[w].phase = "running" /\ run[w].lease \in Lease /\ IsOpen(w)
    BY <1>5, <1>d DEF HandlerReturns
  <2>1. CASE Recover(w, TRUE, FALSE)
    BY <2>0, <2>1, <1>e
  <2>2. CASE ReconcileExpired(run[w].lease, now) /\ NextClaim(w, "expired")
    <3>1. "completed_late" \in Codes
      BY DEF Codes
    <3>2. Books(w)' /\ \A v \in Workers \ {w} : QuietFor(v)
      BY <1>0, <2>0, <2>2, <3>1, CloseBooks DEF ReconcileExpired
    <3>3. \A v \in Workers \ {w} : run'[v] = run[v]
      BY <2>2, FateMoves DEF Counters
    <3> QED BY <1>b, <3>2, <3>3
  <2>3. CASE Succeed(run[w].lease, now) /\ NextClaim(w, "succeeded")
    <3>1. "none" \in Codes
      BY DEF Codes
    <3>2. Books(w)' /\ \A v \in Workers \ {w} : QuietFor(v)
      BY <1>0, <2>0, <2>3, <3>1, CloseBooks DEF Succeed, HoldsLive
    <3>3. \A v \in Workers \ {w} : run'[v] = run[v]
      BY <2>3, FateMoves DEF Counters
    <3> QED BY <1>b, <3>2, <3>3
  <2> QED BY <1>5, <2>1, <2>2, <2>3 DEF HandlerReturns
<1>6. CASE \E retryable \in BOOLEAN : HandlerThrows(w, retryable)
  BY <1>6, <1>e DEF HandlerThrows
<1>7. CASE DeadlineFires(w)
  BY <1>7, <1>e DEF DeadlineFires
<1> QED BY <1>1, <1>2, <1>3, <1>4, <1>5, <1>6, <1>7 DEF InvocationStep

LEMMA BooksStep ==
    ASSUME FenceInv, BooksInv, [RunnerNext]_runnerVars PROVE BooksInv'
<1>0. TypeOK /\ IInv
  BY DEF FenceInv, QueueInv, IInv
<1>1. \A k \in Keys : KeyStep(k)
  <2>1. CASE Next
    BY <1>0, <2>1, QueueStep DEF StepOK
  <2>2. CASE UNCHANGED vars
    BY <2>2 DEF vars, KeyStep, Untouched
  <2> QED BY <2>1, <2>2, RunnerIsQueueStep
<1>2. CASE \E w \in Workers : InvocationStep(w)
  BY <1>1, <1>2, InvocationBooks
<1>3. ASSUME run' = run, attempts' = attempts, NEW v \in Workers PROVE Books(v)'
  <2>1. QuietFor(v)
    BY <1>3 DEF QuietFor, QuietAt
  <2>2. Books(v)
    BY DEF BooksInv
  <2> QED BY <1>0, <1>1, <1>3, <2>1, <2>2, OthersBooks
<1>4. CASE \/ \E l \in strays : StrayRenews(l) \/ StrayEnds(l)
           \/ Schedule \/ Tick \/ UNCHANGED runnerVars
  <2>1. run' = run /\ attempts' = attempts
    BY <1>4 DEF StrayRenews, StrayEnds, Schedule, Tick, runnerVars, vars, Heartbeat, Enqueue
  <2> QED BY <1>3, <2>1 DEF BooksInv
<1> QED BY <1>2, <1>4 DEF RunnerNext

LEMMA BooksInit == ASSUME RunnerInit PROVE BooksInv
<1> SUFFICES ASSUME NEW w \in Workers PROVE Books(w)
  BY DEF BooksInv
<1>1. \A k \in Keys, m \in Numbers : attempts[k][m].status = "none"
  BY DEF RunnerInit, Init, NoAttempt, Numbers
<1>2. run[w].lease = NoHold /\ run[w].counts = [c \in Counters |-> 0]
  BY DEF RunnerInit, IdleInvocation
<1>3. ~IsOpen(w) /\ OpenCount(w) = 0
  BY <1>2 DEF IsOpen, OpenCount
<1>4. Unreported(w) = {}
  BY <1>1 DEF Unreported, Unsettled
<1>5. Balanced(w)
  BY <1>2, <1>3, <1>4, FS_EmptySet DEF Balanced, Counters
<1> QED BY <1>1, <1>3, <1>5 DEF Books, OpenHeld, OneOpen

\* Every claim of an invocation is under one counter of its report or open, and
\* the attempts under evaluation or ended by an expired lease are as many as it
\* counted released, lost or still holds open.
THEOREM BooksInvariance == RunnerSpec => []BooksInv
<1>1. RunnerInit => BooksInv
  BY BooksInit
<1>2. FenceInv /\ BooksInv /\ [RunnerNext]_runnerVars => BooksInv'
  BY BooksStep
<1> QED BY <1>1, <1>2, FenceInvariance, PTL DEF RunnerSpec

\* Set aside the open claim: what is left of the unreported attempts expired.
LEMMA ExpiredAreCounted ==
    ASSUME NEW w \in Workers, Books(w), FenceInv
    PROVE  /\ Cardinality(OpenClaim(w)) = OpenCount(w)
           /\ Cardinality(Made(w, {"failed"}, {"lease_expired"}) \ OpenClaim(w))
                = run[w].counts["released"] + run[w].counts["lost"]
<1>1. Made(w, {"failed"}, {"lease_expired"}) \ OpenClaim(w) = Unreported(w) \ OpenClaim(w)
  <2>1. ASSUME NEW k \in Keys, NEW m \in Numbers, <<k, m>> \notin OpenClaim(w)
        PROVE  ~(attempts[k][m].worker = w /\ attempts[k][m].status = "evaluating")
    <3>1. CASE IsOpen(w)
      <4>1. OpenClaim(w) = {<<run[w].lease.key, run[w].lease.attempt>>}
        BY <3>1 DEF IsOpen, OpenClaim
      <4> QED BY <2>1, <4>1 DEF Books, OneOpen
    <3>2. CASE ~IsOpen(w)
      BY <3>2 DEF Books, OneOpen
    <3> QED BY <3>1, <3>2
  <2>2. ASSUME NEW k \in Keys, NEW m \in Numbers, <<k, m>> \notin OpenClaim(w)
        PROVE  <<k, m>> \in Made(w, {"failed"}, {"lease_expired"}) <=> <<k, m>> \in Unreported(w)
    BY <2>1, <2>2 DEF Made, Unreported, Unsettled, Numbers
  <2>3. /\ Made(w, {"failed"}, {"lease_expired"}) \subseteq Keys \X Numbers
        /\ Unreported(w) \subseteq Keys \X Numbers
    BY DEF Made, Unreported, Numbers
  <2> QED BY <2>2, <2>3
<1>2. /\ IsFiniteSet(Unreported(w))
      /\ Cardinality(Unreported(w)) = run[w].counts["released"] + run[w].counts["lost"] + OpenCount(w)
      /\ run[w].counts["released"] \in Nat /\ run[w].counts["lost"] \in Nat
  BY DEF Books, Balanced, FenceInv, RunnerTypes, Invocation, Counters
<1>3. CASE IsOpen(w)
  <2>1. PICK try : try = <<run[w].lease.key, run[w].lease.attempt>>
    OBVIOUS
  <2>2. OpenClaim(w) = {try} /\ OpenCount(w) = 1
    BY <1>3, <2>1 DEF IsOpen, OpenClaim, OpenCount
  <2>3. run[w].lease.key \in Keys /\ run[w].lease.attempt \in Numbers
    BY <1>3 DEF Books, OpenHeld, Lease, Numbers
  <2>4. try \in Unreported(w)
    BY <1>3, <2>1, <2>3 DEF Books, OpenHeld, Unreported
  <2>5. Cardinality(Unreported(w) \ {try}) = Cardinality(Unreported(w)) - 1
    BY <1>2, <2>4, FS_RemoveElement
  <2>6. Cardinality({try}) = 1
    BY FS_Singleton
  <2>7. Cardinality(Unreported(w) \ OpenClaim(w)) = run[w].counts["released"] + run[w].counts["lost"]
    BY <1>2, <2>2, <2>5
  <2> QED BY <1>1, <2>2, <2>6, <2>7
<1>4. CASE ~IsOpen(w)
  <2>1. OpenClaim(w) = {} /\ OpenCount(w) = 0
    BY <1>4 DEF IsOpen, OpenClaim, OpenCount
  <2>2. Unreported(w) \ {} = Unreported(w)
    OBVIOUS
  <2>3. Cardinality({}) = 0
    BY FS_EmptySet
  <2> QED BY <1>1, <1>2, <2>1, <2>2, <2>3
<1> QED BY <1>3, <1>4

\* An invocation's report is the queue's record of the attempts in its name,
\* whether it was stopped, terminated or robbed of a lease on the way: successes,
\* failures and late completions one for one, every expired lease once under
\* released or lost, and no claim left out but the one still open.
THEOREM ReportMatchesQueueHolds == RunnerSpec => []ReportMatchesQueue
<1>1. FenceInv /\ CountInv /\ BooksInv => ReportMatchesQueue
  <2>1. /\ StatusesOf["claimed"] = {"evaluating", "succeeded", "failed"}
        /\ StatusesOf["succeeded"] = {"succeeded"}
        /\ StatusesOf["failed"] = {"failed"} /\ StatusesOf["expired"] = {"failed"}
        /\ CodesOf["claimed"] = Codes /\ CodesOf["succeeded"] = Codes
        /\ CodesOf["failed"] = {"transient", "final"} /\ CodesOf["expired"] = {"completed_late"}
        /\ "claimed" \in Reported /\ "succeeded" \in Reported
        /\ "failed" \in Reported /\ "expired" \in Reported
    BY DEF StatusesOf, CodesOf, Reported
  <2>2. ASSUME FenceInv, CountInv, BooksInv, NEW w \in Workers
        PROVE  /\ Cardinality(Made(w, {"succeeded"}, Codes)) = run[w].counts["succeeded"]
               /\ Cardinality(Made(w, {"failed"}, {"transient", "final"})) = run[w].counts["failed"]
               /\ Cardinality(Made(w, {"failed"}, {"completed_late"})) = run[w].counts["expired"]
               /\ Cardinality(Made(w, {"failed"}, {"lease_expired"}) \ OpenClaim(w))
                    = run[w].counts["released"] + run[w].counts["lost"]
               /\ Cardinality(Made(w, {"evaluating", "succeeded", "failed"}, Codes))
                    = run[w].counts["claimed"]
               /\ run[w].counts["claimed"] =
                    run[w].counts["succeeded"] + run[w].counts["failed"] + run[w].counts["expired"]
                      + run[w].counts["released"] + run[w].counts["lost"]
                      + Cardinality(OpenClaim(w))
    <3>1. \A fate \in Reported :
            Cardinality(Made(w, StatusesOf[fate], CodesOf[fate])) = run[w].counts[fate]
      BY <2>2 DEF CountInv
    <3>2. Books(w)
      BY <2>2 DEF BooksInv
    <3>3. /\ Cardinality(OpenClaim(w)) = OpenCount(w)
          /\ Cardinality(Made(w, {"failed"}, {"lease_expired"}) \ OpenClaim(w))
               = run[w].counts["released"] + run[w].counts["lost"]
      BY <2>2, <3>2, ExpiredAreCounted
    <3>4. run[w].counts["claimed"] =
            run[w].counts["succeeded"] + run[w].counts["failed"] + run[w].counts["expired"]
              + run[w].counts["released"] + run[w].counts["lost"] + Cardinality(OpenClaim(w))
      BY <3>2, <3>3 DEF Books, Balanced
    <3>5. /\ Cardinality(Made(w, {"succeeded"}, Codes)) = run[w].counts["succeeded"]
          /\ Cardinality(Made(w, {"failed"}, {"transient", "final"})) = run[w].counts["failed"]
          /\ Cardinality(Made(w, {"failed"}, {"completed_late"})) = run[w].counts["expired"]
          /\ Cardinality(Made(w, {"evaluating", "succeeded", "failed"}, Codes))
               = run[w].counts["claimed"]
      BY <2>1, <3>1
    <3> QED BY <3>3, <3>4, <3>5
  <2> QED BY <2>2 DEF ReportMatchesQueue
<1> QED BY <1>1, FenceInvariance, CountInvariance, BooksInvariance, PTL

-----------------------------------------------------------------------------
(* Released by its holder, or lost to a sweep *)

Rises(w, fate) == run[w].counts[fate] < run'[w].counts[fate]

SweptFrom(w) == [worker |-> w, status |-> "failed", code |-> "lease_expired"]

Told(w) ==
    LET l == run[w].lease
    IN  /\ Rises(w, "released") => /\ attempts[l.key][l.attempt].status = "evaluating"
                                   /\ attempts'[l.key][l.attempt] = SweptFrom(w)
        /\ Rises(w, "lost") => /\ attempts[l.key][l.attempt] = SweptFrom(w)
                               /\ attempts' = attempts

\* An invocation tells nothing while neither counter rises.
LEMMA NothingTold ==
    ASSUME FenceInv, NEW w \in Workers,
           run'[w].counts["released"] = run[w].counts["released"],
           run'[w].counts["lost"] = run[w].counts["lost"]
    PROVE  Told(w)
<1>1. run[w].counts["released"] \in Nat /\ run[w].counts["lost"] \in Nat
  BY DEF FenceInv, RunnerTypes, Invocation, Counters
<1> QED BY <1>1 DEF Told, Rises

LEMMA ReleaseSweeps ==
    ASSUME FenceInv, NEW w \in Workers, run[w].phase = "running",
           NEW l \in Lease, l = run[w].lease, HoldsToken(l), HasActiveAttempt(l.key),
           attempts' = [attempts EXCEPT ![l.key] = Close(l.key, "failed", "lease_expired")]
    PROVE  /\ attempts[l.key][l.attempt].status = "evaluating"
           /\ attempts'[l.key][l.attempt] = SweptFrom(w)
<1>1. /\ TypeOK /\ l.key \in Keys /\ job[l.key] \in Job /\ attempts[l.key] \in AttemptTable
      /\ attempts \in [Keys -> AttemptTable] /\ JobInv(l.key) /\ l.owner = w
  BY HeldIsIssued, TypesByKey DEF FenceInv, QueueInv, IInv, TypeOK, AttemptTable, Numbers, Lease
<1>2. l.attempt = job[l.key].attemptCount /\ l.attempt \in Numbers
  BY <1>1, AttemptsAssumption DEF HasActiveAttempt, HoldsToken, Job, Numbers
<1>3. attempts[l.key][l.attempt].status = "evaluating"
  BY <1>1, <1>2 DEF HasActiveAttempt
<1>4. attempts[l.key][l.attempt].worker = w
  BY <1>1, <1>2 DEF JobInv, HoldsToken, LastAttempt
<1>5. attempts'[l.key] = Close(l.key, "failed", "lease_expired")
  BY <1>1
<1> QED BY <1>1, <1>2, <1>3, <1>4, <1>5 DEF Close, AttemptTable, SweptFrom

LEMMA RecoverTells ==
    ASSUME FenceInv, NEW w \in Workers, run[w].phase = "running", Books(w), IsOpen(w),
           NEW retryable \in BOOLEAN, NEW fired \in BOOLEAN, Recover(w, retryable, fired)
    PROVE  Told(w)
<1>0. /\ run[w].lease \in Lease /\ run[w].lease.key \in Keys /\ run[w].lease.attempt \in Numbers
      /\ TypeOK /\ run \in [Workers -> Invocation]
      /\ attempts[run[w].lease.key] \in AttemptTable
  BY HeldIsIssued, TypesByKey DEF FenceInv, QueueInv, IInv, RunnerTypes, Lease, Numbers
<1>1. CASE /\ ~HoldsToken(run[w].lease) /\ UNCHANGED vars
           /\ StopAfter(w, "lost") \/ NextClaim(w, "lost")
  <2>1. attempts' = attempts
    BY <1>1 DEF vars
  <2>2. attempts[run[w].lease.key][run[w].lease.attempt] = SweptFrom(w)
    <3>1. PICK a : a = attempts[run[w].lease.key][run[w].lease.attempt]
      OBVIOUS
    <3>2. a.worker = w /\ a.status = "failed" /\ a.code = "lease_expired"
      BY <1>1, <3>1 DEF Books, OpenHeld, Unsettled
    <3>3. a \in Attempt
      BY <1>0, <3>1, <3>2 DEF AttemptTable, NoAttempt
    <3> QED BY <3>1, <3>2, <3>3 DEF Attempt, SweptFrom
  <2>3. run'[w].counts["released"] = run[w].counts["released"]
        /\ run[w].counts["released"] \in Nat
    BY <1>1, FateMoves DEF Counters
  <2> QED BY <2>1, <2>2, <2>3 DEF Told, Rises
<1>2. CASE /\ HoldsToken(run[w].lease) /\ Release(run[w].lease, "lease_expired", now)
           /\ StopAfter(w, "released") \/ NextClaim(w, "released")
  <2>1. "lease_expired" \in Codes
    BY DEF Codes
  <2>2. /\ attempts[run[w].lease.key][run[w].lease.attempt].status = "evaluating"
        /\ attempts'[run[w].lease.key][run[w].lease.attempt] = SweptFrom(w)
    <3>1. PICK l \in Lease : l = run[w].lease
      BY <1>0
    <3>2. /\ HoldsToken(l) /\ HasActiveAttempt(l.key)
          /\ attempts' = [attempts EXCEPT ![l.key] = Close(l.key, "failed", "lease_expired")]
      BY <1>2, <3>1 DEF Release
    <3>3. /\ attempts[l.key][l.attempt].status = "evaluating"
          /\ attempts'[l.key][l.attempt] = SweptFrom(w)
      BY <3>1, <3>2, ReleaseSweeps
    <3> QED BY <3>1, <3>3
  <2>3. run'[w].counts["lost"] = run[w].counts["lost"] /\ run[w].counts["lost"] \in Nat
    BY <1>2, FateMoves DEF Counters
  <2> QED BY <2>2, <2>3 DEF Told, Rises
<1>3. CASE UNCHANGED vars /\ StopFor(w, "DEADLINE_REACHED")
  <2>1. run'[w].counts = run[w].counts
    BY <1>0, <1>3 DEF StopFor, Invocation
  <2> QED BY <2>1, NothingTold
<1>4. CASE /\ HoldsToken(run[w].lease) /\ Fail(run[w].lease, retryable, now)
           /\ NextClaim(w, "failed")
  <2>1. /\ run'[w].counts["released"] = run[w].counts["released"]
        /\ run'[w].counts["lost"] = run[w].counts["lost"]
    BY <1>4, FateMoves DEF Counters
  <2> QED BY <2>1, NothingTold
<1> QED BY <1>1, <1>2, <1>3, <1>4 DEF Recover

LEMMA InvocationTells ==
    ASSUME FenceInv, BooksInv, NEW w \in Workers, InvocationStep(w), NEW v \in Workers
    PROVE  Told(v)
<1>0. run \in [Workers -> Invocation] /\ Books(w)
  BY DEF FenceInv, RunnerTypes, BooksInv
<1>a. ASSUME run'[v] = run[v] PROVE Told(v)
  BY <1>a, NothingTold
<1>b. ASSUME v = w, run'[w].counts["released"] = run[w].counts["released"],
             run'[w].counts["lost"] = run[w].counts["lost"]
      PROVE  Told(v)
  BY <1>b, NothingTold
<1>c. ASSUME NEW fate \in Counters, NextClaim(w, fate) \/ StopAfter(w, fate), v # w PROVE Told(v)
  BY <1>c, <1>a, FateMoves
<1>d. ASSUME run[w].phase = "running"
      PROVE  IsOpen(w)
  BY <1>d, HeldIsIssued DEF IsOpen, NoHold, Lease
<1>e. ASSUME run[w].phase = "running",
             NEW retryable \in BOOLEAN, NEW fired \in BOOLEAN, Recover(w, retryable, fired)
      PROVE  Told(v)
  <2>1. v # w => run'[v] = run[v]
    BY <1>0, <1>d, <1>e, RecoverBooks
  <2>2. v = w => Told(w)
    BY <1>0, <1>d, <1>e, RecoverTells
  <2> QED BY <1>a, <2>1, <2>2
<1>1. CASE StartInvocation(w) \/ OutOfBudget(w) \/ Terminate(w) \/ RenewLease(w) \/ FindEmpty(w)
  <2>1. run'[v].counts = run[v].counts
    <3>1. CASE StartInvocation(w)
      BY <1>0, <3>1 DEF StartInvocation, Invocation
    <3>2. CASE OutOfBudget(w)
      BY <1>0, <3>2 DEF OutOfBudget, StopFor, Invocation
    <3>3. CASE Terminate(w)
      BY <1>0, <3>3 DEF Terminate, Invocation
    <3>4. CASE RenewLease(w)
      BY <1>0, <3>4 DEF RenewLease, Invocation
    <3>5. CASE FindEmpty(w)
      BY <1>0, <3>5 DEF FindEmpty, StopFor, Invocation
    <3> QED BY <1>1, <3>1, <3>2, <3>3, <3>4, <3>5
  <2> QED BY <2>1, NothingTold
<1>2. ASSUME NEW k \in Keys, StartHandler(w, k) PROVE Told(v)
  <2>1. CASE v # w
    BY <1>0, <1>2, <1>a, <2>1 DEF StartHandler
  <2>2. CASE v = w
    <3>1. run'[w].counts = Counted(w, "claimed")
      BY <1>0, <1>2 DEF StartHandler, Invocation
    <3>2. /\ run'[w].counts["released"] = run[w].counts["released"]
          /\ run'[w].counts["lost"] = run[w].counts["lost"]
      BY <1>0, <3>1 DEF Counted, Invocation, Counters
    <3> QED BY <1>b, <2>2, <3>2
  <2> QED BY <2>1, <2>2
<1>3. CASE HandlerReturns(w)
  <2>0. run[w].phase = "running"
    BY <1>3 DEF HandlerReturns
  <2>1. CASE Recover(w, TRUE, FALSE)
    BY <2>0, <2>1, <1>e
  <2>2. ASSUME NEW fate \in {"expired", "succeeded"}, NextClaim(w, fate) PROVE Told(v)
    <3>1. /\ run'[w].counts["released"] = run[w].counts["released"]
          /\ run'[w].counts["lost"] = run[w].counts["lost"]
      BY <2>2, FateMoves DEF Counters
    <3>2. fate \in Counters
      BY DEF Counters
    <3> QED BY <1>b, <1>c, <2>2, <3>1, <3>2
  <2> QED BY <1>3, <2>1, <2>2 DEF HandlerReturns
<1>4. CASE \E retryable \in BOOLEAN : HandlerThrows(w, retryable)
  BY <1>4, <1>e DEF HandlerThrows
<1>5. CASE DeadlineFires(w)
  BY <1>5, <1>e DEF DeadlineFires
<1> QED BY <1>1, <1>2, <1>3, <1>4, <1>5 DEF InvocationStep

\* Each lease an invocation reports as released it ended itself, while the attempt
\* was under evaluation; each it reports as lost a claim of somebody else's had
\* swept before it looked.
THEOREM ReleasedOrLostHolds == RunnerSpec => ReleasedOrLost
<1>1. ASSUME FenceInv, BooksInv, [RunnerNext]_runnerVars, NEW w \in Workers PROVE Told(w)
  <2>1. CASE \E v \in Workers : InvocationStep(v)
    BY <1>1, <2>1, InvocationTells
  <2>2. CASE \/ \E l \in strays : StrayRenews(l) \/ StrayEnds(l)
             \/ Schedule \/ Tick \/ UNCHANGED runnerVars
    <3>1. run' = run
      BY <2>2 DEF StrayRenews, StrayEnds, Schedule, Tick, runnerVars
    <3> QED BY <1>1, <3>1, NothingTold
  <2> QED BY <1>1, <2>1, <2>2 DEF RunnerNext
<1>2. FenceInv /\ BooksInv /\ [RunnerNext]_runnerVars =>
        [\A w \in Workers :
           LET l == run[w].lease
               swept == [worker |-> w, status |-> "failed", code |-> "lease_expired"]
               Up(fate) == run[w].counts[fate] < run'[w].counts[fate]
           IN  /\ Up("released") =>
                    /\ attempts[l.key][l.attempt].status = "evaluating"
                    /\ attempts'[l.key][l.attempt] = swept
               /\ Up("lost") =>
                    /\ attempts[l.key][l.attempt] = swept
                    /\ attempts' = attempts]_runnerVars
  BY <1>1 DEF Told, Rises, SweptFrom
<1> QED BY <1>2, FenceInvariance, BooksInvariance, PTL DEF RunnerSpec, ReleasedOrLost

-----------------------------------------------------------------------------
(* The scheduler of end-of-day evaluations: types *)

\* Invocations of the scheduler do not overlap: there is one at a time.
Serial == \A i, j \in Invocations : i = j

\* What one call works out for a symbol has its type.
LEMMA NextCursorType ==
    ASSUME NEW c \in Call, NEW s \in Symbols
    PROVE  /\ NextCursor(c, s) \in Session
           /\ MissedFor(c, s) \subseteq Symbols \X (1..Sessions)
<1> USE SchedulerAssumption
<1>1. c.due \in Session /\ c.cursor[s] \in Session
  BY DEF Call
<1>2. NextCursor(c, s) \in Session
  <2>1. ASSUME DueFor(c, s) # {} PROVE c.due \in 1..Sessions
    BY <1>1, <2>1 DEF DueFor, Session
  <2>2. QED
    BY <1>1, <2>1 DEF NextCursor, Target, Session
<1>3. \A d \in Earlier(c, s) : d \in 1..Sessions
  BY <1>1 DEF Earlier, DueFor, Session
<1>4. QED
  BY <1>2, <1>3 DEF MissedFor

LEMMA IdleCallType == IdleCall \in Call
  BY SchedulerAssumption DEF IdleCall, Call, Zero, Session

LEMMA SchedulerTypePreserved ==
    ASSUME SchedulerTypeOK, [SchedulerNext]_schedulerVars
    PROVE  SchedulerTypeOK'
<1> USE SchedulerAssumption DEF SchedulerTypeOK
<1>1. CASE SessionFallsDue
  BY <1>1 DEF SessionFallsDue, Session
<1>2. ASSUME NEW s \in Symbols, NEW d \in 1..Sessions, BarCompletes(s, d)
      PROVE  SchedulerTypeOK'
  BY <1>2 DEF BarCompletes, Session
<1>3. ASSUME NEW i \in Invocations, NEW limit \in Limits, Prepare(i, limit)
      PROVE  SchedulerTypeOK'
  <2>1. Input(limit) \in Call
    BY IdleCallType DEF Input, IdleCall, Call, Zero, Session
  <2>2. QED
    BY <1>3, <2>1 DEF Prepare
<1>4. ASSUME NEW i \in Invocations, Run(i) PROVE SchedulerTypeOK'
  <2> DEFINE c == call[i]
  <2>1. c \in Call
    OBVIOUS
  <2>2. [s \in Symbols |-> NextCursor(c, s)] \in [Symbols -> Session]
    BY <2>1, NextCursorType
  <2>3. UNION {MissedFor(c, s) : s \in Symbols} \subseteq Symbols \X (1..Sessions)
    BY <2>1, NextCursorType
  <2>4. Result(c) \in Call
    BY <2>1, <2>2, <2>3 DEF Call, Result
  <2>5. call' \in [Invocations -> Call]
    BY <1>4, <2>4, IdleCallType DEF Run
  <2>6. jobs' \in [Symbols -> [1..Sessions -> Limits \cup {0}]]
    <3>1. ASSUME NEW s \in Symbols, Enqueues(c, s), jobs[s][Target(c)] = 0
          PROVE  c.limit \in Limits \cup {0}
      BY <2>1 DEF Call
    <3>2. QED
      BY <1>4, <3>1 DEF Run
  <2>7. QED
    BY <1>4, <2>5, <2>6 DEF Run
<1>5. ASSUME NEW i \in Invocations, Persist(i) PROVE SchedulerTypeOK'
  <2>1. call[i] \in Call
    OBVIOUS
  <2>2. call[i].next \in [Symbols -> Session] /\ call[i].missed \subseteq Symbols \X (1..Sessions)
    BY <2>1 DEF Call
  <2>3. QED
    BY <1>5, <2>2, IdleCallType DEF Persist
<1>6. ASSUME NEW i \in Invocations, Crash(i) PROVE SchedulerTypeOK'
  BY <1>6, IdleCallType DEF Crash
<1>7. CASE UNCHANGED schedulerVars
  BY <1>7 DEF schedulerVars
<1>8. QED
  BY <1>1, <1>2, <1>3, <1>4, <1>5, <1>6, <1>7 DEF SchedulerNext

\* The scheduler's state always has its type, however its invocations overlap
\* and die (scheduler.ts, enqueueAvailableEodEvaluations and its caller).
THEOREM SchedulerTypes == SchedulerSpec => []SchedulerTypeOK
<1>1. SchedulerInit => SchedulerTypeOK
  BY SchedulerAssumption, IdleCallType DEF SchedulerInit, SchedulerTypeOK, Zero, Session
<1>2. SchedulerTypeOK /\ [SchedulerNext]_schedulerVars => SchedulerTypeOK'
  BY SchedulerTypePreserved
<1>3. QED
  BY <1>1, <1>2, PTL DEF SchedulerSpec

-----------------------------------------------------------------------------
(* The scheduler: accounting *)

\* No invocation is about to give a cursor to a symbol that has none while
\* another one may be doing the same.
BootstrapSafe == Serial \/ Bootstrap # 0

\* The cursor c starts from, and the one it is about to persist, leave no
\* session behind unaccounted for.
CallAccounts(c) ==
  /\ c.stage = "ready" => c.limit # 0
  /\ \A s \in Symbols : boot[s] # 0 =>
        /\ c.stage = "ready" =>
             /\ c.cursor[s] # 0
             /\ \A d \in 1..Sessions : boot[s] < d /\ d <= c.cursor[s] => Settled(s, d)
        /\ c.stage = "done" =>
             /\ c.next[s] # 0
             /\ \A d \in 1..Sessions : boot[s] < d /\ d <= c.next[s] =>
                    Settled(s, d) \/ <<s, d>> \in c.missed

AccountInv ==
    /\ SchedulerTypeOK
    /\ \A s \in Symbols : boot[s] = 0 <=> cursor[s] = 0
    /\ Bootstrap # 0 => \A s \in Symbols : boot[s] # 0
    /\ AccountedFor
    /\ \A i \in Invocations : CallAccounts(call[i])

\* What a call has at the end of enqueueAvailableEodEvaluations: up to the new
\* cursor, each session after the old one is a target or an earlier one.
LEMMA NextAccounts ==
    ASSUME SchedulerTypeOK, NEW i \in Invocations, Run(i), NEW s \in Symbols,
           \A t \in Symbols : ~Conflicts(call[i], t),
           call[i].cursor[s] # 0, call[i].limit # 0
    PROVE  /\ NextCursor(call[i], s) # 0
           /\ \A d \in 1..Sessions :
                call[i].cursor[s] < d /\ d <= NextCursor(call[i], s) =>
                    jobs'[s][d] # 0 \/ <<s, d>> \in MissedFor(call[i], s)
<1> DEFINE c == call[i]
<1> USE SchedulerAssumption
<1>1. c \in Call
  BY DEF SchedulerTypeOK
<1>2. c.due \in Session /\ c.cursor[s] \in Session \ {0}
  BY <1>1 DEF Call
<1>3. NextCursor(c, s) # 0
  BY <1>2 DEF NextCursor, DueFor, Earlier, Target, Session
<1>4. ASSUME NEW d \in 1..Sessions, c.cursor[s] < d, d <= NextCursor(c, s)
      PROVE  jobs'[s][d] # 0 \/ <<s, d>> \in MissedFor(c, s)
  <2>1. d \in DueFor(c, s) /\ d <= c.due
    BY <1>2, <1>4 DEF NextCursor, DueFor, Earlier, Target, Session
  <2>2. CASE d < c.due
    <3>1. d \in Earlier(c, s)
      BY <1>2, <2>1, <2>2 DEF Earlier, Session
    <3>2. jobs[s][d] = 0 => <<s, d>> \in MissedFor(c, s)
      BY <2>1, <3>1 DEF MissedFor
    <3>3. jobs[s][d] # 0 => jobs'[s][d] # 0
      BY <1>1, <1>2, <2>2 DEF Run, SchedulerTypeOK, Target, Session
    <3>4. QED
      BY <3>2, <3>3
  <2>3. CASE d = c.due
    <3>1. ~Delayed(c, s)
      BY <1>2, <1>4, <2>3 DEF NextCursor, Target, Session, DueFor
    <3>2. Enqueues(c, s) /\ Reached(c, s)
      BY <2>1, <3>1 DEF Enqueues, Reached
    <3>3. QED
      BY <2>3, <3>2 DEF Run, SchedulerTypeOK, Target
  <2>4. QED
    BY <1>2, <2>1, <2>2, <2>3 DEF Session
<1>5. QED
  BY <1>3, <1>4

LEMMA AccountInit == SchedulerInit => AccountInv
<1> USE SchedulerAssumption
<1>1. SchedulerInit => SchedulerTypeOK
  BY IdleCallType DEF SchedulerInit, SchedulerTypeOK, Zero, Session
<1>2. QED
  BY <1>1 DEF SchedulerInit, AccountInv, AccountedFor, CallAccounts, IdleCall, Session

LEMMA AccountStep ==
    ASSUME BootstrapSafe, AccountInv, [SchedulerNext]_schedulerVars
    PROVE  AccountInv'
<1> USE SchedulerAssumption DEF AccountInv
<1>t. SchedulerTypeOK'
  BY SchedulerTypePreserved
<1>s. SUFFICES
        /\ \A s \in Symbols : boot'[s] = 0 <=> cursor'[s] = 0
        /\ Bootstrap # 0 => \A s \in Symbols : boot'[s] # 0
        /\ AccountedFor'
        /\ \A i \in Invocations : CallAccounts(call[i])'
  BY <1>t
<1>1. ASSUME UNCHANGED <<jobs, cursor, missed, boot, call>> PROVE AccountInv'
  <2>1. AccountedFor'
    BY <1>1 DEF AccountedFor, Settled
  <2>2. \A i \in Invocations : CallAccounts(call[i])'
    BY <1>1 DEF CallAccounts, Settled
  <2>3. QED
    BY <1>1, <1>t, <2>1, <2>2
<1>2. CASE SessionFallsDue
  BY <1>1, <1>2 DEF SessionFallsDue
<1>3. ASSUME NEW s \in Symbols, NEW d \in 1..Sessions, BarCompletes(s, d)
      PROVE  AccountInv'
  BY <1>1, <1>3 DEF BarCompletes
<1>4. ASSUME NEW i \in Invocations, NEW limit \in Limits, Prepare(i, limit)
      PROVE  AccountInv'
  <2>1. AccountedFor'
    BY <1>4 DEF Prepare, AccountedFor, Settled
  <2>2. \A j \in Invocations : CallAccounts(call[j])'
    <3> TAKE j \in Invocations
    <3>1. CASE j = i
      <4>1. call'[i] = Input(limit)
        BY <1>4 DEF Prepare, SchedulerTypeOK
      <4>2. QED
        BY <1>4, <3>1, <4>1 DEF Prepare, Input, CallAccounts, AccountedFor, Settled
    <3>2. CASE j # i
      <4>1. call'[j] = call[j]
        BY <1>4, <3>2 DEF Prepare, SchedulerTypeOK
      <4>2. QED
        BY <1>4, <4>1 DEF Prepare, CallAccounts, Settled
    <3>3. QED
      BY <3>1, <3>2
  <2>3. QED
    BY <1>4, <1>t, <2>1, <2>2 DEF Prepare
<1>5. ASSUME NEW i \in Invocations, Run(i) PROVE AccountInv'
  <2> DEFINE c == call[i]
  <2>1. \A s \in Symbols, d \in 1..Sessions : Settled(s, d) => Settled(s, d)'
    <3>1. c \in Call
      BY DEF SchedulerTypeOK
    <3>2. ASSUME NEW s \in Symbols, NEW d \in 1..Sessions, jobs[s][d] # 0
          PROVE  jobs'[s][d] # 0
      BY <1>5, <3>1, <3>2 DEF Run, SchedulerTypeOK, Target, Call, Session
    <3>3. QED
      BY <1>5, <3>2 DEF Run, Settled
  <2>2. AccountedFor'
    BY <1>5, <2>1 DEF Run, AccountedFor
  <2>3. \A j \in Invocations : j # i => call'[j] = call[j]
    BY <1>5 DEF Run, SchedulerTypeOK
  <2>4. ASSUME NEW j \in Invocations, j # i PROVE CallAccounts(call[j])'
    BY <1>5, <2>1, <2>3, <2>4 DEF Run, CallAccounts
  <2>5. CallAccounts(call[i])'
    <3>1. CASE \E t \in Symbols : Conflicts(c, t)
      <4>1. call'[i] = IdleCall
        BY <1>5, <3>1 DEF Run, SchedulerTypeOK
      <4>2. QED
        BY <4>1 DEF CallAccounts, IdleCall
    <3>2. CASE \A t \in Symbols : ~Conflicts(c, t)
      <4>1. call'[i] = Result(c)
        BY <1>5, <3>2 DEF Run, SchedulerTypeOK
      <4>2. ASSUME NEW s \in Symbols, boot[s] # 0
            PROVE  /\ call'[i].next[s] # 0
                   /\ \A d \in 1..Sessions : boot[s] < d /\ d <= call'[i].next[s] =>
                          Settled(s, d)' \/ <<s, d>> \in call'[i].missed
        <5>1. /\ c.cursor[s] # 0
              /\ \A d \in 1..Sessions : boot[s] < d /\ d <= c.cursor[s] => Settled(s, d)
          BY <1>5, <4>2 DEF Run, CallAccounts
        <5>2. c.limit # 0
          BY <1>5 DEF Run, CallAccounts
        <5>3. call'[i].next[s] = NextCursor(c, s) /\ MissedFor(c, s) \subseteq call'[i].missed
          BY <4>1 DEF Result
        <5>4. c.cursor[s] \in Session
          BY DEF SchedulerTypeOK, Call
        <5>5. \A d \in 1..Sessions : ~(d <= c.cursor[s]) => c.cursor[s] < d
          BY <5>4 DEF Session
        <5>6. /\ NextCursor(c, s) # 0
              /\ \A d \in 1..Sessions : c.cursor[s] < d /\ d <= NextCursor(c, s) =>
                   jobs'[s][d] # 0 \/ <<s, d>> \in MissedFor(c, s)
          BY <1>5, <3>2, <5>1, <5>2, NextAccounts
        <5>7. QED
          BY <2>1, <5>1, <5>3, <5>5, <5>6 DEF Settled
      <4>3. QED
        BY <1>5, <4>1, <4>2 DEF Run, CallAccounts, Result
    <3>3. QED
      BY <3>1, <3>2
  <2>6. QED
    BY <1>5, <1>t, <2>2, <2>4, <2>5 DEF Run
<1>6. ASSUME NEW i \in Invocations, Persist(i) PROVE AccountInv'
  <2> DEFINE c == call[i]
  <2>1. /\ c.stage = "done" /\ cursor' = c.next /\ missed' = missed \cup c.missed
        /\ jobs' = jobs /\ call' = [call EXCEPT ![i] = IdleCall]
        /\ boot' = [s \in Symbols |-> IF boot[s] = 0 THEN cursor'[s] ELSE boot[s]]
    BY <1>6 DEF Persist
  <2>2. \A s \in Symbols, d \in 1..Sessions : Settled(s, d) => Settled(s, d)'
    BY <2>1 DEF Settled
  <2>3. \A s \in Symbols : boot'[s] = 0 <=> cursor'[s] = 0
    BY <2>1 DEF CallAccounts
  <2>4. \A s \in Symbols : boot[s] # 0 => boot'[s] = boot[s]
    BY <2>1
  <2>5. AccountedFor'
    <3>1. ASSUME NEW s \in Symbols, NEW d \in 1..Sessions,
                 boot'[s] # 0, boot'[s] < d, d <= cursor'[s]
          PROVE  Settled(s, d)'
      <4>1. c \in Call
        BY DEF SchedulerTypeOK
      <4>2. cursor'[s] \in Session
        BY <2>1, <4>1 DEF Call
      <4>3. boot[s] # 0
        BY <2>1, <3>1, <4>2 DEF Session
      <4>4. Settled(s, d) \/ <<s, d>> \in c.missed
        BY <2>1, <2>4, <3>1, <4>3 DEF CallAccounts
      <4>5. QED
        BY <2>1, <4>4 DEF Settled
    <3>2. QED
      BY <3>1 DEF AccountedFor
  <2>6. CallAccounts(call[i])'
    <3>1. call'[i] = IdleCall
      BY <2>1 DEF SchedulerTypeOK
    <3>2. QED
      BY <3>1 DEF CallAccounts, IdleCall
  <2>7. ASSUME NEW j \in Invocations, j # i PROVE CallAccounts(call[j])'
    <3>1. \A s \in Symbols : boot[s] # 0 /\ boot'[s] = boot[s]
      BY <2>4, <2>7 DEF BootstrapSafe, Serial
    <3>2. call'[j] = call[j]
      BY <2>1, <2>7 DEF SchedulerTypeOK
    <3>3. QED
      BY <2>2, <3>1, <3>2 DEF CallAccounts
  <2>8. QED
    BY <1>t, <2>3, <2>4, <2>5, <2>6, <2>7
<1>7. ASSUME NEW i \in Invocations, Crash(i) PROVE AccountInv'
  <2>1. AccountedFor'
    BY <1>7 DEF Crash, AccountedFor, Settled
  <2>2. ASSUME NEW j \in Invocations PROVE CallAccounts(call[j])'
    <3>1. call'[j] = call[j] \/ call'[j] = IdleCall
      BY <1>7 DEF Crash, SchedulerTypeOK
    <3>2. QED
      BY <1>7, <3>1 DEF Crash, CallAccounts, IdleCall, Settled
  <2>3. QED
    BY <1>7, <1>t, <2>1, <2>2 DEF Crash
<1>8. CASE UNCHANGED schedulerVars
  BY <1>1, <1>8 DEF schedulerVars
<1>9. QED
  BY <1>2, <1>3, <1>4, <1>5, <1>6, <1>7, <1>8 DEF SchedulerNext

\* No session is skipped silently, however invocations are delayed and die:
\* if they do not overlap, and even if they do once every symbol has a cursor
\* (scheduler.ts, the cursor and the missed sessions it returns).
THEOREM AccountedForHolds ==
    ASSUME BootstrapSafe
    PROVE  SchedulerSpec => []AccountedFor
<1>1. AccountInv /\ [SchedulerNext]_schedulerVars => AccountInv'
  BY AccountStep
<1>2. AccountInv => AccountedFor
  BY DEF AccountInv
<1>3. QED
  BY <1>1, <1>2, AccountInit, PTL DEF SchedulerSpec

-----------------------------------------------------------------------------
(* The scheduler: missed for good, and cursors that advance, without overlaps *)

\* What is on record as missed, or about to be, lies before the session the
\* next call can target, and no call works from an old cursor.
MissInv ==
    /\ SchedulerTypeOK
    /\ \A s \in Symbols, d \in 1..Sessions :
          <<s, d>> \in missed => d < due /\ jobs[s][d] = 0
    /\ \A i \in Invocations :
          /\ call[i].due <= due
          /\ call[i].stage = "ready" =>
               /\ call[i].cursor = cursor
               /\ \A s \in Symbols, d \in 1..Sessions : <<s, d>> \in missed => d < call[i].due
          /\ call[i].stage = "done" =>
               /\ \A s \in Symbols : call[i].next[s] >= cursor[s]
               /\ \A s \in Symbols, d \in 1..Sessions :
                    <<s, d>> \in call[i].missed => d < due /\ jobs[s][d] = 0

\* A missed session lies before the target and has no job; the target's job
\* is the only one a call can add.
LEMMA RunMisses ==
    ASSUME SchedulerTypeOK, NEW i \in Invocations, Run(i), NEW s \in Symbols
    PROVE  /\ NextCursor(call[i], s) >= call[i].cursor[s]
           /\ \A d \in 1..Sessions : d < call[i].due => jobs'[s][d] = jobs[s][d]
           /\ \A t \in Symbols, d \in 1..Sessions : <<t, d>> \in MissedFor(call[i], s) =>
                t = s /\ d < call[i].due /\ jobs[s][d] = 0
<1> DEFINE c == call[i]
<1> USE SchedulerAssumption
<1>1. c \in Call
  BY DEF SchedulerTypeOK
<1>2. c.due \in Session /\ c.cursor[s] \in Session
  BY <1>1 DEF Call
<1>3. NextCursor(c, s) >= c.cursor[s]
  BY <1>2 DEF NextCursor, DueFor, Earlier, Target, Session
<1>4. \A d \in 1..Sessions : d < c.due => jobs'[s][d] = jobs[s][d]
  BY <1>2 DEF Run, SchedulerTypeOK, Target, Session
<1>5. \A d \in Earlier(c, s) : d < c.due
  BY <1>2 DEF Earlier, DueFor, Session
<1>6. QED
  BY <1>3, <1>4, <1>5 DEF MissedFor

LEMMA MissInit == SchedulerInit => MissInv
<1> USE SchedulerAssumption
<1>1. SchedulerInit => SchedulerTypeOK
  BY IdleCallType DEF SchedulerInit, SchedulerTypeOK, Zero, Session
<1>2. QED
  BY <1>1 DEF SchedulerInit, MissInv, IdleCall, Session

LEMMA MissStep ==
    ASSUME Serial, MissInv, [SchedulerNext]_schedulerVars
    PROVE  MissInv' /\ \A s \in Symbols : cursor'[s] >= cursor[s]
<1> USE SchedulerAssumption DEF MissInv
<1>t. SchedulerTypeOK'
  BY SchedulerTypePreserved
<1>c. \A s \in Symbols : cursor[s] \in Nat /\ cursor[s] >= cursor[s]
  <2>1. \A s \in Symbols : cursor[s] \in Nat
    BY DEF SchedulerTypeOK, Session
  <2>2. QED
    BY <2>1
<1>d. due \in Nat /\ \A i \in Invocations : call[i].due \in Nat
  BY DEF SchedulerTypeOK, Session, Call
<1> DEFINE Goal == MissInv' /\ \A s \in Symbols : cursor'[s] >= cursor[s]
<1>1. CASE SessionFallsDue
  <2>1. due' = due + 1
    BY <1>1 DEF SessionFallsDue
  <2>2. QED
    BY <1>1, <1>t, <1>c, <1>d, <2>1 DEF SessionFallsDue
<1>2. ASSUME NEW s \in Symbols, NEW d \in 1..Sessions, BarCompletes(s, d)
      PROVE  Goal
  BY <1>2, <1>t, <1>c DEF BarCompletes
<1>3. ASSUME NEW i \in Invocations, NEW limit \in Limits, Prepare(i, limit)
      PROVE  Goal
  <2>1. \A j \in Invocations : call'[j] = Input(limit)
    BY <1>3 DEF Prepare, SchedulerTypeOK, Serial
  <2>2. QED
    BY <1>3, <1>t, <1>c, <1>d, <2>1 DEF Prepare, Input
<1>4. ASSUME NEW i \in Invocations, Run(i) PROVE Goal
  <2> DEFINE c == call[i]
  <2>1. c.stage = "ready" /\ UNCHANGED <<due, cursor, missed>>
    BY <1>4 DEF Run
  <2>2. \A s \in Symbols, d \in 1..Sessions :
          <<s, d>> \in missed => d < due' /\ jobs'[s][d] = 0
    BY <1>4, <2>1, RunMisses
  <2>3. \A j \in Invocations : j = i
    BY DEF Serial
  <2>4. call'[i] = IdleCall \/ call'[i] = Result(c)
    BY <1>4 DEF Run, SchedulerTypeOK
  <2>5. CASE call'[i] = IdleCall
    BY <1>t, <1>c, <1>d, <2>1, <2>2, <2>3, <2>5 DEF IdleCall
  <2>6. CASE call'[i] = Result(c)
    <3>1. \A s \in Symbols : call'[i].next[s] >= cursor[s]
      BY <1>4, <2>1, <2>6, RunMisses DEF Result
    <3>2. ASSUME NEW s \in Symbols, NEW d \in 1..Sessions, <<s, d>> \in call'[i].missed
          PROVE  d < due /\ jobs'[s][d] = 0
      <4>1. PICK t \in Symbols : <<s, d>> \in MissedFor(c, t)
        BY <2>6, <3>2 DEF Result
      <4>2. s = t /\ d < c.due /\ jobs[t][d] = 0
        <5>1. \A u \in Symbols, e \in 1..Sessions : <<u, e>> \in MissedFor(c, t) =>
                u = t /\ e < c.due /\ jobs[t][e] = 0
          BY <1>4, RunMisses
        <5>2. QED
          BY <4>1, <5>1
      <4>3. jobs'[t][d] = jobs[t][d]
        BY <1>4, <4>2, RunMisses
      <4>4. QED
        BY <1>d, <4>2, <4>3
    <3>3. call'[i].due <= due /\ call'[i].stage = "done"
      BY <2>6 DEF Result
    <3>4. QED
      BY <1>t, <1>c, <2>1, <2>2, <2>3, <3>1, <3>2, <3>3
  <2>7. QED
    BY <2>4, <2>5, <2>6
<1>5. ASSUME NEW i \in Invocations, Persist(i) PROVE Goal
  <2> DEFINE c == call[i]
  <2>1. /\ c.stage = "done" /\ cursor' = c.next /\ missed' = missed \cup c.missed
        /\ UNCHANGED <<jobs, due>>
    BY <1>5 DEF Persist
  <2>2. \A j \in Invocations : call'[j] = IdleCall
    BY <1>5 DEF Persist, SchedulerTypeOK, Serial
  <2>3. QED
    BY <1>t, <1>d, <2>1, <2>2 DEF IdleCall
<1>6. ASSUME NEW i \in Invocations, Crash(i) PROVE Goal
  <2>1. \A j \in Invocations : call'[j] = IdleCall
    BY <1>6 DEF Crash, SchedulerTypeOK, Serial
  <2>2. QED
    BY <1>6, <1>t, <1>c, <1>d, <2>1 DEF Crash, IdleCall
<1>7. CASE UNCHANGED schedulerVars
  BY <1>7, <1>t, <1>c DEF schedulerVars
<1>8. QED
  BY <1>1, <1>2, <1>3, <1>4, <1>5, <1>6, <1>7 DEF SchedulerNext

\* A session on record as missed never has an evaluation job, if invocations
\* do not overlap (scheduler.ts, the filter by getByOperationKey).
THEOREM MissedForGoodHolds ==
    ASSUME Serial
    PROVE  SchedulerSpec => []MissedForGood
<1>1. MissInv /\ [SchedulerNext]_schedulerVars => MissInv'
  BY MissStep
<1>2. MissInv => MissedForGood
  BY DEF MissInv, MissedForGood, SchedulerTypeOK
<1>3. QED
  BY <1>1, <1>2, MissInit, PTL DEF SchedulerSpec

\* Persisting the result of a call never moves a cursor back, if invocations do
\* not overlap (scheduler.ts, nextHighWaterSessionBySymbol).
THEOREM CursorAdvancesHolds ==
    ASSUME Serial
    PROVE  SchedulerSpec => CursorAdvances
<1>1. MissInv /\ [SchedulerNext]_schedulerVars => MissInv'
  BY MissStep
<1>2. MissInv /\ [SchedulerNext]_schedulerVars => [\A s \in Symbols : cursor'[s] >= cursor[s]]_schedulerVars
  BY MissStep
<1>3. QED
  BY <1>1, <1>2, MissInit, PTL DEF SchedulerSpec, CursorAdvances
==============================================================================
