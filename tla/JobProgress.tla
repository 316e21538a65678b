---------------------------- MODULE JobProgress -----------------------------
(***************************************************************************)
(* Progress of the job queue: every operation submitted is settled in the  *)
(* end, although any worker may die at any point without a word.           *)
(*                                                                         *)
(* Instants are measured from the present: Elapse brings each lease expiry *)
(* and each availability one unit nearer, and calls read the clock as 0;   *)
(* the clock of a claimer may be ahead and read another of Instants.  Time *)
(* thus runs without end over finitely many states.  How long a job has    *)
(* been due is not kept: those that are due tie and are claimed in the     *)
(* order of their keys, where the code takes the one that was due first.   *)
(* No property here tells these orders apart.                              *)
(***************************************************************************)
EXTENDS JobQueue

CONSTANT MaxBeats  \* bound: the heartbeats sent in a behaviour

VARIABLE beats

progressVars == <<vars, beats>>

Nearer(t) == IF t = 0 THEN 0 ELSE t - 1

Elapse ==
    /\ job' = [k \in Keys |-> [job[k] EXCEPT !.availableAt = Nearer(@),
                                             !.lease.until = Nearer(@)]]
    /\ UNCHANGED <<attempts, nextToken, issued, accepted, beats>>

\* Operations are submitted due at once or one unit later, and dead letters
\* replayed by an operator.
Submit ==
    /\ \E k \in Keys :
          \/ \E b \in Bodies, max \in 1..MaxAttempts, due \in {0, 1} :
                Enqueue(k, PlainPayload(b), max, NoKey, due)
          \/ \E original \in Keys \ {k}, note \in Notes :
                OperatorReplay(original, k, note, 0)
    /\ UNCHANGED beats

ClaimAt(t) ==
    /\ \/ \E w \in Workers, k \in Keys : ClaimJob(w, k, t)
       \/ ClaimNothing(t)
    /\ UNCHANGED beats

\* A handler may renew its lease, though not for ever: an invocation has a
\* deadline, at which the runner stops waiting for it.
Renew ==
    /\ beats < MaxBeats
    /\ \E l \in issued : Heartbeat(l, 0)
    /\ beats' = beats + 1

Report ==
    /\ \E l \in issued :
        \/ Succeed(l, 0)
        \/ ReconcileExpired(l, 0)
        \/ \E retryable \in BOOLEAN : Fail(l, retryable, 0)
        \/ \E code \in {"lease_expired", "released"} : Release(l, code, 0)
    /\ UNCHANGED beats

ProgressInit == Init /\ beats = 0
ProgressNext == Elapse \/ Submit \/ (\E t \in Instants : ClaimAt(t)) \/ Renew \/ Report

\* Time passes and the scheduler keeps starting invocations that claim.  No
\* worker is obliged to report: it may have been terminated.
ProgressSpec ==
    /\ ProgressInit
    /\ [][ProgressNext]_progressVars
    /\ WF_progressVars(Elapse)
    /\ WF_progressVars(\E t \in Instants : ClaimAt(t))

\* Every submitted operation ends as succeeded or as a dead letter, even when
\* each worker that claims it dies: the next claim ends the expired lease, the
\* back-off runs out and the attempts are limited (queue.ts claim).
EverySubmissionSettles ==
    \A k \in Keys : Exists(k) ~> job[k].status \in Terminal
=============================================================================
