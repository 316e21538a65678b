---------------------------- MODULE JobLifecycle ----------------------------
(***************************************************************************)
(* What the job queue promises about one operation, whatever its callers   *)
(* do: it is submitted once, tried one try at a time, at most its limit of *)
(* times, and ends at most once, as done or as dead.  Operations are       *)
(* independent, so a step may move several of them (a claim ends every     *)
(* lease that ran out before it hands out a new one), each by one move.    *)
(***************************************************************************)
EXTENDS Naturals

CONSTANTS Keys, MaxAttempts

VARIABLES
    phase,  \* "unborn", "waiting", "running", "done" or "dead"
    tries,  \* tries started so far
    limit   \* the tries the submitter allowed

vars == <<phase, tries, limit>>

Init ==
    /\ phase = [k \in Keys |-> "unborn"]
    /\ tries = [k \in Keys |-> 0]
    /\ limit = [k \in Keys |-> 0]

Submit(k) ==
    /\ phase[k] = "unborn" /\ phase'[k] = "waiting"
    /\ limit'[k] \in 1..MaxAttempts
    /\ tries'[k] = 0

Start(k) ==
    /\ phase[k] = "waiting" /\ phase'[k] = "running"
    /\ tries'[k] = tries[k] + 1
    /\ tries'[k] <= limit[k]
    /\ limit'[k] = limit[k]

\* A try that ends without success may be followed by another one only while
\* the limit allows it.
End(k) ==
    /\ phase[k] = "running"
    /\ \/ phase'[k] \in {"done", "dead"}
       \/ phase'[k] = "waiting" /\ tries[k] < limit[k]
    /\ tries'[k] = tries[k]
    /\ limit'[k] = limit[k]

Stay(k) ==
    /\ phase'[k] = phase[k] /\ tries'[k] = tries[k] /\ limit'[k] = limit[k]

Next == \A k \in Keys : Submit(k) \/ Start(k) \/ End(k) \/ Stay(k)

Spec == Init /\ [][Next]_vars
=============================================================================
