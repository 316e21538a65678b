----------------------------- MODULE RootArchive -----------------------------
(***************************************************************************)
(* The durable archive of ledger roots: the runs of the workflow of        *)
(* .github/workflows/ledger-attest.yml and the code of deploy/             *)
(* root-publisher they run.  A run waits until the chain is ready for its  *)
(* root (prepare-root.ts), appends it to the branch ledger-roots           *)
(* (archive.ts), and attests the document externally between two checks of *)
(* the deadline (enforce-deadline.ts).                                     *)
(*                                                                         *)
(* Runs of different roots interleave, at most one run of a root is active *)
(* (the workflow's concurrency group) and one more waits.  Any request to  *)
(* GitHub may fail, a run may be cancelled, and a branch update whose      *)
(* answer was lost may still land later.  Operators replay envelopes at    *)
(* any time.                                                               *)
(*                                                                         *)
(* A commit is the tree it holds: its documents and its head.  The root    *)
(* hash fixes a root's predecessor and times, not the source revision of   *)
(* the envelope that carries it.  Reads at one commit are one step.        *)
(* Malformed payloads and files are left out: this code writes every file. *)
(*                                                                         *)
(* Definitions introduced as "Bug:" are plausible mistakes.  Nothing uses  *)
(* them: they are there to try whether the properties would notice.        *)
(***************************************************************************)
EXTENDS Naturals, FiniteSets

CONSTANTS
    Roots, Revisions, None,
    Previous,        \* predecessor of each root, None for a genesis
    ClosedAt,        \* when the batch of each root closed
    Deadline,        \* before which its attestation must be complete
    PrepareTimeout,  \* how long a run waits for the chain to be ready
    MaxLate,         \* bound: updates on their way after their runs gave up
    Replayed,        \* bound: envelopes that are ever dispatched
    MaxTime          \* bound: the end of time

Envelopes == [root: Roots, revision: Revisions]
Times == 0..MaxTime
Documents == [env: Envelopes, at: Times]
Trees == [files: SUBSET Documents, head: Roots \cup {None}]

ASSUME NoneAssumption == None \notin Roots \cup Envelopes
ASSUME PreviousAssumption == Previous \in [Roots -> Roots \cup {None}]
ASSUME TimeAssumption ==
    /\ MaxTime \in Nat /\ PrepareTimeout \in Nat
    /\ ClosedAt \in [Roots -> Nat] /\ Deadline \in [Roots -> Nat]
ASSUME ReplayedAssumption == Replayed \subseteq Envelopes
ASSUME LateAssumption == MaxLate \in Nat

VARIABLES
    now,
    branch,   \* tree of ledger-roots; the empty tree stands for no branch
    pending,  \* envelope of the run of each root that waits for its turn
    run,      \* active or last run of each root
    late      \* updates of the branch still on their way to GitHub

vars == <<now, branch, pending, run, late>>

DocRoot(d) == d.env.root
DocPrevious(d) == Previous[d.env.root]

EmptyTree == [files |-> {}, head |-> None]

Doc(e, t) == [env |-> e, at |-> t]

\* at: when the run started, then the verifiedAt of its document; base: the
\* commit it is about to append to.
Run(stage, e, t, tree) == [stage |-> stage, env |-> e, at |-> t, base |-> tree]

NoRun == [stage |-> "none"]

\* Stages of a run whose document is ready.
Ready == {"read", "write", "recover", "check", "attest", "confirm", "success"}
Active == {"prepare", "read", "write", "recover", "check", "attest", "confirm"}
Over == {"success", "failed", "refused"}
Stages == Active \cup Over

Runs == {NoRun} \cup [stage: Stages, env: Envelopes, at: Times, base: Trees]

TypeOK ==
    /\ now \in Times
    /\ branch \in Trees
    /\ pending \in [Roots -> Envelopes \cup {None}]
    /\ run \in [Roots -> Runs]
    /\ late \subseteq [doc: Documents, base: Trees]

Init ==
    /\ now = 0
    /\ branch = EmptyTree
    /\ pending = [r \in Roots |-> None]
    /\ run = [r \in Roots |-> NoRun]
    /\ late = {}

-----------------------------------------------------------------------------
(* The branch *)

Archived(tree) == {d.env.root : d \in tree.files}

\* The document of this envelope (dispatchEnvelopeMatchesArchive).
Holds(tree, e) == \E d \in tree.files : d.env = e

Appended(tree, d) == [files |-> tree.files \cup {d}, head |-> d.env.root]

\* GitHub accepts the update: the branch still is the commit it builds on.
FastForward(base) == branch = base

-----------------------------------------------------------------------------
(* Steps of a run *)

Goto(r, stage) ==
    run' = [run EXCEPT ![r] = Run(stage, run[r].env, run[r].at, run[r].base)]

\* A dispatch starts a run of the workflow, which takes the place of the one
\* waiting in the same concurrency group.
Dispatch(e) ==
    /\ pending' = [pending EXCEPT ![e.root] = e]
    /\ UNCHANGED <<now, branch, run, late>>

Idle(r) == run[r].stage \notin Active

StartRun(r) ==
    /\ pending[r] # None
    /\ Idle(r)
    /\ now + PrepareTimeout <= MaxTime
    /\ run' = [run EXCEPT ![r] = Run("prepare", pending[r], now, EmptyTree)]
    /\ pending' = [pending EXCEPT ![r] = None]
    /\ UNCHANGED <<now, branch, late>>

\* Bug: a replay of an archived root is stamped anew.
PrepareReplayStamped(r) ==
    LET e == run[r].env IN
    /\ run[r].stage = "prepare"
    /\ Holds(branch, e)
    /\ run' = [run EXCEPT ![r] = Run("read", e, now, EmptyTree)]
    /\ UNCHANGED <<now, branch, pending, late>>

\* The root is archived with this envelope: its document is taken as it is.
PrepareReplay(r) ==
    LET e == run[r].env IN
    /\ run[r].stage = "prepare"
    /\ ClosedAt[r] <= now
    /\ \E d \in branch.files :
         /\ d.env = e
         /\ run' = [run EXCEPT ![r] = Run("read", e, d.at, EmptyTree)]
    /\ UNCHANGED <<now, branch, pending, late>>

\* The predecessor is the head, or there is neither: a new document.
PrepareNew(r) ==
    /\ run[r].stage = "prepare"
    /\ r \notin Archived(branch)
    /\ branch.head = Previous[r]
    /\ ClosedAt[r] <= now
    /\ run' = [run EXCEPT ![r] = Run("read", run[r].env, now, EmptyTree)]
    /\ UNCHANGED <<now, branch, pending, late>>

\* Bug: a predecessor that is not archived yet is as bad as a stale one.
MustWaitNever(r) == FALSE

\* The predecessor is not archived yet.
MustWait(r) == Previous[r] # None /\ Previous[r] \notin Archived(branch)

\* The root is archived with another envelope, or something else follows its
\* predecessor.
PrepareRefused(r) ==
    /\ run[r].stage = "prepare"
    /\ ~Holds(branch, run[r].env)
    /\ r \in Archived(branch) \/ (branch.head # Previous[r] /\ ~MustWait(r))
    /\ Goto(r, "refused")
    /\ UNCHANGED <<now, branch, pending, late>>

\* The batch has not closed: no run prepares its root.
PrepareTooEarly(r) ==
    /\ run[r].stage = "prepare"
    /\ Holds(branch, run[r].env) \/ (r \notin Archived(branch) /\ branch.head = Previous[r])
    /\ now < ClosedAt[r]
    /\ Goto(r, "failed")
    /\ UNCHANGED <<now, branch, pending, late>>

\* Bug: the bound is counted from the last poll.
GiveUpNever(r) == FALSE /\ UNCHANGED vars

\* Polling for the predecessor, or retrying a failed read, ends at the bound.
GiveUp(r) ==
    /\ run[r].stage = "prepare"
    /\ run[r].at + PrepareTimeout <= now
    /\ Goto(r, "failed")
    /\ UNCHANGED <<now, branch, pending, late>>

ReadArchived(r) ==
    /\ run[r].stage = "read"
    /\ Holds(branch, run[r].env)
    /\ Goto(r, "check")
    /\ UNCHANGED <<now, branch, pending, late>>

\* Bug: the head is not compared with the predecessor.
ExtendsAnything(r) == r \notin Archived(branch)

Extends(r) == r \notin Archived(branch) /\ branch.head = Previous[r]

ReadNew(r) ==
    /\ run[r].stage = "read"
    /\ Extends(r)
    /\ run' = [run EXCEPT ![r] = Run("write", run[r].env, run[r].at, branch)]
    /\ UNCHANGED <<now, branch, pending, late>>

ReadRefused(r) ==
    /\ run[r].stage = "read"
    /\ ~Holds(branch, run[r].env) /\ ~Extends(r)
    /\ Goto(r, "refused")
    /\ UNCHANGED <<now, branch, pending, late>>

RunDoc(r) == Doc(run[r].env, run[r].at)

\* The update is applied; if its answer is lost, the run fails all the same.
Write(r) ==
    /\ run[r].stage = "write"
    /\ FastForward(run[r].base)
    /\ branch' = Appended(run[r].base, RunDoc(r))
    /\ \/ Goto(r, "check")
       \/ Goto(r, "failed")
    /\ UNCHANGED <<now, pending, late>>

WriteConflict(r) ==
    /\ run[r].stage = "write"
    /\ branch # run[r].base
    /\ Goto(r, "recover")
    /\ UNCHANGED <<now, branch, pending, late>>

\* The request times out and is still on its way.
WriteDelayed(r) ==
    /\ Cardinality(late) < MaxLate
    /\ run[r].stage = "write"
    /\ late' = late \cup {[doc |-> RunDoc(r), base |-> run[r].base]}
    /\ Goto(r, "failed")
    /\ UNCHANGED <<now, branch, pending>>

\* A delayed update reaches GitHub, which applies it or refuses it.
Land(l) ==
    /\ late' = late \ {l}
    /\ branch' = IF FastForward(l.base) THEN Appended(l.base, l.doc) ELSE branch
    /\ UNCHANGED <<now, pending, run>>

\* Bug: any conflict is taken for a replay of the same root.
RecoverAlways(r) ==
    /\ run[r].stage = "recover"
    /\ Goto(r, "check")
    /\ UNCHANGED <<now, branch, pending, late>>

\* Another writer got there first, possibly with the same root.
Recover(r) ==
    /\ run[r].stage = "recover"
    /\ \/ Holds(branch, run[r].env) /\ Goto(r, "check")
       \/ ~Holds(branch, run[r].env) /\ Goto(r, "refused")
    /\ UNCHANGED <<now, branch, pending, late>>

InTime(r) == now < Deadline[r]

\* The deadline is enforced before the attestation and again after it.
Check(r) ==
    /\ run[r].stage = "check"
    /\ \/ InTime(r) /\ Goto(r, "attest")
       \/ ~InTime(r) /\ Goto(r, "failed")
    /\ UNCHANGED <<now, branch, pending, late>>

Attest(r) ==
    /\ run[r].stage = "attest"
    /\ Goto(r, "confirm")
    /\ UNCHANGED <<now, branch, pending, late>>

\* Bug: an attestation that began in time counts whenever it completes.
ConfirmAnyTime(r) ==
    /\ run[r].stage = "confirm"
    /\ Goto(r, "success")
    /\ UNCHANGED <<now, branch, pending, late>>

Confirm(r) ==
    /\ run[r].stage = "confirm"
    /\ \/ InTime(r) /\ Goto(r, "success")
       \/ ~InTime(r) /\ Goto(r, "failed")
    /\ UNCHANGED <<now, branch, pending, late>>

\* A request fails, a job runs into its time limit, or somebody cancels the run.
Break(r) ==
    /\ run[r].stage \in Active
    /\ Goto(r, "failed")
    /\ UNCHANGED <<now, branch, pending, late>>

Tick ==
    /\ now < MaxTime
    /\ now' = now + 1
    /\ UNCHANGED <<branch, pending, run, late>>

-----------------------------------------------------------------------------

\* Each of these steps brings a run nearer to its end.
RunStep(r) ==
    \/ PrepareReplay(r) \/ PrepareNew(r) \/ PrepareRefused(r) \/ PrepareTooEarly(r)
    \/ GiveUp(r)
    \/ ReadArchived(r) \/ ReadNew(r) \/ ReadRefused(r)
    \/ Write(r) \/ WriteConflict(r) \/ WriteDelayed(r) \/ Recover(r)
    \/ Check(r) \/ Attest(r) \/ Confirm(r)

ArchiveStep ==
    \/ \E r \in Roots : StartRun(r) \/ RunStep(r) \/ Break(r)
    \/ \E l \in late : Land(l)
    \/ Tick

Next == ArchiveStep \/ \E e \in Replayed : Dispatch(e)

Spec == Init /\ [][Next]_vars

\* Time passes, and GitHub works through the steps of a run it has started.
FairSpec == Spec /\ WF_vars(Tick) /\ \A r \in Roots : WF_vars(RunStep(r))

-----------------------------------------------------------------------------
(* Properties *)

\* The archive is a linked, append-only chain, whatever runs race each other,
\* however often a root is replayed and whatever becomes of a lost update.
Chain == INSTANCE RootChain WITH
    RootOf <- DocRoot,
    PredecessorOf <- DocPrevious,
    archived <- branch.files,
    last <- branch.head

ChainRefined == Chain!ChainSpec

\* No two archived documents name the same predecessor (nor, then, the same
\* root), each predecessor is archived, and everything before the head is
\* followed by something: the branch can be walked from its head to one genesis.
OneChain ==
    /\ \A d1, d2 \in branch.files :
         DocPrevious(d1) = DocPrevious(d2) => d1 = d2
    /\ \A d \in branch.files : DocPrevious(d) \in Archived(branch) \cup {None}
    /\ \A r \in Archived(branch) :
         r = branch.head \/ \E d \in branch.files : DocPrevious(d) = r

\* Another document has the name or the place of this envelope's.
Blocked(tree, e) ==
    \E d \in tree.files : d.env # e /\ DocPrevious(d) = Previous[e.root]

\* A run that refuses its envelope for what the chain holds is right for ever:
\* the envelope is not archived, even by a rival or a delayed update, and the
\* place it asks for is taken by another one.
RefusalIsFinal ==
    \A r \in Roots :
        run[r].stage = "refused" =>
            /\ Blocked(branch, run[r].env)
            /\ ~Holds(branch, run[r].env)

\* A place that is taken stays taken.
BlockedForGood == [][\A e \in Replayed : Blocked(branch, e) => Blocked(branch, e)']_vars

\* A run succeeds only before the deadline of its root, and by then the
\* envelope is archived.
ReceiptIsTimely ==
    [][\A r \in Roots :
         run[r].stage # "success" /\ run'[r].stage = "success" =>
             now < Deadline[r] /\ Holds(branch, run[r].env)]_vars

\* What is attested is what is archived, bit for bit: the document of a run
\* past its archive job, with its time of verification, is on the branch.  It
\* holds as long as no update lands late: then the branch may hold the same
\* envelope with an earlier time.
AttestedIsArchived ==
    \A r \in Roots :
        run[r].stage \in {"check", "attest", "confirm", "success"} =>
            RunDoc(r) \in branch.files

\* Every run comes to an end, also one whose predecessor never arrives.
EveryRunEnds ==
    \A r \in Roots : run[r].stage \in Active ~> run[r].stage \in Over
=============================================================================
