---------------------------- MODULE RootPublisher ----------------------------
(***************************************************************************)
(* publishLedgerRoot (deploy/root-publisher/index.ts), which reads the     *)
(* archive and then dispatches a root, together with the workflow runs of  *)
(* RootArchive that change the archive between its reads.                  *)
(*                                                                         *)
(* Each read asks for a file of the branch as it is then, not of one       *)
(* commit.  The switches and credentials it checks first are taken as set. *)
(* The timer that aborts its requests is the possibility of Abort.         *)
(***************************************************************************)
EXTENDS RootArchive

CONSTANT Publishers

VARIABLE call  \* what each publisher is doing

publisherVars == <<vars, call>>

NoCall == [stage |-> "none"]

CallStages == {"root", "head", "predecessor", "post",
               "accepted", "retryable", "expired", "rejected", "refused"}

Calls == {NoCall} \cup [stage: CallStages, env: Envelopes]

Calling == {"root", "head", "predecessor", "post"}

PublisherTypeOK == TypeOK /\ call \in [Publishers -> Calls]

PublisherInit == Init /\ call = [p \in Publishers |-> NoCall]

To(p, stage) == call' = [call EXCEPT ![p] = [stage |-> stage, env |-> call[p].env]]

\* A call begins, or is made again; the deadline is checked first.
Publish(p, e) ==
    /\ call[p].stage \notin Calling
    /\ call' = [call EXCEPT ![p] =
                 [stage |-> IF InTime(e.root) THEN "root" ELSE "expired", env |-> e]]
    /\ UNCHANGED vars

\* An exact archived root is dispatched again, whatever the head is.
ReadRoot(p) ==
    LET e == call[p].env IN
    /\ call[p].stage = "root"
    /\ \/ Holds(branch, e) /\ To(p, "post")
       \/ e.root \in Archived(branch) /\ ~Holds(branch, e) /\ To(p, "refused")
       \/ e.root \notin Archived(branch) /\ To(p, "head")
    /\ UNCHANGED vars

\* Bug: an archive without a head lets any root through.
ReadHeadOrNone(p) ==
    LET previous == Previous[call[p].env.root] IN
    /\ call[p].stage = "head"
    /\ \/ branch.head \in {previous, None} /\ To(p, "post")
       \/ branch.head \notin {previous, None} /\ previous = None /\ To(p, "refused")
       \/ branch.head \notin {previous, None} /\ previous # None /\ To(p, "predecessor")
    /\ UNCHANGED vars

\* A genesis needs an empty archive, any other root its predecessor as head.
ReadHead(p) ==
    LET previous == Previous[call[p].env.root] IN
    /\ call[p].stage = "head"
    /\ \/ branch.head = previous /\ To(p, "post")
       \/ branch.head # previous /\ previous = None /\ To(p, "refused")
       \/ branch.head = None /\ previous # None /\ To(p, "retryable")
       \/ branch.head \notin {previous, None} /\ previous # None /\ To(p, "predecessor")
    /\ UNCHANGED vars

\* The head is another root: stale if the predecessor is archived, else early.
ReadPredecessor(p) ==
    LET archived == Previous[call[p].env.root] \in Archived(branch) IN
    /\ call[p].stage = "predecessor"
    /\ \/ archived /\ To(p, "refused")
       \/ ~archived /\ To(p, "retryable")
    /\ UNCHANGED vars

\* GitHub takes the dispatch; its answer may be lost.
Post(p) ==
    /\ call[p].stage = "post"
    /\ Dispatch(call[p].env)
    /\ To(p, "accepted") \/ To(p, "retryable")

\* A request fails, times out, or is answered with an error status.
Abort(p) ==
    /\ call[p].stage \in Calling
    /\ To(p, "retryable") \/ To(p, "rejected")
    /\ UNCHANGED vars

PublisherStep(p) ==
    \/ \E e \in Replayed : Publish(p, e)
    \/ ReadRoot(p) \/ ReadHead(p) \/ ReadPredecessor(p) \/ Post(p) \/ Abort(p)

\* Operators dispatch envelopes, too.
PublisherNext ==
    \/ Next /\ UNCHANGED call
    \/ \E p \in Publishers : PublisherStep(p)

PublisherSpec == PublisherInit /\ [][PublisherNext]_publisherVars

\* The fairness of RootArchive.
FairPublisherSpec ==
    PublisherSpec /\ WF_publisherVars(Tick /\ UNCHANGED call)
                  /\ \A r \in Roots : WF_publisherVars(RunStep(r) /\ UNCHANGED call)

-----------------------------------------------------------------------------
(* Properties *)

\* A root is refused for good or dispatched only once its predecessor is archived
\* (or it is a genesis): one that merely comes early can be sent again, and the run
\* of one that is dispatched finds the chain ready and does not poll for long.
VerdictIsNotEarly ==
    \A p \in Publishers :
        call[p].stage \in {"refused", "post", "accepted"} =>
            Previous[call[p].env.root] \in Archived(branch) \cup {None}

\* "durable root chain already has a genesis" (index.ts:211), "advanced past
\* this predecessor" (index.ts:245): a root is refused for good because another
\* one took its place.  Root, head and predecessor are read one after the other
\* from the moving branch: a root archived after the first read, or one whose
\* predecessor is archived after the second, is refused all the same.
RefusedIsOutOfPlace ==
    \A p \in Publishers :
        call[p].stage = "refused" =>
            Blocked(branch, call[p].env) /\ ~Holds(branch, call[p].env)
=============================================================================
