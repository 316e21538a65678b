--------------------------- MODULE MCRootPublisher ---------------------------
(* Values for model-checking RootPublisher: a genesis, its successor, and    *)
(* the root after it.                                                        *)
EXTENDS RootPublisher, TLC

CONSTANTS genesis, next, third

LinkTo == (genesis :> None) @@ (next :> genesis) @@ (third :> next)
MCPrevious == [r \in Roots |-> LinkTo[r]]
MCTimes == [r \in Roots |-> 0]
\* Every root once, and the successor of the genesis from another revision.
MCReplayed == [root: Roots, revision: {1}] \cup {[root |-> next, revision |-> r] : r \in Revisions}
MCDeadline == [r \in Roots |-> 1]
=============================================================================
