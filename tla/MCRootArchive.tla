---------------------------- MODULE MCRootArchive ----------------------------
(* Values for model-checking RootArchive: a genesis, its successor, a rival  *)
(* of that successor, and the successor again from another revision.         *)
EXTENDS RootArchive, TLC

CONSTANTS genesis, next, fork

MCPrevious == (genesis :> None) @@ (next :> genesis) @@ (fork :> genesis)
MCClosedAt == (genesis :> 0) @@ (next :> 0) @@ (fork :> 1)
MCDeadline == (genesis :> 1) @@ (next :> 2) @@ (fork :> 2)

Envelope(r, revision) == [root |-> r, revision |-> revision]

MCReplayed == {Envelope(genesis, 1), Envelope(next, 1), Envelope(next, 2), Envelope(fork, 1)}
=============================================================================
