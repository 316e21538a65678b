------------------------------ MODULE RootChain ------------------------------
(***************************************************************************)
(* What the durable archive of ledger roots promises: it only grows, by    *)
(* one document at a time, each naming as its predecessor the root that    *)
(* was appended just before.                                               *)
(***************************************************************************)
CONSTANTS
    Documents,
    RootOf(_),         \* the root a document is about
    PredecessorOf(_),  \* the root that root names, None for a genesis
    None

VARIABLES
    archived,  \* documents of the archive
    last       \* root appended last, None before the first

chainVars == <<archived, last>>

ChainInit ==
    /\ archived = {}
    /\ last = None

Append(d) ==
    /\ \A old \in archived : RootOf(old) # RootOf(d)
    /\ PredecessorOf(d) = last
    /\ archived' = archived \cup {d}
    /\ last' = RootOf(d)

ChainNext == \E d \in Documents : Append(d)

ChainSpec == ChainInit /\ [][ChainNext]_chainVars
=============================================================================
