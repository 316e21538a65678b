---------------------------- MODULE SnapshotRecord ----------------------------
(***************************************************************************)
(* What the ledger asks of a snapshot it is to record: insertSnapshot of   *)
(* modules/ledger/in-memory.ts, before it looks for the snapshot among its *)
(* own.  The texts and digests of the sources are taken to be in order.    *)
(***************************************************************************)
EXTENDS Integers

\* insertSnapshot: what a snapshot is made of was there when it was fetched,
\* and that was before its knowledge cutoff.
SnapshotIsPast(r) ==
    /\ r.cutoff <= r.knowledge /\ r.fetched <= r.knowledge /\ r.updated <= r.fetched
    /\ r.sources # {}
    /\ \A s \in r.sources : s.available <= r.knowledge /\ s.available <= r.fetched
    /\ \A s, t \in r.sources : s.name = t.name /\ s.revision = t.revision => s = t
=============================================================================
