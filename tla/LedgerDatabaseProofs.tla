-------------------------- MODULE LedgerDatabaseProofs --------------------------
(***************************************************************************)
(* Proofs about the PostgreSQL ledger, for any number of sessions,         *)
(* forecasts, picks, jobs and attempts: first the forecasts alone, then    *)
(* the log of jobs, whose clock may be set back as often as one likes, the *)
(* visitors, and both beside the forecasts' transactions.                  *)
(*                                                                         *)
(* The three invariants have the same shape: a part about the rows         *)
(* committed, a part about each session, and a part about the rows that    *)
(* each two sessions have inserted and not committed.  Only a commit       *)
(* changes the rows; every other step changes one session, and leaves the  *)
(* invariant to be shown for it alone and for its pairs with the others.   *)
(***************************************************************************)
EXTENDS LedgerDatabase, FiniteSetTheorems, TLAPS

-----------------------------------------------------------------------------
(* The forecasts: their invariant *)

\* What a correction extends: the original outcome and the one it replaces.
Extends(r) ==
    /\ \E c \in committed : c.op = "resolve" /\ c.f = r.f
    /\ \E c \in committed : HasOutcome(c) /\ c.f = r.f /\ c.out = r.corrects

RowsOK ==
    /\ \A c, d \in committed : c # d =>
           ~SameForecast(c, d) /\ ~SameEvent(c, d) /\ ~SameOutcome(c, d)
    /\ \A c \in committed : ~IsPublication(c) => PublicationOf(c.f) # {}
    /\ \A c \in committed : c.op = "correct" => Extends(c)
    /\ OneActiveOutcome

\* Rows in progress clash with no committed row, and their triggers stay true.
SessionOK(s) ==
    LET r == call[s].req
    IN  /\ call[s].stage = "insert" => IsPublication(r) /\ call[s].lock = "none"
        /\ call[s].stage = "lock" => ~IsPublication(r) /\ call[s].lock = "none"
        /\ call[s].stage \in {"look", "key"} => ~IsPublication(r)
        /\ call[s].stage = "outcome" => HasOutcome(r)
        /\ InsertedForecast(s) => \A c \in committed : ~SameForecast(r, c)
        /\ InsertedEvent(s) =>
             /\ \A c \in committed : ~SameEvent(r, c)
             /\ ~IsPublication(r) => PublicationOf(r.f) # {}
        /\ InsertedOutcome(s) =>
             /\ \A c \in committed : ~SameOutcome(r, c)
             /\ r.op = "correct" => Extends(r)
        /\ call[s].retry =>
             /\ r \in committed
             /\ call[s].stage \in {"insert", "lock", "look", "replayed"}

\* Rows in progress clash with none of another session; locks exclude.
PairOK(s, t) ==
    /\ InsertedForecast(s) /\ InsertedForecast(t) => ~SameForecast(call[s].req, call[t].req)
    /\ InsertedEvent(s) /\ InsertedEvent(t) => ~SameEvent(call[s].req, call[t].req)
    /\ InsertedOutcome(s) /\ InsertedOutcome(t) => ~SameOutcome(call[s].req, call[t].req)
    /\ call[s].lock = "update" /\ SameRow(s, t) => call[t].lock = "none"

LedgerInv ==
    /\ TypeOK
    /\ RowsOK
    /\ \A s \in Sessions : SessionOK(s)
    /\ \A s, t \in Sessions : s # t => PairOK(s, t)

-----------------------------------------------------------------------------
(* Types *)

LEMMA RequestFields ==
    ASSUME NEW r \in Requests
    PROVE  /\ r.op \in {"publish", "resolve", "void", "correct"}
           /\ r.f \in Forecasts
           /\ HasOutcome(r) => r.out \in OutcomeIds
  BY RequestsAssumption DEF Publication, Resolution, Voiding, Correction, HasOutcome

LEMMA CallTypes ==
    ASSUME TypeOK, NEW s \in Sessions, call[s] # Idle
    PROVE  /\ call[s] = CallOf(call[s].req, call[s].stage, call[s].lock, call[s].retry)
           /\ call[s].req \in Requests /\ call[s].stage \in Stages
           /\ call[s].lock \in {"none", "share", "update"} /\ call[s].retry \in BOOLEAN
  BY DEF TypeOK, Calls, CallOf

LEMMA MadeCall ==
    ASSUME NEW r \in Requests, NEW stage \in Stages, NEW lock \in {"none", "share", "update"},
           NEW retry \in BOOLEAN
    PROVE  CallOf(r, stage, lock, retry) \in Calls
  BY DEF CallOf, Calls

\* A step of a session that is in progress, and leaves the rows alone.
LEMMA Moved ==
    ASSUME TypeOK, NEW s \in Sessions, call[s].stage # "idle",
           NEW stage \in Stages, NEW lock \in {"none", "share", "update"},
           Took(s, stage, lock)
    PROVE  /\ call' \in [Sessions -> Calls]
           /\ call'[s].req = call[s].req /\ call'[s].stage = stage
           /\ call'[s].lock = lock /\ call'[s].retry = call[s].retry
           /\ \A t \in Sessions : t # s => call'[t] = call[t]
<1>1. call[s] # Idle
  BY DEF Idle
<1>2. CallOf(call[s].req, stage, lock, call[s].retry) \in Calls
  BY <1>1, CallTypes, MadeCall
<1>3. QED
  BY <1>2 DEF Took, TypeOK, CallOf

LEMMA Went ==
    ASSUME TypeOK, NEW s \in Sessions, call[s].stage # "idle", NEW stage \in Stages,
           Goto(s, stage)
    PROVE  /\ Took(s, stage, call[s].lock)
           /\ call[s].lock \in {"none", "share", "update"}
<1>1. call[s] # Idle
  BY DEF Idle
<1>2. QED
  BY <1>1, CallTypes DEF Goto, Took

-----------------------------------------------------------------------------
(* Steps that leave the rows alone *)

\* If a step changes one session, the others keep what holds of them.
LEMMA OneSession ==
    ASSUME LedgerInv, NEW s \in Sessions, UNCHANGED committed,
           call' \in [Sessions -> Calls],
           \A t \in Sessions : t # s => call'[t] = call[t],
           SessionOK(s)',
           \A t \in Sessions : t # s => PairOK(s, t)' /\ PairOK(t, s)'
    PROVE  LedgerInv'
<1>1. TypeOK'
  BY DEF LedgerInv, TypeOK
<1>2. RowsOK'
  BY DEF LedgerInv, RowsOK, PublicationOf, Extends, OneActiveOutcome, StatusOf, ActiveOutcomes,
         TerminalOf, Superseded
<1>3. ASSUME NEW t \in Sessions PROVE SessionOK(t)'
  <2>1. CASE t = s
    BY <2>1
  <2>2. CASE t # s
    BY <2>2 DEF LedgerInv, SessionOK, InsertedForecast, InsertedEvent, InsertedOutcome,
                PublicationOf, Extends
  <2>3. QED
    BY <2>1, <2>2
<1>4. ASSUME NEW t \in Sessions, NEW u \in Sessions, t # u PROVE PairOK(t, u)'
  <2>1. CASE t = s \/ u = s
    BY <1>4, <2>1
  <2>2. CASE t # s /\ u # s
    BY <1>4, <2>2 DEF LedgerInv, PairOK, InsertedForecast, InsertedEvent, InsertedOutcome, SameRow
  <2>3. QED
    BY <2>1, <2>2
<1>5. QED
  BY <1>1, <1>2, <1>3, <1>4 DEF LedgerInv

\* A call that ends: it has no rows in progress and no lock.
LEMMA Ended ==
    ASSUME LedgerInv, NEW s \in Sessions, call[s].stage # "idle", UNCHANGED committed,
           NEW answer \in {"replayed", "refused"}, End(s, answer),
           call[s].retry => answer = "replayed"
    PROVE  LedgerInv'
<1>1. TypeOK
  BY DEF LedgerInv
<1>2. Took(s, answer, "none") /\ answer \in Stages
  BY DEF End, Stages
<1>3. /\ call' \in [Sessions -> Calls]
      /\ call'[s].req = call[s].req /\ call'[s].stage = answer
      /\ call'[s].lock = "none" /\ call'[s].retry = call[s].retry
      /\ \A t \in Sessions : t # s => call'[t] = call[t]
  BY <1>1, <1>2, Moved
<1>4. SessionOK(s)'
  BY <1>3 DEF LedgerInv, SessionOK, InsertedForecast, InsertedEvent, InsertedOutcome
<1>5. \A t \in Sessions : t # s => PairOK(s, t)' /\ PairOK(t, s)'
  BY <1>3 DEF PairOK, InsertedForecast, InsertedEvent, InsertedOutcome
<1>6. QED
  BY <1>3, <1>4, <1>5, OneSession

LEMMA BackToIdle ==
    ASSUME LedgerInv, NEW s \in Sessions, UNCHANGED committed, call' = [call EXCEPT ![s] = Idle]
    PROVE  LedgerInv'
<1>1. call' \in [Sessions -> Calls] /\ call'[s] = Idle /\ \A t \in Sessions : t # s => call'[t] = call[t]
  BY DEF LedgerInv, TypeOK, Calls
<1>2. SessionOK(s)'
  BY <1>1 DEF SessionOK, InsertedForecast, InsertedEvent, InsertedOutcome, Idle
<1>3. \A t \in Sessions : t # s => PairOK(s, t)' /\ PairOK(t, s)'
  BY <1>1 DEF PairOK, InsertedForecast, InsertedEvent, InsertedOutcome, Idle
<1>4. QED
  BY <1>1, <1>2, <1>3, OneSession

LEMMA BeginStep ==
    ASSUME LedgerInv, NEW s \in Sessions, NEW r \in Requests, Begin(s, r)
    PROVE  LedgerInv'
<1> DEFINE first == IF IsPublication(r) THEN "insert" ELSE "lock"
<1> DEFINE known == r \in committed
<1>1. CallOf(r, first, "none", known) \in Calls
  <2>1. known \in BOOLEAN /\ first \in Stages /\ "none" \in {"none", "share", "update"}
    BY DEF Stages
  <2>2. QED
    BY <2>1, MadeCall
<1>2. /\ call' \in [Sessions -> Calls] /\ UNCHANGED committed
      /\ call'[s].req = r /\ call'[s].stage = first /\ call'[s].lock = "none"
      /\ call'[s].retry => r \in committed
      /\ \A t \in Sessions : t # s => call'[t] = call[t]
  <2>1. UNCHANGED committed /\ call' = [call EXCEPT ![s] = CallOf(r, first, "none", known)]
    BY DEF Begin
  <2>2. call' \in [Sessions -> Calls] /\ call'[s] = CallOf(r, first, "none", known)
    BY <1>1, <2>1 DEF LedgerInv, TypeOK
  <2>3. CASE known
    BY <2>1, <2>2, <2>3 DEF CallOf, LedgerInv, TypeOK
  <2>4. CASE ~known
    <3>1. known = FALSE
      BY <2>4
    <3>2. call'[s] = CallOf(r, first, "none", FALSE)
      BY <2>2, <3>1
    <3>3. QED
      BY <2>1, <2>2, <3>2 DEF CallOf, LedgerInv, TypeOK
  <2>5. QED
    BY <2>3, <2>4
<1>3. SessionOK(s)'
  BY <1>2 DEF SessionOK, InsertedForecast, InsertedEvent, InsertedOutcome, IsPublication
<1>4. \A t \in Sessions : t # s => PairOK(s, t)' /\ PairOK(t, s)'
  BY <1>2 DEF PairOK, InsertedForecast, InsertedEvent, InsertedOutcome
<1>5. QED
  BY <1>2, <1>3, <1>4, OneSession

LEMMA InsertForecastStep ==
    ASSUME LedgerInv, NEW s \in Sessions, InsertForecast(s)
    PROVE  LedgerInv'
<1> DEFINE r == call[s].req
           keyed == {c \in committed : IsPublication(c) /\ c.key = r.key}
<1>1. /\ call[s].stage = "insert" /\ call[s].stage # "idle" /\ UNCHANGED committed
      /\ ~\E t \in Others(s) : WaitsToInsertForecast(s, t)
  BY DEF InsertForecast
<1>2. IsPublication(r) /\ call[s].lock = "none" /\ (call[s].retry => r \in committed)
  BY <1>1 DEF LedgerInv, SessionOK
<1>3. CASE keyed # {} /\ End(s, IF r \in keyed THEN "replayed" ELSE "refused")
  BY <1>1, <1>2, <1>3, Ended
<1>4. CASE keyed = {} /\ End(s, "refused")
  BY <1>1, <1>2, <1>4, Ended
<1>5. CASE (~\E c \in committed : SameForecast(r, c)) /\ Goto(s, "event")
  <2>1. TypeOK /\ "event" \in Stages
    BY DEF LedgerInv, Stages
  <2>2. Took(s, "event", "none")
    BY <1>1, <1>2, <1>5, <2>1, Went
  <2>3. /\ call' \in [Sessions -> Calls]
        /\ call'[s].req = r /\ call'[s].stage = "event"
        /\ call'[s].lock = "none" /\ call'[s].retry = call[s].retry
        /\ \A t \in Sessions : t # s => call'[t] = call[t]
    BY <1>1, <2>1, <2>2, Moved
  <2>4. ~call[s].retry
    BY <1>2, <1>5 DEF SameForecast
  <2>5. SessionOK(s)'
    BY <1>1, <1>2, <1>5, <2>3, <2>4 DEF SessionOK, InsertedForecast, InsertedEvent, InsertedOutcome,
       HasOutcome
  <2>6. ASSUME NEW t \in Sessions, t # s PROVE PairOK(s, t)' /\ PairOK(t, s)'
    <3>1. InsertedForecast(t) => ~SameForecast(r, call[t].req)
      <4>1. InsertedForecast(t) => t \in Others(s)
        BY <2>6 DEF Others, InsertedForecast, Idle
      <4>2. ~\E c \in committed : IsPublication(c) /\ c.key = r.key
        BY <1>2, <1>5 DEF SameForecast
      <4>3. QED
        BY <1>1, <4>1, <4>2 DEF WaitsToInsertForecast
    <3>2. InsertedForecast(t)' <=> InsertedForecast(t)
      BY <2>3, <2>6 DEF InsertedForecast
    <3>3. ~InsertedEvent(s)' /\ ~InsertedOutcome(s)'
      BY <2>3 DEF InsertedEvent, InsertedOutcome
    <3>4. QED
      BY <2>3, <2>6, <3>1, <3>2, <3>3 DEF PairOK, SameForecast
  <2>7. QED
    BY <1>1, <2>3, <2>5, <2>6, OneSession
<1>6. QED
  BY <1>3, <1>4, <1>5 DEF InsertForecast

LEMMA LockForecastStep ==
    ASSUME LedgerInv, NEW s \in Sessions, LockForecast(s)
    PROVE  LedgerInv'
<1> DEFINE r == call[s].req
           lock == IF PublicationOf(r.f) # {} THEN "update" ELSE "none"
<1>1. /\ call[s].stage = "lock" /\ call[s].stage # "idle" /\ UNCHANGED committed
      /\ ~\E t \in Others(s) : WaitsToLock(s, t)
      /\ Took(s, "look", lock)
  BY DEF LockForecast
<1>2. TypeOK /\ "look" \in Stages /\ lock \in {"none", "share", "update"}
  BY DEF LedgerInv, Stages
<1>3. /\ call' \in [Sessions -> Calls]
      /\ call'[s].req = r /\ call'[s].stage = "look"
      /\ call'[s].lock = lock /\ call'[s].retry = call[s].retry
      /\ \A t \in Sessions : t # s => call'[t] = call[t]
  BY <1>1, <1>2, Moved
<1>4. ~IsPublication(r) /\ (call[s].retry => r \in committed)
  BY <1>1 DEF LedgerInv, SessionOK
<1>5. SessionOK(s)'
  BY <1>1, <1>3, <1>4 DEF SessionOK, InsertedForecast, InsertedEvent, InsertedOutcome
<1>6. ASSUME NEW t \in Sessions, t # s PROVE PairOK(s, t)' /\ PairOK(t, s)'
  <2>1. lock = "update" /\ SameRow(s, t) => call[t].lock = "none"
    <3>1. call[t].lock # "none" => t \in Others(s)
      BY <1>6 DEF Others, Idle
    <3>2. QED
      BY <1>1, <3>1 DEF WaitsToLock
  <2>2. call[t].lock = "update" /\ SameRow(t, s) => lock = "none"
    BY <2>1 DEF SameRow
  <2>3. QED
    BY <1>3, <1>6, <2>1, <2>2 DEF PairOK, InsertedForecast, InsertedEvent, InsertedOutcome, SameRow
<1>7. QED
  BY <1>1, <1>3, <1>5, <1>6, OneSession

LEMMA LookForReplayStep ==
    ASSUME LedgerInv, NEW s \in Sessions, LookForReplay(s)
    PROVE  LedgerInv'
<1> DEFINE r == call[s].req
           event == {c \in committed : c.ev = r.ev}
           outcome == {c \in committed : HasOutcome(r) /\ HasOutcome(c) /\ c.out = r.out}
<1>1. call[s].stage = "look" /\ call[s].stage # "idle" /\ UNCHANGED committed
  BY DEF LookForReplay
<1>2. ~IsPublication(r) /\ (call[s].retry => r \in event /\ (HasOutcome(r) => r \in outcome))
  BY <1>1 DEF LedgerInv, SessionOK
<1>3. CASE event = {} /\ outcome = {} /\ Goto(s, "event")
  <2>1. TypeOK /\ "event" \in Stages
    BY DEF LedgerInv, Stages
  <2>2. Took(s, "event", call[s].lock) /\ call[s].lock \in {"none", "share", "update"}
    BY <1>1, <1>3, <2>1, Went
  <2>3. /\ call' \in [Sessions -> Calls]
        /\ call'[s].req = r /\ call'[s].stage = "event"
        /\ call'[s].lock = call[s].lock /\ call'[s].retry = call[s].retry
        /\ \A t \in Sessions : t # s => call'[t] = call[t]
    BY <1>1, <2>1, <2>2, Moved
  <2>4. ~call[s].retry
    BY <1>2, <1>3
  <2>5. SessionOK(s)'
    BY <1>2, <2>3, <2>4 DEF SessionOK, InsertedForecast, InsertedEvent, InsertedOutcome, IsPublication
  <2>6. ASSUME NEW t \in Sessions, t # s PROVE PairOK(s, t)' /\ PairOK(t, s)'
    <3>1. ~InsertedForecast(s)' /\ ~InsertedEvent(s)' /\ ~InsertedOutcome(s)'
      BY <1>2, <2>3 DEF InsertedForecast, InsertedEvent, InsertedOutcome, IsPublication
    <3>2. QED
      BY <2>3, <2>6, <3>1 DEF LedgerInv, PairOK, SameRow
  <2>7. QED
    BY <1>1, <2>3, <2>5, <2>6, OneSession
<1>4. CASE r \in event /\ (HasOutcome(r) => r \in outcome) /\ End(s, "replayed")
  BY <1>1, <1>4, Ended
<1>5. CASE ~(r \in event /\ (HasOutcome(r) => r \in outcome)) /\ End(s, "refused")
  BY <1>1, <1>2, <1>5, Ended
<1>6. QED
  BY <1>3, <1>4, <1>5 DEF LookForReplay

LEMMA InsertEventStep ==
    ASSUME LedgerInv, NEW s \in Sessions, InsertEvent(s)
    PROVE  LedgerInv'
<1> DEFINE r == call[s].req
           next == IF IsPublication(r) THEN "commit" ELSE "key"
<1>1. call[s].stage = "event" /\ call[s].stage # "idle" /\ UNCHANGED committed /\ ~call[s].retry
  BY DEF InsertEvent, LedgerInv, SessionOK
<1>2. CASE End(s, "refused")
  BY <1>1, <1>2, Ended
<1>3. CASE /\ EventIsValid(r) /\ ~\E c \in committed : SameEvent(r, c)
           /\ ~\E t \in Others(s) : WaitsToInsertEvent(s, t)
           /\ Goto(s, next)
  <2>1. TypeOK /\ next \in Stages
    BY DEF LedgerInv, Stages
  <2>2. Took(s, next, call[s].lock) /\ call[s].lock \in {"none", "share", "update"}
    BY <1>1, <1>3, <2>1, Went
  <2>3. /\ call' \in [Sessions -> Calls]
        /\ call'[s].req = r /\ call'[s].stage = next
        /\ call'[s].lock = call[s].lock /\ call'[s].retry = call[s].retry
        /\ \A t \in Sessions : t # s => call'[t] = call[t]
    BY <1>1, <2>1, <2>2, Moved
  <2>4. ~IsPublication(r) => PublicationOf(r.f) # {}
    BY <1>3 DEF EventIsValid
  <2>5. ~IsPublication(r)' => PublicationOf(r.f)' # {}
    BY <1>1, <2>3, <2>4 DEF PublicationOf
  <2>6. InsertedForecast(s)' <=> InsertedForecast(s)
    BY <1>1, <2>3 DEF InsertedForecast
  <2>7. ~InsertedOutcome(s)'
    BY <2>3 DEF InsertedOutcome, HasOutcome, IsPublication
  <2>8. SessionOK(s)'
    BY <1>1, <1>3, <2>3, <2>4, <2>5, <2>6, <2>7 DEF LedgerInv, SessionOK
  <2>9. ASSUME NEW t \in Sessions, t # s PROVE PairOK(s, t)' /\ PairOK(t, s)'
    <3>1. InsertedEvent(t) => ~SameEvent(r, call[t].req)
      <4>1. InsertedEvent(t) => t \in Others(s)
        BY <2>9 DEF Others, InsertedEvent, Idle
      <4>2. QED
        BY <1>3, <4>1 DEF WaitsToInsertEvent
    <3>2. /\ InsertedForecast(t)' <=> InsertedForecast(t)
          /\ InsertedEvent(t)' <=> InsertedEvent(t)
      BY <2>3, <2>9 DEF InsertedForecast, InsertedEvent
    <3>3. PairOK(s, t) /\ PairOK(t, s)
      BY <2>9 DEF LedgerInv
    <3>4. QED
      BY <2>3, <2>6, <2>7, <2>9, <3>1, <3>2, <3>3 DEF PairOK, SameEvent, SameRow
  <2>10. QED
    BY <1>1, <2>3, <2>8, <2>9, OneSession
<1>4. QED
  BY <1>2, <1>3 DEF InsertEvent

LEMMA ShareForecastStep ==
    ASSUME LedgerInv, NEW s \in Sessions, ShareForecast(s)
    PROVE  LedgerInv'
<1> DEFINE r == call[s].req
           next == IF HasOutcome(r) THEN "outcome" ELSE "commit"
           lock == IF call[s].lock = "update" THEN "update" ELSE "share"
<1>1. /\ call[s].stage = "key" /\ call[s].stage # "idle" /\ UNCHANGED committed /\ ~call[s].retry
      /\ ~\E t \in Others(s) : WaitsForKey(s, t)
      /\ Took(s, next, lock) /\ ~IsPublication(r)
  BY DEF ShareForecast, LedgerInv, SessionOK
<1>2. TypeOK /\ next \in Stages /\ lock \in {"none", "share", "update"}
  BY DEF LedgerInv, Stages
<1>3. /\ call' \in [Sessions -> Calls]
      /\ call'[s].req = r /\ call'[s].stage = next
      /\ call'[s].lock = lock /\ call'[s].retry = call[s].retry
      /\ \A t \in Sessions : t # s => call'[t] = call[t]
  BY <1>1, <1>2, Moved
<1>4. /\ ~InsertedForecast(s)' /\ ~InsertedOutcome(s)' /\ InsertedEvent(s)' /\ InsertedEvent(s)
  BY <1>1, <1>3 DEF InsertedForecast, InsertedOutcome, InsertedEvent
<1>5. SessionOK(s)'
  BY <1>1, <1>3, <1>4 DEF LedgerInv, SessionOK, PublicationOf
<1>6. ASSUME NEW t \in Sessions, t # s PROVE PairOK(s, t)' /\ PairOK(t, s)'
  <2>1. PairOK(s, t) /\ PairOK(t, s)
    BY <1>6 DEF LedgerInv
  <2>2. lock = "update" => call[s].lock = "update"
    OBVIOUS
  <2>3. SameRow(t, s) => call[t].lock # "update"
    <3>1. call[t].lock = "update" => t \in Others(s)
      BY <1>6 DEF Others, Idle
    <3>2. QED
      BY <1>1, <3>1 DEF WaitsForKey, SameRow
  <2>4. InsertedEvent(t)' <=> InsertedEvent(t)
    BY <1>3, <1>6 DEF InsertedEvent
  <2>5. QED
    BY <1>3, <1>4, <1>6, <2>1, <2>2, <2>3, <2>4 DEF PairOK, SameRow
<1>7. QED
  BY <1>1, <1>3, <1>5, <1>6, OneSession

\* The outcome a correction replaces belongs to a chain with an original.
LEMMA ValidExtends ==
    ASSUME RowsOK, NEW r \in Requests, r.op = "correct", OutcomeIsValid(r)
    PROVE  Extends(r)
<1>1. PICK c \in committed : HasOutcome(c) /\ c.out = r.corrects /\ c.f = r.f
  BY DEF OutcomeIsValid
<1>2. CASE c.op = "resolve"
  BY <1>1, <1>2 DEF Extends
<1>3. CASE c.op = "correct"
  <2>1. Extends(c)
    BY <1>3 DEF RowsOK
  <2>2. QED
    BY <1>1, <2>1 DEF Extends
<1>4. QED
  BY <1>1, <1>2, <1>3 DEF HasOutcome

LEMMA InsertOutcomeStep ==
    ASSUME LedgerInv, NEW s \in Sessions, InsertOutcome(s)
    PROVE  LedgerInv'
<1> DEFINE r == call[s].req
<1>1. /\ call[s].stage = "outcome" /\ call[s].stage # "idle" /\ UNCHANGED committed
      /\ ~call[s].retry /\ HasOutcome(r) /\ ~IsPublication(r)
  BY DEF InsertOutcome, LedgerInv, SessionOK, HasOutcome, IsPublication
<1>2. CASE End(s, "refused")
  BY <1>1, <1>2, Ended
<1>3. CASE /\ OutcomeIsValid(r) /\ ~\E c \in committed : SameOutcome(r, c)
           /\ ~\E t \in Others(s) : WaitsToInsertOutcome(s, t)
           /\ Goto(s, "commit")
  <2>1. TypeOK /\ "commit" \in Stages
    BY DEF LedgerInv, Stages
  <2>2. Took(s, "commit", call[s].lock) /\ call[s].lock \in {"none", "share", "update"}
    BY <1>1, <1>3, <2>1, Went
  <2>3. /\ call' \in [Sessions -> Calls]
        /\ call'[s].req = r /\ call'[s].stage = "commit"
        /\ call'[s].lock = call[s].lock /\ call'[s].retry = call[s].retry
        /\ \A t \in Sessions : t # s => call'[t] = call[t]
    BY <1>1, <2>1, <2>2, Moved
  <2>4. r \in Requests
    <3>1. call[s] # Idle
      BY <1>1 DEF Idle
    <3>2. QED
      BY <2>1, <3>1, CallTypes
  <2>5. r.op = "correct" => Extends(r)
    BY <1>3, <2>4, ValidExtends DEF LedgerInv
  <2>6. ~InsertedForecast(s)' /\ InsertedEvent(s)' /\ InsertedEvent(s)
    BY <1>1, <2>3 DEF InsertedForecast, InsertedEvent
  <2>7. SessionOK(s)'
    BY <1>1, <1>3, <2>3, <2>5, <2>6 DEF LedgerInv, SessionOK, PublicationOf, Extends, InsertedOutcome
  <2>8. ASSUME NEW t \in Sessions, t # s PROVE PairOK(s, t)' /\ PairOK(t, s)'
    <3>1. InsertedOutcome(t) => ~SameOutcome(r, call[t].req)
      <4>1. InsertedOutcome(t) => t \in Others(s)
        BY <2>8 DEF Others, InsertedOutcome, Idle
      <4>2. QED
        BY <1>3, <4>1 DEF WaitsToInsertOutcome
    <3>2. /\ InsertedOutcome(t)' <=> InsertedOutcome(t)
          /\ InsertedEvent(t)' <=> InsertedEvent(t)
      BY <2>3, <2>8 DEF InsertedOutcome, InsertedEvent
    <3>3. PairOK(s, t) /\ PairOK(t, s)
      BY <2>8 DEF LedgerInv
    <3>4. QED
      BY <2>3, <2>6, <2>8, <3>1, <3>2, <3>3 DEF PairOK, SameOutcome, SameRow
  <2>9. QED
    BY <1>1, <2>3, <2>7, <2>8, OneSession
<1>4. QED
  BY <1>2, <1>3 DEF InsertOutcome

\* A retry waits only before it has a lock or a row, so nobody waits for it.
LEMMA RetryNotDeadlocked ==
    ASSUME LedgerInv, NEW s \in Sessions, call[s].retry, NEW t \in Sessions
    PROVE  ~Deadlocked(s, t)
<1>1. SUFFICES ASSUME Deadlocked(s, t) PROVE FALSE
  OBVIOUS
<1>2. /\ call[s].req \in committed
      /\ call[s].stage \in {"insert", "lock", "look", "replayed"}
      /\ call[s].stage \in {"insert", "lock"} => call[s].lock = "none"
      /\ call[s].stage = "insert" => IsPublication(call[s].req)
  BY DEF LedgerInv, SessionOK
<1>3. call[s].stage \in {"insert", "lock"}
  BY <1>1, <1>2 DEF Deadlocked, WaitsFor
<1>4. ~InsertedForecast(s) /\ ~InsertedEvent(s) /\ ~InsertedOutcome(s) /\ call[s].lock = "none"
  BY <1>2, <1>3 DEF InsertedForecast, InsertedEvent, InsertedOutcome
<1>5. WaitsFor(t, s)
  BY <1>1 DEF Deadlocked
<1>6. QED
  BY <1>4, <1>5 DEF WaitsFor, WaitsToInsertForecast, WaitsToLock, WaitsToInsertEvent, WaitsForKey,
                    WaitsToInsertOutcome

LEMMA BreakDeadlockStep ==
    ASSUME LedgerInv, NEW s \in Sessions, BreakDeadlock(s)
    PROVE  LedgerInv'
<1>1. ~call[s].retry
  BY RetryNotDeadlocked DEF BreakDeadlock
<1>2. call[s].stage # "idle" /\ UNCHANGED committed /\ End(s, "refused")
  BY DEF BreakDeadlock, Deadlocked, WaitsFor, InProgress, Stages
<1>3. QED
  BY <1>1, <1>2, Ended

-----------------------------------------------------------------------------
(* A request whose rows become visible *)

\* What SessionOK says of a session about to commit r.
Ready(r) ==
    /\ \A c \in committed : ~SameForecast(r, c) /\ ~SameEvent(r, c) /\ ~SameOutcome(r, c)
    /\ ~IsPublication(r) => PublicationOf(r.f) # {}
    /\ r.op = "correct" => Extends(r)

Outcomes(f) == {c.out : c \in {d \in committed : HasOutcome(d) /\ d.f = f}}

LEMMA ActiveIsOutcomesLeft ==
    ASSUME NEW f
    PROVE  ActiveOutcomes(f) = Outcomes(f) \ Superseded
  BY DEF ActiveOutcomes, Outcomes

\* Only outcomes that were committed are ever corrected.
LEMMA SupersededKnown ==
    ASSUME RowsOK, NEW o \in Superseded
    PROVE  \E c \in committed : HasOutcome(c) /\ c.out = o
<1>1. PICK d \in committed : d.op = "correct" /\ d.corrects = o
  BY DEF Superseded
<1>2. QED
  BY <1>1 DEF RowsOK, Extends

\* A forecast with outcomes was resolved.
LEMMA OutcomeNeedsResolution ==
    ASSUME RowsOK, committed \subseteq Requests, NEW f, Outcomes(f) # {}
    PROVE  \E c \in committed : c.op = "resolve" /\ c.f = f
<1>1. PICK d \in committed : HasOutcome(d) /\ d.f = f
  BY DEF Outcomes
<1>2. QED
  BY <1>1 DEF RowsOK, Extends, HasOutcome

LEMMA CommitPublication ==
    ASSUME RowsOK, committed \subseteq Requests, NEW r \in Requests, Ready(r),
           r.op = "publish", committed' = committed \cup {r}
    PROVE  /\ StatusOf(r.f) = "absent" /\ StatusOf(r.f)' = "published"
           /\ \A f : f # r.f => StatusOf(f)' = StatusOf(f)
           /\ \A f : ActiveOutcomes(f)' = ActiveOutcomes(f)
           /\ Superseded' = Superseded
<1>1. PublicationOf(r.f) = {}
  BY DEF Ready, PublicationOf, SameForecast, IsPublication
<1>2. TerminalOf(r.f) = {}
  BY <1>1 DEF RowsOK, TerminalOf, IsTerminal, IsPublication
<1>3. /\ \A f : TerminalOf(f)' = TerminalOf(f)
      /\ \A f : f # r.f => PublicationOf(f)' = PublicationOf(f)
      /\ r \in PublicationOf(r.f)'
  BY DEF TerminalOf, PublicationOf, IsTerminal, IsPublication
<1>4. Superseded' = Superseded
  BY DEF Superseded
<1>5. \A f : ActiveOutcomes(f)' = ActiveOutcomes(f)
  BY <1>4 DEF ActiveOutcomes, HasOutcome
<1>6. QED
  BY <1>1, <1>2, <1>3, <1>4, <1>5 DEF StatusOf

LEMMA CommitVoiding ==
    ASSUME RowsOK, committed \subseteq Requests, NEW r \in Requests, Ready(r),
           r.op = "void", committed' = committed \cup {r}
    PROVE  /\ StatusOf(r.f) = "published" /\ StatusOf(r.f)' = "void"
           /\ \A f : f # r.f => StatusOf(f)' = StatusOf(f)
           /\ \A f : ActiveOutcomes(f)' = ActiveOutcomes(f)
           /\ Superseded' = Superseded
<1>1. PublicationOf(r.f) # {} /\ TerminalOf(r.f) = {}
  BY DEF Ready, TerminalOf, SameEvent, IsTerminal, IsPublication
<1>2. /\ \A f : PublicationOf(f)' = PublicationOf(f)
      /\ \A f : f # r.f => TerminalOf(f)' = TerminalOf(f)
      /\ TerminalOf(r.f)' = {r}
  BY <1>1 DEF TerminalOf, PublicationOf, IsTerminal, IsPublication
<1>3. Superseded' = Superseded
  BY DEF Superseded
<1>4. \A f : ActiveOutcomes(f)' = ActiveOutcomes(f)
  BY <1>3 DEF ActiveOutcomes, HasOutcome
<1>5. QED
  BY <1>1, <1>2, <1>3, <1>4 DEF StatusOf

LEMMA CommitResolution ==
    ASSUME RowsOK, committed \subseteq Requests, NEW r \in Requests, Ready(r),
           r.op = "resolve", committed' = committed \cup {r}
    PROVE  /\ StatusOf(r.f) = "published" /\ StatusOf(r.f)' = "resolved"
           /\ \A f : f # r.f => StatusOf(f)' = StatusOf(f)
           /\ ActiveOutcomes(r.f)' = {r.out}
           /\ \A f : f # r.f => ActiveOutcomes(f)' = ActiveOutcomes(f)
           /\ Superseded' = Superseded
           /\ r.out \notin Superseded /\ \A f : r.out \notin ActiveOutcomes(f)
<1>1. PublicationOf(r.f) # {} /\ TerminalOf(r.f) = {}
  BY DEF Ready, TerminalOf, SameEvent, IsTerminal, IsPublication
<1>2. /\ \A f : PublicationOf(f)' = PublicationOf(f)
      /\ \A f : f # r.f => TerminalOf(f)' = TerminalOf(f)
      /\ TerminalOf(r.f)' = {r}
  BY <1>1 DEF TerminalOf, PublicationOf, IsTerminal, IsPublication
<1>3. Superseded' = Superseded
  BY DEF Superseded
<1>4. \A c \in committed : HasOutcome(c) => c.out # r.out
  BY DEF Ready, SameOutcome, HasOutcome
<1>5. r.out \notin Superseded /\ \A f : r.out \notin Outcomes(f)
  BY <1>4, SupersededKnown DEF Outcomes
<1>6. Outcomes(r.f) = {}
  BY <1>1, OutcomeNeedsResolution DEF TerminalOf, IsTerminal
<1>7. Outcomes(r.f)' = {r.out} /\ \A f : f # r.f => Outcomes(f)' = Outcomes(f)
  BY <1>6 DEF Outcomes, HasOutcome
<1>8. /\ ActiveOutcomes(r.f)' = {r.out}
      /\ \A f : f # r.f => ActiveOutcomes(f)' = ActiveOutcomes(f)
      /\ \A f : r.out \notin ActiveOutcomes(f)
  BY <1>3, <1>5, <1>7 DEF ActiveOutcomes, Outcomes
<1>9. QED
  BY <1>1, <1>2, <1>3, <1>5, <1>8 DEF StatusOf

LEMMA CommitCorrection ==
    ASSUME RowsOK, committed \subseteq Requests, NEW r \in Requests, Ready(r),
           r.op = "correct", committed' = committed \cup {r}
    PROVE  /\ StatusOf(r.f) = "resolved"
           /\ \A f : StatusOf(f)' = StatusOf(f)
           /\ ActiveOutcomes(r.f) = {r.corrects} /\ ActiveOutcomes(r.f)' = {r.out}
           /\ \A f : f # r.f => ActiveOutcomes(f)' = ActiveOutcomes(f)
           /\ Superseded' = Superseded \cup {r.corrects}
           /\ r.out \notin Superseded /\ \A f : r.out \notin ActiveOutcomes(f)
<1>1. Extends(r)
  BY DEF Ready
<1>2. /\ \A f : PublicationOf(f)' = PublicationOf(f)
      /\ \A f : TerminalOf(f)' = TerminalOf(f)
  BY DEF TerminalOf, PublicationOf, IsTerminal, IsPublication
<1>3. StatusOf(r.f) = "resolved" /\ \A f : StatusOf(f)' = StatusOf(f)
  BY <1>1, <1>2 DEF StatusOf, Extends, TerminalOf, IsTerminal
<1>4. Superseded' = Superseded \cup {r.corrects}
  BY DEF Superseded
<1>5. \A c \in committed : HasOutcome(c) => c.out # r.out
  BY DEF Ready, SameOutcome, HasOutcome
<1>6. r.out \notin Superseded /\ \A f : r.out \notin Outcomes(f)
  BY <1>5, SupersededKnown DEF Outcomes
<1>7. r.corrects \notin Superseded
  BY DEF Ready, SameOutcome, Superseded, HasOutcome
<1>8. r.corrects \in Outcomes(r.f) /\ \A f : f # r.f => r.corrects \notin Outcomes(f)
  <2>1. PICK c \in committed : HasOutcome(c) /\ c.f = r.f /\ c.out = r.corrects
    BY <1>1 DEF Extends
  <2>2. \A d \in committed : HasOutcome(d) /\ d.out = r.corrects => d = c
    BY <2>1 DEF RowsOK, SameOutcome
  <2>3. QED
    BY <2>1, <2>2 DEF Outcomes
<1>9. ActiveOutcomes(r.f) = {r.corrects}
  <2>1. r.corrects \in ActiveOutcomes(r.f)
    BY <1>7, <1>8, ActiveIsOutcomesLeft
  <2>2. r.f \in Forecasts
    BY RequestFields
  <2>3. QED
    BY <1>3, <2>1, <2>2 DEF RowsOK, OneActiveOutcome
<1>10. /\ Outcomes(r.f)' = Outcomes(r.f) \cup {r.out}
       /\ \A f : f # r.f => Outcomes(f)' = Outcomes(f)
  BY DEF Outcomes, HasOutcome
<1>11. ActiveOutcomes(r.f)' = {r.out}
  <2>1. ActiveOutcomes(r.f)' = Outcomes(r.f)' \ Superseded'
    BY DEF ActiveOutcomes, Outcomes
  <2>2. Outcomes(r.f) \ Superseded = {r.corrects}
    BY <1>9, ActiveIsOutcomesLeft
  <2>3. QED
    BY <1>4, <1>6, <1>8, <1>10, <2>1, <2>2
<1>12. \A f : f # r.f => ActiveOutcomes(f)' = ActiveOutcomes(f)
  BY <1>4, <1>8, <1>10 DEF ActiveOutcomes, Outcomes
<1>13. \A f : r.out \notin ActiveOutcomes(f)
  BY <1>6 DEF ActiveOutcomes, Outcomes
<1>14. QED
  BY <1>3, <1>4, <1>6, <1>9, <1>11, <1>12, <1>13

\* Each forecast keeps its one active outcome, or gets it with its resolution.
LEMMA CommitKeepsOneActive ==
    ASSUME RowsOK, committed \subseteq Requests, NEW r \in Requests, Ready(r),
           committed' = committed \cup {r}
    PROVE  OneActiveOutcome'
<1>1. r.op \in {"publish", "resolve", "void", "correct"} /\ r.f \in Forecasts
      /\ (HasOutcome(r) => r.out \in OutcomeIds)
  BY RequestFields
<1>2. OneActiveOutcome
  BY DEF RowsOK
<1>3. CASE r.op = "publish"
  BY <1>1, <1>2, <1>3, CommitPublication DEF OneActiveOutcome
<1>4. CASE r.op = "void"
  BY <1>1, <1>2, <1>4, CommitVoiding DEF OneActiveOutcome
<1>5. CASE r.op = "resolve"
  BY <1>1, <1>2, <1>5, CommitResolution DEF OneActiveOutcome, HasOutcome
<1>6. CASE r.op = "correct"
  BY <1>1, <1>2, <1>6, CommitCorrection DEF OneActiveOutcome, HasOutcome
<1>7. QED
  BY <1>1, <1>3, <1>4, <1>5, <1>6

LEMMA CommitKeepsRows ==
    ASSUME RowsOK, committed \subseteq Requests, NEW r \in Requests, Ready(r),
           committed' = committed \cup {r}
    PROVE  RowsOK'
<1>1. \A c, d \in committed' : c # d => ~SameForecast(c, d) /\ ~SameEvent(c, d) /\ ~SameOutcome(c, d)
  BY DEF RowsOK, Ready, SameForecast, SameEvent, SameOutcome
<1>2. \A f : PublicationOf(f) \subseteq PublicationOf(f)'
  BY DEF PublicationOf
<1>3. \A c \in committed' : ~IsPublication(c) => PublicationOf(c.f)' # {}
  BY <1>2 DEF RowsOK, Ready
<1>4. \A c \in committed' : c.op = "correct" => Extends(c)'
  BY DEF RowsOK, Ready, Extends
<1>5. QED
  BY <1>1, <1>3, <1>4, CommitKeepsOneActive DEF RowsOK

LEMMA ReadyAtCommit ==
    ASSUME LedgerInv, NEW s \in Sessions, call[s].stage = "commit"
    PROVE  /\ call[s].req \in Requests /\ committed \subseteq Requests
           /\ Ready(call[s].req) /\ ~call[s].retry
<1>1. call[s] # Idle
  BY DEF Idle
<1>2. InsertedEvent(s)
  BY DEF InsertedEvent
<1>3. SessionOK(s)
  BY DEF LedgerInv
<1>4. call[s].req \in Requests /\ committed \subseteq Requests
  BY <1>1, CallTypes DEF LedgerInv, TypeOK
<1>5. IsPublication(call[s].req) => InsertedForecast(s)
  BY DEF InsertedForecast
<1>6. HasOutcome(call[s].req) => InsertedOutcome(s)
  BY DEF InsertedOutcome
<1>7. ~call[s].retry
  BY <1>3 DEF SessionOK
<1>8. \A c \in committed : /\ ~SameForecast(call[s].req, c)
                           /\ ~SameEvent(call[s].req, c)
                           /\ ~SameOutcome(call[s].req, c)
  BY <1>2, <1>3, <1>5, <1>6 DEF SessionOK, SameForecast, SameOutcome
<1>9. ~IsPublication(call[s].req) => PublicationOf(call[s].req.f) # {}
  BY <1>2, <1>3 DEF SessionOK
<1>10. call[s].req.op = "correct" => Extends(call[s].req)
  BY <1>3, <1>6 DEF SessionOK, HasOutcome
<1>11. QED
  BY <1>4, <1>7, <1>8, <1>9, <1>10 DEF Ready

LEMMA CommitStep ==
    ASSUME LedgerInv, NEW s \in Sessions, Commit(s)
    PROVE  LedgerInv'
<1> DEFINE r == call[s].req
<1>1. call[s].stage = "commit" /\ committed' = committed \cup {r} /\ Took(s, "created", "none")
  BY DEF Commit, End
<1>2. /\ r \in Requests /\ committed \subseteq Requests /\ Ready(r) /\ ~call[s].retry
      /\ RowsOK /\ TypeOK
  BY <1>1, ReadyAtCommit DEF LedgerInv
<1>3. /\ call' \in [Sessions -> Calls]
      /\ call'[s].req = r /\ call'[s].stage = "created"
      /\ call'[s].lock = "none" /\ call'[s].retry = call[s].retry
      /\ \A t \in Sessions : t # s => call'[t] = call[t]
  <2>1. "created" \in Stages
    BY DEF Stages
  <2>2. QED
    BY <1>1, <1>2, <2>1, Moved
<1>4. TypeOK'
  BY <1>1, <1>2, <1>3 DEF TypeOK
<1>5. RowsOK'
  BY <1>1, <1>2, CommitKeepsRows
<1>6. SessionOK(s)'
  BY <1>2, <1>3 DEF SessionOK, InsertedForecast, InsertedEvent, InsertedOutcome
<1>7. ASSUME NEW t \in Sessions, t # s PROVE SessionOK(t)'
  <2>1. SessionOK(t) /\ PairOK(t, s)
    BY <1>7 DEF LedgerInv
  <2>2. /\ InsertedForecast(t)' <=> InsertedForecast(t)
        /\ InsertedEvent(t)' <=> InsertedEvent(t)
        /\ InsertedOutcome(t)' <=> InsertedOutcome(t)
        /\ call'[t] = call[t]
    BY <1>3, <1>7 DEF InsertedForecast, InsertedEvent, InsertedOutcome
  <2>3. InsertedForecast(t) => \A c \in committed' : ~SameForecast(call[t].req, c)
    <3>1. IsPublication(r) => InsertedForecast(s)
      BY <1>1 DEF InsertedForecast
    <3>2. InsertedForecast(t) => ~SameForecast(call[t].req, r)
      BY <2>1, <3>1 DEF PairOK, SameForecast
    <3>3. QED
      BY <1>1, <2>1, <3>2 DEF SessionOK
  <2>4. InsertedEvent(t) => \A c \in committed' : ~SameEvent(call[t].req, c)
    <3>1. InsertedEvent(s)
      BY <1>1 DEF InsertedEvent
    <3>2. QED
      BY <1>1, <2>1, <3>1 DEF PairOK, SessionOK
  <2>5. InsertedOutcome(t) => \A c \in committed' : ~SameOutcome(call[t].req, c)
    <3>1. HasOutcome(r) => InsertedOutcome(s)
      BY <1>1 DEF InsertedOutcome
    <3>2. InsertedOutcome(t) => ~SameOutcome(call[t].req, r)
      BY <2>1, <3>1 DEF PairOK, SameOutcome
    <3>3. QED
      BY <1>1, <2>1, <3>2 DEF SessionOK
  <2>6. InsertedEvent(t) /\ ~IsPublication(call[t].req) => PublicationOf(call[t].req.f)' # {}
    BY <1>1, <2>1, <2>2 DEF SessionOK, PublicationOf
  <2>7. InsertedOutcome(t) /\ call[t].req.op = "correct" => Extends(call[t].req)'
    BY <1>1, <2>1, <2>2 DEF SessionOK, Extends
  <2>8. QED
    BY <1>1, <2>1, <2>2, <2>3, <2>4, <2>5, <2>6, <2>7 DEF SessionOK
<1>8. ASSUME NEW t \in Sessions, NEW u \in Sessions, t # u PROVE PairOK(t, u)'
  <2>1. PairOK(t, u)
    BY <1>8 DEF LedgerInv
  <2>2. CASE t = s
    BY <1>3, <1>8, <2>2 DEF PairOK, InsertedForecast, InsertedEvent, InsertedOutcome
  <2>3. CASE u = s
    BY <1>3, <1>8, <2>3 DEF PairOK, InsertedForecast, InsertedEvent, InsertedOutcome
  <2>4. CASE t # s /\ u # s
    BY <1>3, <2>1, <2>4 DEF PairOK, InsertedForecast, InsertedEvent, InsertedOutcome, SameRow
  <2>5. QED
    BY <2>2, <2>3, <2>4
<1>9. QED
  BY <1>4, <1>5, <1>6, <1>7, <1>8 DEF LedgerInv

-----------------------------------------------------------------------------
(* The invariant holds *)

LEMMA LedgerInit == Init => LedgerInv
<1>1. SUFFICES ASSUME Init PROVE LedgerInv
  OBVIOUS
<1>2. TypeOK /\ \A s \in Sessions : call[s] = Idle
  BY <1>1 DEF Init, TypeOK, Calls
<1>3. RowsOK
  BY <1>1 DEF Init, RowsOK, OneActiveOutcome, StatusOf, ActiveOutcomes, TerminalOf, PublicationOf
<1>4. \A s \in Sessions : SessionOK(s)
  BY <1>2 DEF Idle, SessionOK, InsertedForecast, InsertedEvent, InsertedOutcome
<1>5. \A s, t \in Sessions : s # t => PairOK(s, t)
  BY <1>2 DEF Idle, PairOK, InsertedForecast, InsertedEvent, InsertedOutcome
<1>6. QED
  BY <1>2, <1>3, <1>4, <1>5 DEF LedgerInv

LEMMA LedgerStep == LedgerInv /\ [Next]_vars => LedgerInv'
<1>1. SUFFICES ASSUME LedgerInv, [Next]_vars PROVE LedgerInv'
  OBVIOUS
<1>2. ASSUME NEW s \in Sessions, NEW r \in Requests, Begin(s, r) PROVE LedgerInv'
  BY <1>1, <1>2, BeginStep
<1>3. ASSUME NEW s \in Sessions, Step(s) PROVE LedgerInv'
  BY <1>1, <1>3, InsertForecastStep, LockForecastStep, LookForReplayStep, InsertEventStep,
     ShareForecastStep, InsertOutcomeStep, CommitStep, BreakDeadlockStep DEF Step
<1>4. ASSUME NEW s \in Sessions, Answered(s) PROVE LedgerInv'
  BY <1>1, <1>4, BackToIdle DEF Answered
<1>5. ASSUME NEW s \in Sessions, Lose(s) PROVE LedgerInv'
  BY <1>1, <1>5, BackToIdle DEF Lose
<1>6. CASE UNCHANGED vars
  <2>1. TypeOK'
    BY <1>1, <1>6 DEF vars, LedgerInv, TypeOK
  <2>2. RowsOK'
    BY <1>1, <1>6 DEF vars, LedgerInv, RowsOK, PublicationOf, Extends, OneActiveOutcome, StatusOf,
       ActiveOutcomes, TerminalOf, Superseded
  <2>3. \A s \in Sessions : SessionOK(s)'
    BY <1>1, <1>6 DEF vars, LedgerInv, SessionOK, InsertedForecast, InsertedEvent, InsertedOutcome,
       PublicationOf, Extends
  <2>4. \A s, t \in Sessions : s # t => PairOK(s, t)'
    BY <1>1, <1>6 DEF vars, LedgerInv, PairOK, InsertedForecast, InsertedEvent, InsertedOutcome, SameRow
  <2>5. QED
    BY <2>1, <2>2, <2>3, <2>4 DEF LedgerInv
<1>7. QED
  BY <1>1, <1>2, <1>3, <1>4, <1>5, <1>6 DEF Next

LEMMA LedgerAlways == Spec => []LedgerInv
  BY LedgerInit, LedgerStep, PTL DEF Spec

\* The database holds requests that were made and sessions are where they can be.
THEOREM LedgerTypes == Spec => []TypeOK
<1>1. LedgerInv => TypeOK
  BY DEF LedgerInv
<1>2. QED
  BY <1>1, LedgerAlways, PTL

\* A resolved forecast always has exactly one active outcome and any other none,
\* whatever corrections race.
THEOREM OneActiveOutcomeHolds == Spec => []OneActiveOutcome
<1>1. LedgerInv => OneActiveOutcome
  BY DEF LedgerInv, RowsOK
<1>2. QED
  BY <1>1, LedgerAlways, PTL

\* A request that was committed before is answered as a replay.
THEOREM RetryIsReplayedHolds == Spec => []RetryIsReplayed
<1>1. LedgerInv => RetryIsReplayed
  BY DEF LedgerInv, SessionOK, RetryIsReplayed
<1>2. QED
  BY <1>1, LedgerAlways, PTL

\* Two sessions that hold their forecast's row cannot both wait: at the event one
\* waits for a row of the other, which is past its event, and not for its lock.
LEMMA LockedCallsDoNotDeadlock ==
    ASSUME LedgerInv, NEW s \in Sessions, NEW t \in Sessions, Deadlocked(s, t),
           call[s].lock # "none", call[t].lock # "none"
    PROVE  FALSE
<1>1. s # t /\ PairOK(s, t) /\ PairOK(t, s) /\ SessionOK(s) /\ SessionOK(t)
  BY DEF Deadlocked, WaitsFor, Others, LedgerInv
<1>2. WaitsFor(s, t) /\ WaitsFor(t, s)
  BY DEF Deadlocked
<1>3. call[s].stage \in {"event", "key", "outcome"} /\ call[t].stage \in {"event", "key", "outcome"}
  BY <1>1, <1>2 DEF WaitsFor, SessionOK
<1>4. ~InsertedOutcome(s) /\ ~InsertedOutcome(t)
  BY <1>3 DEF InsertedOutcome
<1>5. ~WaitsForKey(s, t) /\ ~WaitsForKey(t, s)
  BY <1>1 DEF WaitsForKey, PairOK, SameRow
<1>6. call[s].stage = "event" /\ call[t].stage = "event"
  BY <1>2, <1>3, <1>4, <1>5 DEF WaitsFor, WaitsToInsertOutcome
<1>7. QED
  BY <1>2, <1>6 DEF WaitsFor, WaitsToInsertEvent, InsertedEvent

\* Calls for published forecasts never deadlock with each other: only a call that
\* began before the publication was committed can.
THEOREM DeadlockNeedsEarlyCallHolds == Spec => []DeadlockNeedsEarlyCall
<1>1. LedgerInv => DeadlockNeedsEarlyCall
  BY LockedCallsDoNotDeadlock DEF DeadlockNeedsEarlyCall
<1>2. QED
  BY <1>1, LedgerAlways, PTL

-----------------------------------------------------------------------------
(* The ledger implements the history of each forecast *)

statusNow == [f \in Forecasts |-> StatusOf(f)]
inForceNow == [f \in Forecasts |-> ActiveOutcomes(f)]

LEMMA SameRowsSameHistory ==
    ASSUME UNCHANGED committed
    PROVE  UNCHANGED <<statusNow, inForceNow, Superseded>>
<1>1. \A f : StatusOf(f)' = StatusOf(f) /\ ActiveOutcomes(f)' = ActiveOutcomes(f)
  BY DEF StatusOf, ActiveOutcomes, TerminalOf, PublicationOf, Superseded
<1>2. QED
  BY <1>1 DEF statusNow, inForceNow, Superseded

LEMMA CommitIsHistoryStep ==
    ASSUME LedgerInv, NEW s \in Sessions, Commit(s)
    PROVE  History!HistoryNext
<1> DEFINE r == call[s].req
<1>1. committed' = committed \cup {r} /\ call[s].stage = "commit"
  BY DEF Commit
<1>2. r \in Requests /\ committed \subseteq Requests /\ Ready(r) /\ RowsOK
  BY <1>1, ReadyAtCommit DEF LedgerInv
<1>3. r.op \in {"publish", "resolve", "void", "correct"} /\ r.f \in Forecasts
      /\ (HasOutcome(r) => r.out \in OutcomeIds)
  BY <1>2, RequestFields
<1>4. CASE r.op = "publish"
  <2>1. History!Published(r.f)
    BY <1>1, <1>2, <1>3, <1>4, CommitPublication DEF History!Published
  <2>2. QED
    BY <1>3, <2>1 DEF History!HistoryNext
<1>5. CASE r.op = "void"
  <2>1. History!Voided(r.f)
    BY <1>1, <1>2, <1>3, <1>5, CommitVoiding DEF History!Voided
  <2>2. QED
    BY <1>3, <2>1 DEF History!HistoryNext
<1>6. CASE r.op = "resolve"
  <2>1. History!Resolved(r.f, r.out)
    BY <1>1, <1>2, <1>3, <1>6, CommitResolution DEF History!Resolved, History!Fresh
  <2>2. QED
    BY <1>3, <1>6, <2>1 DEF History!HistoryNext, HasOutcome
<1>7. CASE r.op = "correct"
  <2>1. History!Corrected(r.f, r.out)
    BY <1>1, <1>2, <1>3, <1>7, CommitCorrection DEF History!Corrected, History!Fresh
  <2>2. QED
    BY <1>3, <1>7, <2>1 DEF History!HistoryNext, HasOutcome
<1>8. QED
  BY <1>3, <1>4, <1>5, <1>6, <1>7

\* However calls interleave, are lost or sent again, each forecast goes through
\* published and then resolved or void, and corrections replace the outcome in
\* force one at a time.
THEOREM HistoryImplemented == Spec => HistoryRefined
<1>1. Init => History!HistoryInit
  BY DEF Init, History!HistoryInit, StatusOf, ActiveOutcomes, TerminalOf, PublicationOf, Superseded
<1>2. LedgerInv /\ [Next]_vars => [History!HistoryNext]_History!historyVars
  <2>1. SUFFICES ASSUME LedgerInv, [Next]_vars PROVE [History!HistoryNext]_History!historyVars
    OBVIOUS
  <2>2. CASE UNCHANGED committed
    BY <2>2, SameRowsSameHistory DEF History!historyVars, statusNow, inForceNow
  <2>3. ASSUME NEW s \in Sessions, Commit(s) PROVE History!HistoryNext
    BY <2>1, <2>3, CommitIsHistoryStep
  <2>4. UNCHANGED committed \/ \E s \in Sessions : Commit(s)
    BY <2>1 DEF Next, Step, vars, Begin, InsertForecast, LockForecast, LookForReplay, InsertEvent,
       ShareForecast, InsertOutcome, BreakDeadlock, Answered, Lose
  <2>5. QED
    BY <2>2, <2>3, <2>4
<1>3. QED
  BY <1>1, <1>2, LedgerAlways, PTL DEF Spec, HistoryRefined, History!HistorySpec

-----------------------------------------------------------------------------
(* The log of jobs: its invariant *)

TaskStages == {"advise", "lock", "look", "again", "insert", "parent", "append", "key", "scheduled",
               "commit"} \cup TaskAnswers

StagesOf(r) ==
    TaskAnswers \cup
    CASE r.op = "operation" -> {"advise", "look", "insert", "parent", "commit"}
      [] r.op = "attempt" -> {"lock", "look", "again", "append", "key", "scheduled", "commit"}
      [] r.op = "report" -> {"lock", "look", "again", "append", "commit"}

Sent == [stage: TaskStages, req: Tasks, held: BOOLEAN, place: Nat, retry: BOOLEAN]

NotesSent == {NoteOf(r) : r \in {x \in Tasks : x.op # "operation"}}
AttemptsSent == {AttemptOf(r) : r \in {x \in Tasks : x.op = "attempt"}}

LogTypes ==
    /\ attempts \subseteq AttemptsSent
    /\ timeline \in [AttemptIds -> Seq(NotesSent)]
    /\ task \in [Clerks -> Sent \cup {Free}]

\* The committed rows: an event says that its attempt was scheduled and, if it is
\* an end, evaluated; no two clash.
LogRows ==
    /\ \A a \in AttemptIds : \A i \in DOMAIN timeline[a] : timeline[a][i].attempt = a
    /\ \A x, y \in Notes : SameNote(x, y) => x = y
    /\ \A x \in Notes :
          /\ NoteThere(x.attempt, "scheduled")
          /\ x.status \in Ends => NoteThere(x.attempt, "evaluating")
    /\ \A x, y \in attempts : SameAttempt(x, y) => x = y
    /\ \A x \in attempts : NoteThere(x.id, "scheduled") /\ IsOperation(x.op)
    /\ LatestIsLast

\* The try before this one failed.
FailedBefore(x) ==
    x.number > 1 =>
        \E y \in attempts : y.op = x.op /\ y.number = x.number - 1 /\ NoteThere(y.id, "failed")

\* It has inserted an attempt, or an event.
Scheduling(t) == t.stage \in {"key", "scheduled", "commit"} /\ t.req.op = "attempt"
Noting(t) == t.stage = "commit" /\ t.req.op # "operation"

\* The rows a session has inserted clash with none committed, and what let it
\* insert them is still so; a request that was there is recognised.
TaskOK(t) ==
    /\ t.stage \in StagesOf(t.req)
    /\ t.retry =>
         /\ IsLogged(t.req)
         /\ \/ t.stage \in {"advise", "lock", "look", "replayed"}
            \/ t.stage = "refused" /\ t.req.op = "report" /\ t.req.error = ""
    /\ Scheduling(t) =>
         /\ \A x \in attempts : ~SameAttempt(x, AttemptOf(t.req))
         /\ FailedBefore(AttemptOf(t.req))
         /\ t.stage # "key" => IsOperation(t.req.of)
    /\ Noting(t) =>
         /\ \A x \in Notes : ~SameNote(x, NoteOf(t.req))
         /\ t.place \in 1..Len(timeline[NoteOf(t.req).attempt]) + 1
         /\ t.req.op = "report" => FollowsStatus(t.req)

\* Nor do they clash with those of another session.
Apart(t, u) ==
    /\ Scheduling(t) /\ Scheduling(u) => ~SameAttempt(AttemptOf(t.req), AttemptOf(u.req))
    /\ Noting(t) /\ Noting(u) => ~SameNote(NoteOf(t.req), NoteOf(u.req))

LogInv ==
    /\ LogTypes
    /\ LogRows
    /\ \A x \in attempts : FailedBefore(x)
    /\ \A c \in Clerks : task[c] # Free => TaskOK(task[c])
    /\ \A c, d \in Clerks : c # d => Apart(task[c], task[d])

-----------------------------------------------------------------------------
(* Records and sequences *)

LEMMA TaskCases ==
    ASSUME NEW r \in Tasks
    PROVE  \/ r.op = "operation" /\ StagesOf(r) = TaskAnswers \cup {"advise", "look", "insert", "parent", "commit"}
           \/ /\ r.op = "attempt" /\ r.id \in AttemptIds /\ r.number \in Nat
              /\ StagesOf(r) = TaskAnswers \cup {"lock", "look", "again", "append", "key", "scheduled", "commit"}
           \/ /\ r.op = "report" /\ r.attempt \in AttemptIds
              /\ StagesOf(r) = TaskAnswers \cup {"lock", "look", "again", "append", "commit"}
BY TaskAssumption DEF StagesOf

LEMMA NoteFields ==
    ASSUME NEW r \in Tasks, r.op # "operation"
    PROVE  /\ NoteOf(r) \in NotesSent /\ NoteOf(r).id = r.ev /\ NoteOf(r).attempt \in AttemptIds
           /\ r.op = "attempt" => NoteOf(r).attempt = r.id /\ NoteOf(r).status = "scheduled"
           /\ r.op = "report" => NoteOf(r).attempt = r.attempt /\ NoteOf(r).status = r.status
<1>1. NoteOf(r) \in NotesSent
  BY DEF NotesSent
<1>. QED BY <1>1, TaskCases DEF NoteOf

LEMMA Joined ==
    ASSUME NEW S, NEW s \in Seq(S), NEW t \in Seq(S)
    PROVE  /\ s \o t \in Seq(S) /\ Len(s \o t) = Len(s) + Len(t)
           /\ \A j \in 1..Len(s) + Len(t) :
                 (s \o t)[j] = IF j <= Len(s) THEN s[j] ELSE t[j - Len(s)]
OBVIOUS

LEMMA Inserted ==
    ASSUME NEW S, NEW s \in Seq(S), NEW e \in S, NEW i \in 1..Len(s) + 1
    PROVE  /\ InsertAt(s, i, e) \in Seq(S)
           /\ Len(InsertAt(s, i, e)) = Len(s) + 1
           /\ \A j \in 1..Len(s) + 1 :
                 InsertAt(s, i, e)[j] = IF j < i THEN s[j] ELSE IF j = i THEN e ELSE s[j - 1]
<1> DEFINE before == SubSeq(s, 1, i - 1)
           after == SubSeq(s, i, Len(s))
<1>1. /\ before \in Seq(S) /\ Len(before) = i - 1
      /\ \A j \in 1..i - 1 : before[j] = s[j]
  OBVIOUS
<1>2. /\ after \in Seq(S) /\ Len(after) = Len(s) + 1 - i
      /\ \A j \in 1..Len(s) + 1 - i : after[j] = s[i + j - 1]
  OBVIOUS
<1> DEFINE one == <<e>>
<1>3. InsertAt(s, i, e) = before \o one \o after
  BY DEF InsertAt
<1>4. one \in Seq(S) /\ Len(one) = 1 /\ one[1] = e
  OBVIOUS
<1> HIDE DEF before, after, one
<1> DEFINE head == before \o one
<1>5. /\ head \in Seq(S) /\ Len(head) = i
      /\ \A j \in 1..i : head[j] = IF j < i THEN s[j] ELSE e
  <2>1. head \in Seq(S) /\ Len(head) = Len(before) + Len(one)
    BY <1>1, <1>4, Joined
  <2>2. \A j \in 1..Len(before) + Len(one) :
           head[j] = IF j <= Len(before) THEN before[j] ELSE one[j - Len(before)]
    BY <1>1, <1>4, Joined
  <2> HIDE DEF head
  <2>3. ASSUME NEW j \in 1..i PROVE head[j] = IF j < i THEN s[j] ELSE e
    <3>1. CASE j < i
      BY <1>1, <1>4, <2>2, <3>1
    <3>2. CASE j = i
      <4>1. j \in 1..Len(before) + Len(one) /\ ~(j <= Len(before)) /\ j - Len(before) = 1
        BY <1>1, <1>4, <3>2
      <4>2. head[j] = one[j - Len(before)]
        BY <2>2, <4>1
      <4>. QED BY <1>4, <3>2, <4>1, <4>2
    <3>. QED BY <3>1, <3>2
  <2>. QED BY <1>1, <1>4, <2>1, <2>3
<1> HIDE DEF head
<1>6. InsertAt(s, i, e) = head \o after
  BY <1>3 DEF head
<1>7. /\ head \o after \in Seq(S) /\ Len(head \o after) = Len(s) + 1
      /\ \A j \in 1..Len(s) + 1 :
            (head \o after)[j] = IF j <= i THEN head[j] ELSE after[j - i]
  <2>1. Len(head) + Len(after) = Len(s) + 1
    BY <1>2, <1>5
  <2>2. head \o after \in Seq(S) /\ Len(head \o after) = Len(head) + Len(after)
    BY <1>2, <1>5, Joined
  <2>3. \A j \in 1..Len(head) + Len(after) :
           (head \o after)[j] = IF j <= Len(head) THEN head[j] ELSE after[j - Len(head)]
    BY <1>2, <1>5, Joined
  <2>4. \A j \in 1..Len(s) + 1 : (head \o after)[j] = IF j <= i THEN head[j] ELSE after[j - i]
    BY <1>5, <2>1, <2>3
  <2>. QED BY <2>1, <2>2, <2>4
<1>8. ASSUME NEW j \in 1..Len(s) + 1
      PROVE  (head \o after)[j] = IF j < i THEN s[j] ELSE IF j = i THEN e ELSE s[j - 1]
  <2>1. CASE j <= i
    BY <1>5, <1>7, <2>1
  <2>2. CASE ~(j <= i)
    <3>1. j - i \in 1..Len(s) + 1 - i /\ i + (j - i) - 1 = j - 1
      BY <2>2
    <3>2. after[j - i] = s[j - 1]
      BY <1>2, <3>1
    <3>. QED BY <1>7, <2>2, <3>2
  <2>. QED BY <2>1, <2>2
<1>. QED BY <1>6, <1>7, <1>8

\* What a sequence holds, with one more element
LEMMA InsertedElements ==
    ASSUME NEW S, NEW s \in Seq(S), NEW e \in S, NEW i \in 1..Len(s) + 1,
           NEW t, t = InsertAt(s, i, e)
    PROVE  ToSet(t) = ToSet(s) \cup {e}
<1>1. /\ t \in Seq(S) /\ Len(t) = Len(s) + 1
      /\ \A j \in 1..Len(s) + 1 : t[j] = IF j < i THEN s[j] ELSE IF j = i THEN e ELSE s[j - 1]
  BY Inserted
<1>2. DOMAIN t = 1..Len(s) + 1 /\ DOMAIN s = 1..Len(s) /\ Len(s) \in Nat
  BY <1>1
<1>3. ASSUME NEW j \in DOMAIN t PROVE t[j] \in {s[k] : k \in DOMAIN s} \cup {e}
  <2>1. CASE j < i
    BY <1>1, <1>2, <2>1
  <2>2. CASE j = i
    BY <1>1, <1>2, <2>2
  <2>3. CASE j > i
    <3>1. j - 1 \in DOMAIN s /\ t[j] = s[j - 1]
      BY <1>1, <1>2, <2>3
    <3>. QED BY <3>1
  <2>. QED BY <1>2, <2>1, <2>2, <2>3
<1>4. ASSUME NEW k \in DOMAIN s PROVE s[k] \in {t[j] : j \in DOMAIN t}
  <2>1. CASE k < i
    BY <1>1, <1>2, <2>1
  <2>2. CASE k >= i
    <3>1. k + 1 \in DOMAIN t /\ t[k + 1] = s[k]
      BY <1>1, <1>2, <2>2
    <3>. QED BY <3>1
  <2>. QED BY <1>2, <2>1, <2>2
<1>5. i \in DOMAIN t /\ t[i] = e
  BY <1>1, <1>2
<1>. QED BY <1>3, <1>4, <1>5 DEF ToSet

-----------------------------------------------------------------------------
(* One session moves on *)

LEMMA Turned ==
    ASSUME LogTypes, NEW c \in Clerks, task[c] # Free, NEW s \in TaskStages
    PROVE  /\ task[c] \in Sent
           /\ Turn(c, s) \in Sent /\ Turn(c, s).stage = s /\ Turn(c, s).req = task[c].req
           /\ Turn(c, s).retry = task[c].retry
           /\ Over(c, s) \in Sent /\ Over(c, s).stage = s /\ Over(c, s).req = task[c].req
           /\ Over(c, s).retry = task[c].retry
BY DEF LogTypes, Turn, Over, Sent

LEMMA ApartSym == ASSUME NEW t, NEW u, Apart(t, u) PROVE Apart(u, t)
<1>1. \A x, y : SameNote(x, y) => SameNote(y, x)
  BY DEF SameNote
<1>2. \A x, y : SameAttempt(x, y) => SameAttempt(y, x)
  BY DEF SameAttempt
<1>. QED BY <1>1, <1>2 DEF Apart

\* As long as nothing is committed, what the rows say stays.
LEMMA SameRows ==
    ASSUME UNCHANGED <<operations, attempts, timeline>>
    PROVE  /\ Notes' = Notes
           /\ \A a, status : NoteThere(a, status)' <=> NoteThere(a, status)
           /\ \A a : StatusOfAttempt(a)' = StatusOfAttempt(a)
           /\ \A r : FollowsStatus(r)' <=> FollowsStatus(r)
           /\ \A r : IsLogged(r)' <=> IsLogged(r)
           /\ \A id : IsOperation(id)' <=> IsOperation(id)
           /\ \A x : FailedBefore(x)' <=> FailedBefore(x)
<1>1. Notes' = Notes
  BY DEF Notes
<1>2. \A a, status : NoteThere(a, status)' <=> NoteThere(a, status)
  BY <1>1 DEF NoteThere
<1>3. \A a : StatusOfAttempt(a)' = StatusOfAttempt(a)
  BY DEF StatusOfAttempt
<1>4. \A r : FollowsStatus(r)' <=> FollowsStatus(r)
  BY <1>3 DEF FollowsStatus
<1>5. ASSUME NEW r PROVE IsLogged(r)' <=> IsLogged(r)
  BY <1>1, Zenon DEF IsLogged
<1>6. \A x : FailedBefore(x)' <=> FailedBefore(x)
  BY <1>2 DEF FailedBefore
<1>. QED BY <1>1, <1>2, <1>3, <1>4, <1>5, <1>6 DEF IsOperation

\* A session does what its own record and those of the others allow.
LEMMA Moves ==
    ASSUME LogInv, NEW c \in Clerks, NEW t \in Sent \cup {Free}, Proceed(c, t),
           t # Free => TaskOK(t), \A d \in Clerks \ {c} : Apart(t, task[d])
    PROVE  LogInv'
<1>1. /\ UNCHANGED <<operations, attempts, timeline, setback>>
      /\ task' \in [Clerks -> Sent \cup {Free}]
      /\ \A d \in Clerks : task'[d] = IF d = c THEN t ELSE task[d]
  BY DEF LogInv, LogTypes, Proceed
<1>2. ASSUME NEW x, TaskOK(x) PROVE TaskOK(x)'
  BY <1>1, <1>2, SameRows DEF TaskOK
<1>3. ASSUME NEW d \in Clerks, task'[d] # Free PROVE TaskOK(task'[d])
  BY <1>1, <1>3 DEF LogInv
<1>4. ASSUME NEW d \in Clerks, NEW e \in Clerks, d # e PROVE Apart(task'[d], task'[e])
  BY <1>1, <1>4, ApartSym DEF LogInv
<1>5. (LogRows /\ \A x \in attempts : FailedBefore(x))'
  <2>1. LatestIsLast'
    BY <1>1, SameRows DEF LogInv, LogRows, LatestIsLast
  <2>2. (\A x \in attempts : FailedBefore(x))'
    BY <1>1, SameRows DEF LogInv
  <2>. QED BY <1>1, <2>1, <2>2, SameRows DEF LogInv, LogRows
<1>6. LogTypes'
  BY <1>1 DEF LogInv, LogTypes
<1>. QED BY <1>2, <1>3, <1>4, <1>5, <1>6 DEF LogInv

\* It goes on with its request and inserts nothing.
LEMMA Advances ==
    ASSUME LogInv, NEW c \in Clerks, task[c] # Free, NEW t \in Sent, Proceed(c, t), TaskOK(t),
           t.req = task[c].req, Scheduling(t) => Scheduling(task[c]), ~Noting(t)
    PROVE  LogInv'
<1>1. ASSUME NEW d \in Clerks \ {c} PROVE Apart(t, task[d])
  <2>1. Apart(task[c], task[d])
    BY DEF LogInv
  <2>. QED BY <2>1 DEF Apart
<1>. QED BY <1>1, Moves

\* It goes to a stage at which its request is not known to be there already.
LEMMA GoesOn ==
    ASSUME LogInv, NEW c \in Clerks, task[c] # Free, NEW t \in Sent, Proceed(c, t),
           t.req = task[c].req, t.stage \in StagesOf(t.req), ~Scheduling(t), ~Noting(t),
           t.retry => task[c].retry /\ t.stage \in {"lock", "look", "advise"}
    PROVE  LogInv'
<1>1. task[c].retry => IsLogged(task[c].req)
  BY DEF LogInv, TaskOK
<1>2. TaskOK(t)
  BY <1>1 DEF TaskOK
<1>. QED BY <1>2, Advances

\* It is answered: with `replayed`, if its request was there.
LEMMA IsAnswered ==
    ASSUME LogInv, NEW c \in Clerks, task[c] # Free, NEW answer \in TaskAnswers,
           Proceed(c, Over(c, answer)),
           task[c].retry => \/ answer = "replayed"
                            \/ answer = "refused" /\ task[c].req.op = "report"
                               /\ task[c].req.error = ""
    PROVE  LogInv'
<1> DEFINE t == Over(c, answer)
<1>1. t \in Sent /\ t.stage = answer /\ t.req = task[c].req /\ t.retry = task[c].retry
  BY Turned DEF LogInv, TaskStages
<1>2. task[c].retry => IsLogged(task[c].req)
  BY DEF LogInv, TaskOK
<1>3. TaskOK(t)
  BY <1>1, <1>2 DEF TaskOK, StagesOf, TaskAnswers, Scheduling, Noting
<1>4. ~Scheduling(t) /\ ~Noting(t)
  BY <1>1 DEF TaskAnswers, Scheduling, Noting
<1> HIDE DEF t
<1>5. Proceed(c, t)
  BY DEF t
<1>. QED BY <1>1, <1>3, <1>4, <1>5, Advances

\* A request that was not there when it was sent is answered as it may be.
LEMMA Refused ==
    ASSUME LogInv, NEW c \in Clerks, task[c] # Free, NEW answer \in TaskAnswers,
           Proceed(c, Over(c, answer)),
           task[c].stage \notin {"advise", "lock", "look"} \cup TaskAnswers
    PROVE  LogInv'
<1>1. ~task[c].retry
  BY DEF LogInv, TaskOK, TaskAnswers
<1>. QED BY <1>1, IsAnswered

LEMMA SendOK ==
    ASSUME LogInv, NEW c \in Clerks, NEW r \in Tasks, Send(c, r)
    PROVE  LogInv'
<1> DEFINE t == [stage |-> IF r.op = "operation" THEN "advise" ELSE "lock", req |-> r,
                 held |-> FALSE, place |-> 0, retry |-> IsLogged(r)]
<1>1. IsLogged(r) \in BOOLEAN
  <2>1. CASE r.op = "operation"
    <3>1. IsLogged(r) = (OperationOf(r) \in operations)
      BY <2>1, Zenon DEF IsLogged
    <3>. QED BY <3>1
  <2>2. CASE r.op = "attempt"
    <3>1. IsLogged(r) = (AttemptOf(r) \in attempts /\ NoteOf(r) \in Notes)
      BY <2>2 DEF IsLogged
    <3>. QED BY <3>1
  <2>3. CASE r.op = "report"
    <3>1. IsLogged(r) = (NoteOf(r) \in Notes)
      BY <2>3 DEF IsLogged
    <3>. QED BY <3>1
  <2>. QED BY <2>1, <2>2, <2>3, TaskCases
<1>2. t \in Sent
  BY <1>1 DEF Sent, TaskStages
<1>3. TaskOK(t)
  BY TaskCases DEF TaskOK, Scheduling, Noting
<1>4. \A d \in Clerks \ {c} : Apart(t, task[d])
  BY DEF Apart, Scheduling, Noting
<1>5. Proceed(c, t)
  BY DEF Send
<1> HIDE DEF t
<1>. QED BY <1>2, <1>3, <1>4, <1>5, Moves

\* What the sessions hold is of their records.
LEMMA AtStage ==
    ASSUME LogInv, NEW c \in Clerks, task[c].stage # "free"
    PROVE  /\ task[c] # Free /\ task[c] \in Sent /\ TaskOK(task[c])
           /\ task[c].req \in Tasks /\ task[c].stage \in StagesOf(task[c].req)
           /\ task[c].retry => IsLogged(task[c].req)
                               /\ task[c].stage \in {"advise", "lock", "look"} \cup TaskAnswers
<1>1. task[c] # Free
  BY DEF Free
<1>2. task[c] \in Sent /\ TaskOK(task[c])
  BY <1>1 DEF LogInv, LogTypes
<1>. QED BY <1>1, <1>2 DEF Sent, TaskOK, TaskAnswers

LEMMA OperationSteps ==
    ASSUME LogInv, NEW c \in Clerks,
           AdviseKey(c) \/ LookForOperation(c) \/ InsertOperation(c) \/ ShareParent(c)
    PROVE  LogInv'
<1>1. task[c].stage \in {"advise", "look", "insert", "parent"} /\ task[c].req.op = "operation"
  <2>1. task[c].stage \in {"advise", "look", "insert", "parent"}
    BY DEF AdviseKey, LookForOperation, InsertOperation, ShareParent, Doing
  <2>2. task[c].req \in Tasks /\ task[c].stage \in StagesOf(task[c].req)
    BY <2>1, AtStage
  <2>3. task[c].stage # "look" => task[c].req.op = "operation"
    BY <2>1, <2>2, TaskCases DEF TaskAnswers
  <2>. QED BY <2>1, <2>3 DEF AdviseKey, LookForOperation, InsertOperation, ShareParent, Doing
<1>2. /\ task[c] # Free /\ task[c].req \in Tasks
      /\ task[c].retry => IsLogged(task[c].req) /\ task[c].stage \in {"advise", "look"}
  BY <1>1, AtStage DEF TaskAnswers
<1>3. ASSUME NEW stage \in {"look", "insert", "parent", "commit"}, Proceed(c, Turn(c, stage)),
             task[c].retry => stage = "look"
      PROVE  LogInv'
  <2> DEFINE t == Turn(c, stage)
  <2>1. t \in Sent /\ t.stage = stage /\ t.req = task[c].req /\ t.retry = task[c].retry
    BY <1>2, Turned DEF LogInv, TaskStages
  <2>2. t.stage \in StagesOf(t.req) /\ ~Scheduling(t) /\ ~Noting(t)
    BY <1>1, <1>2, <2>1, TaskCases DEF Scheduling, Noting
  <2> HIDE DEF t
  <2>3. Proceed(c, t)
    BY <1>3 DEF t
  <2>. QED BY <1>2, <1>3, <2>1, <2>2, <2>3, GoesOn
<1>4. CASE AdviseKey(c)
  BY <1>3, <1>4 DEF AdviseKey
<1>5. CASE LookForOperation(c)
  <2> DEFINE there == {x \in operations : SameOperation(x, OperationOf(task[c].req))}
             own == OperationOf(task[c].req) \in there
  <2>1. task[c].retry => own
    <3>1. IsLogged(task[c].req) => OperationOf(task[c].req) \in operations
      BY <1>1 DEF IsLogged
    <3>. QED BY <1>2, <3>1 DEF SameOperation
  <2>2. CASE there = {}
    <3>1. Proceed(c, Turn(c, "insert")) /\ ~task[c].retry
      BY <1>5, <2>1, <2>2 DEF LookForOperation
    <3>. QED BY <1>3, <3>1
  <2>3. CASE there # {} /\ own
    <3>1. Proceed(c, Over(c, "replayed"))
      BY <1>5, <2>3 DEF LookForOperation
    <3>. QED BY <1>2, <3>1, IsAnswered DEF TaskAnswers
  <2>4. CASE there # {} /\ ~own
    <3>1. Proceed(c, Over(c, "refused")) /\ ~task[c].retry
      BY <1>5, <2>1, <2>4 DEF LookForOperation
    <3>. QED BY <1>2, <3>1, IsAnswered DEF TaskAnswers
  <2>. QED BY <2>2, <2>3, <2>4
<1>6. CASE InsertOperation(c)
  <2>1. task[c].stage = "insert" /\ ~task[c].retry
    BY <1>2, <1>6 DEF InsertOperation
  <2>2. \/ Proceed(c, Over(c, "refused"))
        \/ \E stage \in {"parent", "commit"} : Proceed(c, Turn(c, stage))
    BY <1>6 DEF InsertOperation
  <2>. QED BY <1>2, <1>3, <2>1, <2>2, Refused DEF TaskAnswers
<1>7. CASE ShareParent(c)
  <2>1. task[c].stage = "parent" /\ ~task[c].retry
    BY <1>2, <1>7 DEF ShareParent
  <2>2. Proceed(c, Over(c, "refused")) \/ Proceed(c, Turn(c, "commit"))
    BY <1>7 DEF ShareParent
  <2>. QED BY <1>2, <1>3, <2>1, <2>2, Refused DEF TaskAnswers
<1>. QED BY <1>4, <1>5, <1>6, <1>7

LEMMA LockRowOK ==
    ASSUME LogInv, NEW c \in Clerks, LockRow(c)
    PROVE  LogInv'
<1> DEFINE stage == IF task[c].stage = "lock" THEN "look" ELSE "append"
           t == [Turn(c, stage) EXCEPT !.held = HasRow(task[c].req)]
<1>1. task[c].stage \in {"lock", "again"} /\ task[c] # Free
  BY AtStage DEF LockRow
<1>2. /\ task[c].req \in Tasks /\ task[c].stage \in StagesOf(task[c].req)
      /\ task[c].retry => task[c].stage = "lock"
  BY <1>1, AtStage DEF TaskAnswers
<1>3. task[c].req.op \in {"attempt", "report"}
  BY <1>1, <1>2, TaskCases DEF TaskAnswers
<1>4. HasRow(task[c].req) \in BOOLEAN
  BY DEF HasRow, IsOperation, IsAttempt
<1>5. Turn(c, stage) \in Sent /\ Turn(c, stage).stage = stage /\ Turn(c, stage).req = task[c].req
      /\ Turn(c, stage).retry = task[c].retry
  BY <1>1, Turned DEF LogInv, TaskStages
<1>6. t \in Sent /\ t.stage = stage /\ t.req = task[c].req /\ t.retry = task[c].retry
  BY <1>4, <1>5 DEF Sent
<1>7. t.stage \in StagesOf(t.req) /\ ~Scheduling(t) /\ ~Noting(t)
  BY <1>2, <1>3, <1>6, TaskCases DEF Scheduling, Noting
<1>8. Proceed(c, t)
  BY DEF LockRow
<1> HIDE DEF t
<1>. QED BY <1>1, <1>2, <1>6, <1>7, <1>8, GoesOn

\* A step that inserts an event inserts it beside those of the others.
LEMMA InsertNoteOK ==
    ASSUME LogInv, NEW c \in Clerks, NEW stage \in {"scheduled", "append"}, InsertNote(c, stage),
           task[c].req.op \in {"attempt", "report"}, task[c].req.op = "attempt" <=> stage = "scheduled",
           task[c].req.op = "report" => FollowsStatus(task[c].req)
    PROVE  LogInv'
<1> DEFINE r == task[c].req
           note == NoteOf(r)
<1>1. task[c].stage = stage /\ task[c] # Free
  BY AtStage DEF InsertNote
<1>2. r \in Tasks /\ ~task[c].retry /\ TaskOK(task[c])
  BY <1>1, AtStage DEF TaskAnswers
<1>3. CASE \E x \in Notes : SameNote(x, note)
  <2>1. Proceed(c, Over(c, "refused"))
    BY <1>3 DEF InsertNote
  <2>. QED BY <1>1, <2>1, Refused DEF TaskAnswers
<1>4. CASE ~\E x \in Notes : SameNote(x, note)
  <2>1. PICK i \in Places(note.attempt) : Proceed(c, [Turn(c, "commit") EXCEPT !.place = i])
    BY <1>4 DEF InsertNote
  <2>2. ~\E d \in OthersBusy(c) : WaitsToInsertNote(c, d)
    BY <1>4 DEF InsertNote
  <2>3. note.attempt \in AttemptIds /\ note \in NotesSent
    BY <1>2, NoteFields
  <2>4. Len(timeline[note.attempt]) \in Nat
    BY <2>3 DEF LogInv, LogTypes
  <2>5. i \in 1..Len(timeline[note.attempt]) + 1
    BY <2>4 DEF Places
  <2> DEFINE t == [Turn(c, "commit") EXCEPT !.place = i]
  <2>6. Turn(c, "commit") \in Sent /\ Turn(c, "commit").stage = "commit"
        /\ Turn(c, "commit").req = r /\ Turn(c, "commit").retry = task[c].retry
    BY <1>1, Turned DEF LogInv, TaskStages
  <2>7. i \in Nat
    BY <2>4, <2>5
  <2>8. t \in Sent /\ t.stage = "commit" /\ t.req = r /\ ~t.retry /\ t.place = i
    BY <1>2, <2>6, <2>7 DEF Sent
  <2> HIDE DEF t
  <2>9. Scheduling(t) => Scheduling(task[c]) /\ task[c].stage # "key"
    BY <1>1, <2>8 DEF Scheduling
  <2>10. TaskOK(t)
    <3>1. t.stage \in StagesOf(t.req)
      BY <1>2, <2>8, TaskCases
    <3>2. Scheduling(t) => /\ \A x \in attempts : ~SameAttempt(x, AttemptOf(t.req))
                           /\ FailedBefore(AttemptOf(t.req)) /\ IsOperation(t.req.of)
      BY <1>2, <2>8, <2>9 DEF TaskOK
    <3>. QED BY <1>4, <2>5, <2>8, <3>1, <3>2 DEF TaskOK
  <2>11. ASSUME NEW d \in Clerks \ {c} PROVE Apart(t, task[d])
    <3>1. Apart(task[c], task[d])
      BY DEF LogInv
    <3>2. Noting(task[d]) => ~SameNote(NoteOf(task[d].req), note)
      <4>1. ASSUME Noting(task[d]) PROVE d \in OthersBusy(c) /\ InsertedNote(d)
        BY <4>1 DEF Noting, OthersBusy, InsertedNote, Free
      <4>. QED BY <2>2, <4>1 DEF WaitsToInsertNote
    <3>3. Noting(task[d]) => ~SameNote(note, NoteOf(task[d].req))
      BY <3>2 DEF SameNote
    <3>. QED BY <2>8, <2>9, <3>1, <3>3 DEF Apart
  <2>12. Proceed(c, t)
    BY <2>1 DEF t
  <2>. QED BY <2>8, <2>10, <2>11, <2>12, Moves
<1>. QED BY <1>3, <1>4

LEMMA ReportSteps ==
    ASSUME LogInv, NEW c \in Clerks, LookForReport(c) \/ InsertReport(c)
    PROVE  LogInv'
<1> DEFINE r == task[c].req
<1>1. task[c].stage \in {"look", "append"} /\ r.op = "report" /\ task[c] # Free
  BY AtStage DEF LookForReport, InsertReport, Doing
<1>2. r \in Tasks /\ (task[c].retry => IsLogged(r) /\ task[c].stage = "look")
  BY <1>1, AtStage DEF TaskAnswers
<1>3. CASE LookForReport(c)
  <2> DEFINE there == {x \in Notes : x.id = r.ev}
             compared == [NoteOf(r) EXCEPT !.error = IF @ = "" THEN NoError ELSE @]
  <2>1. task[c].retry => there = {NoteOf(r)} /\ (r.error = "" \/ compared = NoteOf(r))
    <3>1. ASSUME task[c].retry PROVE NoteOf(r) \in Notes
      BY <1>1, <1>2, <3>1 DEF IsLogged
    <3>2. NoteOf(r).id = r.ev
      BY <1>1, <1>2, NoteFields
    <3>3. \A x, y \in Notes : x.id = y.id => x = y
      BY DEF LogInv, LogRows, SameNote
    <3>4. r.error # "" => compared = NoteOf(r)
      BY <1>1 DEF NoteOf
    <3>. QED BY <3>1, <3>2, <3>3, <3>4
  <2>2. CASE there = {}
    <3>1. Proceed(c, Turn(c, "again")) /\ ~task[c].retry
      BY <1>3, <2>1, <2>2 DEF LookForReport
    <3> DEFINE t == Turn(c, "again")
    <3>2. t \in Sent /\ t.stage = "again" /\ t.req = r /\ ~t.retry
      BY <1>1, <3>1, Turned DEF LogInv, TaskStages
    <3>3. t.stage \in StagesOf(t.req) /\ ~Scheduling(t) /\ ~Noting(t)
      BY <1>1, <1>2, <3>2, TaskCases DEF Scheduling, Noting
    <3> HIDE DEF t
    <3>4. Proceed(c, t)
      BY <3>1 DEF t
    <3>. QED BY <1>1, <3>2, <3>3, <3>4, GoesOn
  <2>3. CASE there # {} /\ there = {compared}
    <3>1. Proceed(c, Over(c, "replayed"))
      BY <1>3, <2>3 DEF LookForReport
    <3>. QED BY <1>1, <3>1, IsAnswered DEF TaskAnswers
  <2>4. CASE there # {} /\ there # {compared}
    <3>1. Proceed(c, Over(c, "refused"))
      BY <1>3, <2>4 DEF LookForReport
    <3>2. task[c].retry => r.error = ""
      BY <2>1, <2>4
    <3>. QED BY <1>1, <3>1, <3>2, IsAnswered DEF TaskAnswers
  <2>. QED BY <2>2, <2>3, <2>4
<1>4. CASE InsertReport(c)
  <2>1. Doing(c, "report", {"append"})
    BY <1>4 DEF InsertReport
  <2>2. CASE InsertNote(c, "append") /\ FollowsStatus(r)
    BY <1>1, <2>2, InsertNoteOK
  <2>3. CASE Proceed(c, Over(c, "refused"))
    BY <1>1, <2>1, <2>3, Refused DEF TaskAnswers, Doing
  <2>. QED BY <1>4, <2>2, <2>3 DEF InsertReport
<1>. QED BY <1>3, <1>4

\* What the triggers take for the status of an attempt has been reported of it.
LEMMA StatusIsThere ==
    ASSUME LogInv, NEW a \in AttemptIds, StatusOfAttempt(a) # "none"
    PROVE  timeline[a] # <<>> /\ NoteThere(a, StatusOfAttempt(a))
<1>1. timeline[a] \in Seq(NotesSent) /\ timeline[a] # <<>>
  BY DEF StatusOfAttempt, LogInv, LogTypes
<1>2. Len(timeline[a]) \in DOMAIN timeline[a]
  BY <1>1
<1>3. timeline[a][Len(timeline[a])] \in Notes
  BY <1>2 DEF Notes
<1>4. timeline[a][Len(timeline[a])].attempt = a
  BY <1>2 DEF LogInv, LogRows
<1>. QED BY <1>1, <1>3, <1>4 DEF NoteThere, StatusOfAttempt, Last

LEMMA AttemptFields ==
    ASSUME LogInv, NEW x \in attempts
    PROVE  x.id \in AttemptIds /\ x.number \in Nat
<1>1. PICK r \in Tasks : r.op = "attempt" /\ x = AttemptOf(r)
  BY DEF LogInv, LogTypes, AttemptsSent
<1>. QED BY <1>1, TaskCases DEF AttemptOf

LEMMA AttemptSteps ==
    ASSUME LogInv, NEW c \in Clerks,
           LookForAttempt(c) \/ InsertAttempt(c) \/ ShareOperation(c) \/ InsertScheduled(c)
    PROVE  LogInv'
<1> DEFINE r == task[c].req
<1>1. task[c].stage \in {"look", "append", "key", "scheduled"} /\ task[c] # Free
  BY AtStage DEF LookForAttempt, InsertAttempt, ShareOperation, InsertScheduled, InsertNote, Doing
<1>2. /\ r \in Tasks /\ TaskOK(task[c]) /\ task[c].stage \in StagesOf(r)
      /\ task[c].retry => IsLogged(r) /\ task[c].stage = "look"
  BY <1>1, AtStage DEF TaskAnswers
<1>3. r.op = "attempt"
  BY <1>1, <1>2, TaskCases
     DEF LookForAttempt, InsertAttempt, ShareOperation, InsertScheduled, InsertNote, Doing, TaskAnswers
<1>4. CASE LookForAttempt(c)
  <2> DEFINE there == {x \in attempts : SameAttempt(x, AttemptOf(r))}
  <2>1. IsLogged(r) => there # {}
    <3>1. IsLogged(r) => AttemptOf(r) \in attempts
      BY <1>3 DEF IsLogged
    <3>. QED BY <3>1 DEF SameAttempt
  <2>2. CASE there = {}
    <3>1. Proceed(c, Turn(c, "again")) /\ ~task[c].retry
      BY <1>2, <1>4, <2>1, <2>2 DEF LookForAttempt
    <3> DEFINE t == Turn(c, "again")
    <3>2. t \in Sent /\ t.stage = "again" /\ t.req = r /\ ~t.retry
      BY <1>1, <3>1, Turned DEF LogInv, TaskStages
    <3>3. t.stage \in StagesOf(t.req) /\ ~Scheduling(t) /\ ~Noting(t)
      BY <1>2, <1>3, <3>2, TaskCases DEF Scheduling, Noting
    <3> HIDE DEF t
    <3>4. Proceed(c, t)
      BY <3>1 DEF t
    <3>. QED BY <1>1, <3>2, <3>3, <3>4, GoesOn
  <2>3. CASE there # {} /\ IsLogged(r)
    <3>1. Proceed(c, Over(c, "replayed"))
      BY <1>4, <2>3 DEF LookForAttempt
    <3>. QED BY <1>1, <3>1, IsAnswered DEF TaskAnswers
  <2>4. CASE there # {} /\ ~IsLogged(r)
    <3>1. Proceed(c, Over(c, "refused")) /\ ~task[c].retry
      BY <1>2, <1>4, <2>4 DEF LookForAttempt
    <3>. QED BY <1>1, <3>1, IsAnswered DEF TaskAnswers
  <2>. QED BY <2>2, <2>3, <2>4
<1>5. CASE InsertAttempt(c)
  <2> DEFINE new == AttemptOf(r)
             free == FollowsFailure(r) /\ ~\E x \in attempts : SameAttempt(x, new)
             t == Turn(c, "key")
  <2>1. task[c].stage = "append"
    BY <1>5 DEF InsertAttempt, Doing
  <2>2. CASE ~free
    <3>1. Proceed(c, Over(c, "refused"))
      BY <1>5, <2>2 DEF InsertAttempt
    <3>. QED BY <1>1, <2>1, <3>1, Refused DEF TaskAnswers
  <2>3. CASE free
    <3>1. Proceed(c, t) /\ ~\E d \in OthersBusy(c) : WaitsToInsertAttempt(c, d)
      BY <1>5, <2>3 DEF InsertAttempt
    <3>2. t \in Sent /\ t.stage = "key" /\ t.req = r /\ ~t.retry
      BY <1>1, <1>2, <2>1, Turned DEF LogInv, TaskStages
    <3> HIDE DEF t
    <3>3. FailedBefore(new)
      <4>1. new.op = r.of /\ new.number = r.number /\ r.number \in Nat
        BY <1>2, <1>3, TaskCases DEF AttemptOf
      <4>2. CASE OfOperation(r.of) = {}
        BY <2>3, <4>1, <4>2 DEF FollowsFailure, FailedBefore
      <4>3. CASE OfOperation(r.of) # {}
        <5>1. PICK x \in attempts : /\ x.op = r.of /\ StatusOfAttempt(x.id) = "failed"
                                    /\ r.number = x.number + 1
          BY <2>3, <4>3 DEF FollowsFailure, OfOperation
        <5>2. NoteThere(x.id, "failed") /\ x.number \in Nat
          BY <5>1, AttemptFields, StatusIsThere
        <5>. QED BY <4>1, <5>1, <5>2 DEF FailedBefore
      <4>. QED BY <4>2, <4>3
    <3>4. t.stage \in StagesOf(t.req)
      BY <1>2, <1>3, <3>2, TaskCases
    <3>5. TaskOK(t)
      BY <2>3, <3>2, <3>3, <3>4 DEF TaskOK, Noting
    <3>6. ASSUME NEW d \in Clerks \ {c} PROVE Apart(t, task[d])
      <4>1. Scheduling(task[d]) => d \in OthersBusy(c) /\ Doing(d, "attempt", {"key", "scheduled", "commit"})
        BY DEF Scheduling, OthersBusy, Free, Doing
      <4>2. Scheduling(task[d]) => ~SameAttempt(new, AttemptOf(task[d].req))
        BY <3>1, <4>1 DEF WaitsToInsertAttempt, SameAttempt
      <4>. QED BY <3>2, <4>2 DEF Apart, Noting
    <3>. QED BY <3>1, <3>2, <3>5, <3>6, Moves
  <2>. QED BY <2>2, <2>3
<1>6. CASE ShareOperation(c)
  <2> DEFINE t == Turn(c, "scheduled")
  <2>1. task[c].stage = "key"
    BY <1>6 DEF ShareOperation
  <2>2. CASE ~IsOperation(r.of)
    <3>1. Proceed(c, Over(c, "refused"))
      BY <1>6, <2>2 DEF ShareOperation
    <3>. QED BY <1>1, <2>1, <3>1, Refused DEF TaskAnswers
  <2>3. CASE IsOperation(r.of)
    <3>1. Proceed(c, t)
      BY <1>6, <2>3 DEF ShareOperation
    <3>2. t \in Sent /\ t.stage = "scheduled" /\ t.req = r /\ ~t.retry
      BY <1>1, <1>2, <2>1, Turned DEF LogInv, TaskStages
    <3> HIDE DEF t
    <3>3. t.stage \in StagesOf(t.req)
      BY <1>2, <1>3, <3>2, TaskCases
    <3>4. Scheduling(task[c])
      BY <1>3, <2>1 DEF Scheduling
    <3>5. TaskOK(t)
      BY <1>2, <2>3, <3>2, <3>3, <3>4 DEF TaskOK, Noting
    <3>. QED BY <1>1, <3>1, <3>2, <3>4, <3>5, Advances DEF Noting
  <2>. QED BY <2>2, <2>3
<1>7. CASE InsertScheduled(c)
  BY <1>3, <1>7, InsertNoteOK DEF InsertScheduled
<1>. QED BY <1>4, <1>5, <1>6, <1>7

\* A deadlock is broken before anything that was there is inserted again.
LEMMA BreakCycleOK == ASSUME LogInv, NEW c \in Clerks, BreakCycle(c) PROVE LogInv'
<1>1. task[c].stage \in {"key", "append"} /\ Proceed(c, Over(c, "refused"))
  BY DEF BreakCycle, Cycle, Doing
<1>. QED BY <1>1, AtStage, Refused DEF TaskAnswers

LEMMA FreeOK ==
    ASSUME LogInv, NEW c \in Clerks, AnsweredTask(c) \/ LoseTask(c) PROVE LogInv'
<1>1. Proceed(c, Free)
  BY DEF AnsweredTask, LoseTask
<1>2. \A d \in Clerks \ {c} : Apart(Free, task[d])
  BY DEF Apart, Scheduling, Noting, Free
<1>. QED BY <1>1, <1>2, Moves

-----------------------------------------------------------------------------
(* The rows of one session become visible *)

\* What holds of the rows keeps holding as they grow.
LEMMA MoreRows ==
    ASSUME operations \subseteq operations', attempts \subseteq attempts', Notes \subseteq Notes'
    PROVE  /\ \A a, status : NoteThere(a, status) => NoteThere(a, status)'
           /\ \A r \in Tasks : IsLogged(r) => IsLogged(r)'
           /\ \A id : IsOperation(id) => IsOperation(id)'
           /\ \A x : FailedBefore(x) => FailedBefore(x)'
<1>1. \A a, status : NoteThere(a, status) => NoteThere(a, status)'
  BY DEF NoteThere
<1>2. ASSUME NEW r \in Tasks, IsLogged(r) PROVE IsLogged(r)'
  <2>1. CASE r.op = "operation"
    <3>1. OperationOf(r) \in operations
      BY <1>2, <2>1 DEF IsLogged
    <3>2. OperationOf(r) \in operations'
      BY <3>1
    <3>. QED BY <2>1, <3>2 DEF IsLogged
  <2>2. CASE r.op = "attempt"
    <3>1. AttemptOf(r) \in attempts /\ NoteOf(r) \in Notes
      BY <1>2, <2>2 DEF IsLogged
    <3>2. AttemptOf(r) \in attempts' /\ NoteOf(r) \in Notes'
      BY <3>1
    <3>. QED BY <2>2, <3>2 DEF IsLogged
  <2>3. CASE r.op = "report"
    <3>1. NoteOf(r) \in Notes
      BY <1>2, <2>3 DEF IsLogged
    <3>2. NoteOf(r) \in Notes'
      BY <3>1
    <3>. QED BY <2>3, <3>2 DEF IsLogged
  <2>. QED BY <2>1, <2>2, <2>3, TaskCases
<1>3. \A id : IsOperation(id) => IsOperation(id)'
  BY DEF IsOperation
<1>4. \A x : FailedBefore(x) => FailedBefore(x)'
  BY <1>1 DEF FailedBefore
<1>. QED BY <1>1, <1>2, <1>3, <1>4

\* An attempt with an event has been scheduled.
LEMMA ScheduledFirst ==
    ASSUME LogInv, NEW a \in AttemptIds, NEW status, NoteThere(a, status)
    PROVE  NoteThere(a, "scheduled")
BY DEF LogInv, LogRows, NoteThere

\* No two sessions have inserted events of one attempt.
LEMMA NotesApart ==
    ASSUME LogInv, NEW c \in Clerks, NEW d \in Clerks, c # d, Noting(task[c]), Noting(task[d])
    PROVE  NoteOf(task[c].req).attempt # NoteOf(task[d].req).attempt
<1> DEFINE M(e) == NoteOf(task[e].req)
<1>1. \A e \in {c, d} : task[e].req \in Tasks /\ TaskOK(task[e]) /\ task[e].req.op # "operation"
  BY AtStage DEF Noting
<1>2. \A e \in {c, d} : task[e].req.op \in {"attempt", "report"} /\ M(e).attempt \in AttemptIds
  BY <1>1, NoteFields, TaskCases
<1>3. ASSUME NEW e \in {c, d}, task[e].req.op = "report"
      PROVE  /\ StatusOfAttempt(M(e).attempt) # "none"
             /\ \/ StatusOfAttempt(M(e).attempt) = "scheduled" /\ M(e).status = "evaluating"
                \/ StatusOfAttempt(M(e).attempt) = "evaluating" /\ M(e).status \in Ends
  <2>1. FollowsStatus(task[e].req) /\ M(e).attempt = task[e].req.attempt
        /\ M(e).status = task[e].req.status
    BY <1>1, <1>3, NoteFields DEF TaskOK, Noting
  <2>. QED BY <2>1 DEF FollowsStatus
<1>4. ASSUME NEW e \in {c, d}, task[e].req.op = "attempt"
      PROVE  M(e).status = "scheduled" /\ ~NoteThere(M(e).attempt, "scheduled")
  <2>1. M(e).status = "scheduled" /\ \A x \in Notes : ~SameNote(x, M(e))
    BY <1>1, <1>4, NoteFields DEF TaskOK, Noting
  <2>. QED BY <2>1 DEF NoteThere, SameNote
<1>5. ~SameNote(M(c), M(d))
  BY DEF LogInv, Apart
<1>6. ASSUME NEW e \in {c, d}, task[e].req.op = "report" PROVE NoteThere(M(e).attempt, "scheduled")
  BY <1>2, <1>3, <1>6, StatusIsThere, ScheduledFirst
<1>7. SUFFICES ASSUME M(c).attempt = M(d).attempt PROVE FALSE
  OBVIOUS
<1> HIDE DEF M
<1>8. CASE task[c].req.op = "report" /\ task[d].req.op = "report"
  BY <1>3, <1>5, <1>7, <1>8 DEF SameNote
<1>9. CASE task[c].req.op = "attempt" /\ task[d].req.op = "attempt"
  BY <1>4, <1>5, <1>7, <1>9 DEF SameNote
<1>10. CASE task[c].req.op # task[d].req.op
  BY <1>2, <1>4, <1>6, <1>7, <1>10
<1>. QED BY <1>2, <1>8, <1>9, <1>10

\* What another session has done stays right, unless the rows clash with it.
LEMMA OthersStay ==
    ASSUME LogInv, NEW d \in Clerks, task[d] # Free, task'[d] = task[d],
           operations \subseteq operations', attempts \subseteq attempts', Notes \subseteq Notes',
           Scheduling(task[d]) =>
               \A x \in attempts' \ attempts : ~SameAttempt(x, AttemptOf(task[d].req)),
           Noting(task[d]) =>
               LET n == NoteOf(task[d].req)
               IN  /\ \A x \in Notes' \ Notes : ~SameNote(x, n)
                   /\ timeline'[n.attempt] = timeline[n.attempt]
    PROVE  TaskOK(task[d])'
<1> DEFINE t == task[d]
<1>1. TaskOK(t) /\ t.req \in Tasks
  BY DEF LogInv, LogTypes, Sent
<1>2. t.retry => IsLogged(t.req)'
  <2>1. t.retry => IsLogged(t.req)
    BY <1>1 DEF TaskOK
  <2>2. \A r \in Tasks : IsLogged(r) => IsLogged(r)'
    BY MoreRows
  <2>. QED BY <1>1, <2>1, <2>2
<1>3. Scheduling(t) =>
        /\ \A x \in attempts' : ~SameAttempt(x, AttemptOf(t.req))
        /\ FailedBefore(AttemptOf(t.req))'
        /\ t.stage # "key" => IsOperation(t.req.of)'
  <2>1. /\ \A id : IsOperation(id) => IsOperation(id)'
        /\ \A x : FailedBefore(x) => FailedBefore(x)'
    BY MoreRows
  <2>. QED BY <1>1, <2>1 DEF TaskOK
<1>4. Noting(t) =>
        /\ \A x \in Notes' : ~SameNote(x, NoteOf(t.req))
        /\ t.place \in 1..Len(timeline'[NoteOf(t.req).attempt]) + 1
        /\ t.req.op = "report" => FollowsStatus(t.req)'
  <2>1. ASSUME Noting(t), t.req.op = "report" PROVE FollowsStatus(t.req)'
    <3>1. NoteOf(t.req).attempt = t.req.attempt
      BY <1>1, <2>1, NoteFields
    <3>2. timeline'[t.req.attempt] = timeline[t.req.attempt]
      BY <2>1, <3>1
    <3>3. FollowsStatus(t.req)
      BY <1>1, <2>1 DEF TaskOK
    <3>. QED BY <3>2, <3>3 DEF FollowsStatus, StatusOfAttempt
  <2>. QED BY <1>1, <2>1 DEF TaskOK
<1>. QED BY <1>1, <1>2, <1>3, <1>4 DEF TaskOK

LEMMA CommitOperationOK ==
    ASSUME LogInv, NEW c \in Clerks, CommitTask(c), task[c].req.op = "operation"
    PROVE  LogInv'
<1> DEFINE t == Over(c, "created")
<1>1. task[c].stage = "commit" /\ task[c] # Free /\ task[c].req \in Tasks
  BY AtStage DEF CommitTask
<1>2. t \in Sent /\ t.stage = "created" /\ t.req = task[c].req /\ ~t.retry
  BY <1>1, AtStage, Turned DEF LogInv, TaskStages, TaskAnswers
<1>3. /\ task' = [task EXCEPT ![c] = t] /\ UNCHANGED <<attempts, timeline, setback>>
      /\ operations \subseteq operations'
  BY DEF CommitTask
<1> HIDE DEF t
<1>4. /\ task' \in [Clerks -> Sent \cup {Free}]
      /\ \A d \in Clerks : task'[d] = IF d = c THEN t ELSE task[d]
  BY <1>2, <1>3 DEF LogInv, LogTypes
<1>5. Notes' = Notes
  BY <1>3 DEF Notes
<1>6. \A a : StatusOfAttempt(a)' = StatusOfAttempt(a)
  BY <1>3 DEF StatusOfAttempt
<1>7. \A a, status : NoteThere(a, status)' <=> NoteThere(a, status)
  BY <1>5 DEF NoteThere
<1>8. \A r : FollowsStatus(r)' <=> FollowsStatus(r)
  BY <1>6 DEF FollowsStatus
<1>9. /\ \A r \in Tasks : IsLogged(r) => IsLogged(r)'
      /\ \A id : IsOperation(id) => IsOperation(id)'
      /\ \A x : FailedBefore(x) => FailedBefore(x)'
  BY <1>3, <1>5, MoreRows
<1>10. LogTypes'
  BY <1>3, <1>4 DEF LogInv, LogTypes
<1>11. LatestIsLast'
  BY <1>3, <1>6, <1>7 DEF LogInv, LogRows, LatestIsLast
<1>12. LogRows'
  BY <1>3, <1>5, <1>7, <1>9, <1>11 DEF LogInv, LogRows
<1>13. \A x \in attempts' : FailedBefore(x)'
  BY <1>3, <1>9 DEF LogInv
<1>14. ASSUME NEW d \in Clerks, task'[d] # Free PROVE TaskOK(task[d])'
  <2>1. CASE d = c
    <3>1. TaskOK(task'[c])
      BY <1>1, <1>2, <1>4, TaskCases DEF TaskOK, Scheduling, Noting, TaskAnswers
    <3>. QED BY <1>2, <1>4, <2>1, <3>1, TaskCases DEF TaskOK, Scheduling, Noting, TaskAnswers
  <2>2. CASE d # c
    BY <1>3, <1>4, <1>5, <1>14, <2>2, OthersStay
  <2>. QED BY <2>1, <2>2
<1>15. ASSUME NEW d \in Clerks, NEW e \in Clerks, d # e PROVE Apart(task'[d], task'[e])
  BY <1>2, <1>4, <1>15 DEF LogInv, Apart, Scheduling, Noting
<1>. QED BY <1>10, <1>12, <1>13, <1>14, <1>15 DEF LogInv

\* An event takes its place among those of its attempt, and nothing else moves.
LEMMA NoteTakesPlace ==
    ASSUME LogInv, NEW c \in Clerks, CommitTask(c), task[c].req.op # "operation",
           NEW n, n = NoteOf(task[c].req)
    PROVE  /\ timeline' \in [AttemptIds -> Seq(NotesSent)]
           /\ \A a \in AttemptIds \ {n.attempt} : timeline'[a] = timeline[a]
           /\ ToSet(timeline'[n.attempt]) = ToSet(timeline[n.attempt]) \cup {n}
           /\ Notes' = Notes \cup {n}
           /\ setback \subseteq setback'
           /\ n.attempt \notin setback' => StatusOfAttempt(n.attempt)' = n.status
           /\ \A a \in AttemptIds \ {n.attempt} : StatusOfAttempt(a)' = StatusOfAttempt(a)
<1> DEFINE a == n.attempt
<1>0. PICK s, place, t : s = timeline[a] /\ place = task[c].place /\ t = InsertAt(s, place, n)
  OBVIOUS
<1>1. Noting(task[c]) /\ task[c].req \in Tasks /\ TaskOK(task[c])
  BY AtStage DEF CommitTask, Noting
<1>2. n \in NotesSent /\ a \in AttemptIds
  BY <1>1, NoteFields
<1>3. s \in Seq(NotesSent) /\ place \in 1..Len(s) + 1
  BY <1>0, <1>1, <1>2 DEF LogInv, LogTypes, TaskOK
<1>4. timeline' = [timeline EXCEPT ![a] = InsertAt(@, place, n)]
      /\ setback' = setback \cup (IF place <= Len(s) THEN {a} ELSE {})
  BY <1>0 DEF CommitTask
<1>5. /\ timeline'[a] = t
      /\ \A b \in AttemptIds \ {a} : timeline'[b] = timeline[b]
  BY <1>0, <1>2, <1>4 DEF LogInv, LogTypes
<1>6. /\ t \in Seq(NotesSent) /\ Len(t) = Len(s) + 1
      /\ \A j \in 1..Len(s) + 1 : t[j] = IF j < place THEN s[j] ELSE IF j = place THEN n ELSE s[j - 1]
  <2>1. t = InsertAt(s, place, n) /\ n \in NotesSent
    BY <1>0, <1>2
  <2>. QED BY <1>3, <2>1, Inserted
<1>7. ToSet(t) = ToSet(s) \cup {n}
  BY <1>0, <1>2, <1>3, InsertedElements
<1>8. timeline' \in [AttemptIds -> Seq(NotesSent)]
  BY <1>0, <1>4, <1>6 DEF LogInv, LogTypes
<1>9. Notes' = Notes \cup {n}
  <2>1. ASSUME NEW x \in Notes' PROVE x \in Notes \cup {n}
    <3>1. PICK b \in AttemptIds : x \in ToSet(timeline'[b])
      BY DEF Notes, ToSet
    <3>2. CASE b = a
      BY <1>0, <1>2, <1>5, <1>7, <3>1, <3>2 DEF Notes, ToSet
    <3>3. CASE b # a
      BY <1>5, <3>1, <3>3 DEF Notes, ToSet
    <3>. QED BY <3>2, <3>3
  <2>2. ASSUME NEW x \in Notes PROVE x \in Notes'
    <3>1. PICK b \in AttemptIds : x \in ToSet(timeline[b])
      BY DEF Notes, ToSet
    <3>2. x \in ToSet(timeline'[b])
      BY <1>0, <1>5, <1>7, <3>1
    <3>. QED BY <3>2 DEF Notes, ToSet
  <2>3. n \in Notes'
    BY <1>2, <1>5, <1>7 DEF Notes, ToSet
  <2>. QED BY <2>1, <2>2, <2>3
<1>10. ASSUME a \notin setback' PROVE StatusOfAttempt(a)' = n.status
  <2>1. place = Len(s) + 1
    BY <1>3, <1>4, <1>10
  <2>2. t[Len(t)] = n /\ t # <<>>
    BY <1>3, <1>6, <2>1
  <2>. QED BY <1>5, <2>2 DEF StatusOfAttempt, Last
<1>11. \A b \in AttemptIds \ {a} : StatusOfAttempt(b)' = StatusOfAttempt(b)
  BY <1>5 DEF StatusOfAttempt
<1>. QED BY <1>0, <1>4, <1>5, <1>7, <1>8, <1>9, <1>10, <1>11

\* What an event that is about to be committed may rely on
LEMMA NoteFollows ==
    ASSUME LogInv, NEW c \in Clerks, Noting(task[c]), NEW n, n = NoteOf(task[c].req)
    PROVE  /\ \A x \in Notes : ~SameNote(x, n)
           /\ n.attempt \in AttemptIds
           /\ n.status # "scheduled" => NoteThere(n.attempt, "scheduled")
           /\ n.status \in Ends => NoteThere(n.attempt, "evaluating")
           /\ task[c].req.op = "attempt" => n.status = "scheduled" /\ n.attempt = task[c].req.id
           /\ \/ n.status = "scheduled" /\ \A x \in Notes : x.attempt # n.attempt
              \/ n.status = "evaluating" /\ StatusOfAttempt(n.attempt) = "scheduled"
              \/ n.status \in Ends /\ StatusOfAttempt(n.attempt) = "evaluating"
<1> DEFINE r == task[c].req
<1>1. TaskOK(task[c]) /\ r \in Tasks /\ r.op \in {"attempt", "report"}
  BY AtStage, TaskCases DEF Noting
<1>2. n.attempt \in AttemptIds /\ \A x \in Notes : ~SameNote(x, n)
  BY <1>1, NoteFields DEF TaskOK
<1>3. CASE r.op = "attempt"
  <2>1. n.status = "scheduled" /\ n.attempt = r.id
    BY <1>1, <1>3, NoteFields
  <2>2. \A x \in Notes : x.attempt # n.attempt
    BY <1>2, <2>1 DEF LogInv, LogRows, NoteThere, SameNote
  <2>. QED BY <1>2, <2>1, <2>2 DEF Ends
<1>4. CASE r.op = "report"
  <2>1. n.attempt = r.attempt /\ n.status = r.status /\ FollowsStatus(r)
    BY <1>1, <1>4, NoteFields DEF TaskOK
  <2>2. \/ n.status = "evaluating" /\ StatusOfAttempt(n.attempt) = "scheduled"
        \/ n.status \in Ends /\ StatusOfAttempt(n.attempt) = "evaluating"
    BY <2>1 DEF FollowsStatus
  <2>3. NoteThere(n.attempt, StatusOfAttempt(n.attempt))
    BY <1>2, <2>2, StatusIsThere
  <2>4. NoteThere(n.attempt, "scheduled")
    BY <1>2, <2>3, ScheduledFirst
  <2>5. n.status \in Ends => NoteThere(n.attempt, "evaluating")
    BY <2>2, <2>3 DEF Ends
  <2>. QED BY <1>2, <1>4, <2>2, <2>4, <2>5
<1>. QED BY <1>1, <1>3, <1>4

LEMMA CommitNoteOK ==
    ASSUME LogInv, NEW c \in Clerks, CommitTask(c), task[c].req.op # "operation"
    PROVE  LogInv'
<1> DEFINE r == task[c].req
           t == Over(c, "created")
<1>0. PICK n : n = NoteOf(r)
  OBVIOUS
<1>1. task[c].stage = "commit" /\ task[c] # Free /\ r \in Tasks /\ Noting(task[c])
      /\ TaskOK(task[c])
  BY AtStage DEF CommitTask, Noting
<1>2. t \in Sent /\ t.stage = "created" /\ t.req = r /\ ~t.retry
  BY <1>1, AtStage, Turned DEF LogInv, TaskStages, TaskAnswers
<1>3. /\ task' = [task EXCEPT ![c] = t] /\ operations' = operations
      /\ attempts' = attempts \cup (IF r.op = "attempt" THEN {AttemptOf(r)} ELSE {})
  BY DEF CommitTask
<1>4. /\ timeline' \in [AttemptIds -> Seq(NotesSent)]
      /\ \A a \in AttemptIds \ {n.attempt} : timeline'[a] = timeline[a]
      /\ ToSet(timeline'[n.attempt]) = ToSet(timeline[n.attempt]) \cup {n}
      /\ Notes' = Notes \cup {n}
      /\ setback \subseteq setback'
      /\ n.attempt \notin setback' => StatusOfAttempt(n.attempt)' = n.status
      /\ \A a \in AttemptIds \ {n.attempt} : StatusOfAttempt(a)' = StatusOfAttempt(a)
  BY <1>0, NoteTakesPlace
<1>5. /\ \A x \in Notes : ~SameNote(x, n)
      /\ n.attempt \in AttemptIds
      /\ n.status # "scheduled" => NoteThere(n.attempt, "scheduled")
      /\ n.status \in Ends => NoteThere(n.attempt, "evaluating")
      /\ r.op = "attempt" => n.status = "scheduled" /\ n.attempt = r.id
      /\ \/ n.status = "scheduled" /\ \A x \in Notes : x.attempt # n.attempt
         \/ n.status = "evaluating" /\ StatusOfAttempt(n.attempt) = "scheduled"
         \/ n.status \in Ends /\ StatusOfAttempt(n.attempt) = "evaluating"
  BY <1>0, <1>1, NoteFollows
<1>6. ASSUME NEW d \in Clerks \ {c}, Noting(task[d])
      PROVE  ~SameNote(n, NoteOf(task[d].req)) /\ NoteOf(task[d].req).attempt # n.attempt
             /\ NoteOf(task[d].req).attempt \in AttemptIds
  <2>1. ~SameNote(n, NoteOf(task[d].req)) /\ NoteOf(task[d].req).attempt # n.attempt
    BY <1>0, <1>1, <1>6, NotesApart DEF LogInv, Apart
  <2>. QED BY <1>6, <2>1, NoteFollows
<1> HIDE DEF t
<1>7. /\ task' \in [Clerks -> Sent \cup {Free}]
      /\ \A d \in Clerks : task'[d] = IF d = c THEN t ELSE task[d]
  BY <1>2, <1>3 DEF LogInv, LogTypes
<1>8. /\ \A a, status : NoteThere(a, status) => NoteThere(a, status)'
      /\ \A id : IsOperation(id) => IsOperation(id)'
      /\ \A x : FailedBefore(x) => FailedBefore(x)'
  BY <1>3, <1>4, MoreRows
<1>9. ASSUME NEW a, NEW status, NoteThere(a, status)'
      PROVE  NoteThere(a, status) \/ (a = n.attempt /\ status = n.status)
  BY <1>4, <1>9 DEF NoteThere
<1>10. NoteThere(n.attempt, n.status)'
  BY <1>4 DEF NoteThere
<1>11. r.op = "attempt" => /\ \A x \in attempts : ~SameAttempt(x, AttemptOf(r))
                           /\ FailedBefore(AttemptOf(r)) /\ IsOperation(r.of)
  BY <1>1 DEF TaskOK, Scheduling
<1>12. LogTypes'
  <2>1. r.op = "attempt" => AttemptOf(r) \in AttemptsSent
    BY <1>1 DEF AttemptsSent
  <2>. QED BY <1>3, <1>4, <1>7, <2>1 DEF LogInv, LogTypes
<1>13. LatestIsLast'
  <2> SUFFICES ASSUME NEW a \in AttemptIds \ setback'
               PROVE  /\ \A status \in Ends : NoteThere(a, status)' => StatusOfAttempt(a)' = status
                      /\ NoteThere(a, "evaluating")' /\ (\A status \in Ends : ~NoteThere(a, status)')
                           => StatusOfAttempt(a)' = "evaluating"
    BY DEF LatestIsLast
  <2>1. /\ \A status \in Ends : NoteThere(a, status) => StatusOfAttempt(a) = status
        /\ NoteThere(a, "evaluating") /\ (\A status \in Ends : ~NoteThere(a, status))
             => StatusOfAttempt(a) = "evaluating"
    BY <1>4 DEF LogInv, LogRows, LatestIsLast
  <2>2. CASE a # n.attempt
    BY <1>4, <1>8, <1>9, <2>1, <2>2
  <2>3. CASE a = n.attempt
    <3>1. StatusOfAttempt(a)' = n.status
      BY <1>4, <2>3
    <3>2. ASSUME NEW status \in Ends, NoteThere(a, status) PROVE FALSE
      <4>1. PICK x \in Notes : x.attempt = n.attempt /\ x.status = status
        BY <2>3, <3>2 DEF NoteThere
      <4>2. n.status \notin Ends
        BY <1>5, <4>1 DEF SameNote, Ends
      <4>3. StatusOfAttempt(a) = "scheduled"
        BY <1>5, <2>3, <4>1, <4>2
      <4>. QED BY <2>1, <3>2, <4>3 DEF Ends
    <3>3. NoteThere(a, "evaluating") => n.status \in Ends
      <4>1. NoteThere(a, "evaluating") => n.status # "scheduled"
        BY <1>5, <2>3 DEF NoteThere, Ends
      <4>2. NoteThere(a, "evaluating") => n.status # "evaluating"
        BY <1>5, <2>3 DEF NoteThere, SameNote
      <4>. QED BY <1>5, <4>1, <4>2
    <3>. QED BY <1>9, <1>10, <2>3, <3>1, <3>2, <3>3
  <2>. QED BY <2>2, <2>3
<1>14. LogRows'
  <2>1. ASSUME NEW a \in AttemptIds, NEW i \in DOMAIN timeline'[a]
        PROVE  timeline'[a][i].attempt = a
    <3>1. CASE a # n.attempt
      BY <1>4, <3>1 DEF LogInv, LogRows
    <3>2. CASE a = n.attempt
      <4>1. timeline'[a][i] \in ToSet(timeline[a]) \cup {n}
        BY <1>4, <3>2 DEF ToSet
      <4>. QED BY <3>2, <4>1 DEF LogInv, LogRows, ToSet
    <3>. QED BY <3>1, <3>2
  <2>2. \A x, y \in Notes' : SameNote(x, y) => x = y
    <3>1. \A x \in Notes : ~SameNote(n, x)
      BY <1>5 DEF SameNote
    <3>. QED BY <1>4, <1>5, <3>1 DEF LogInv, LogRows
  <2>3. ASSUME NEW x \in Notes'
        PROVE  /\ NoteThere(x.attempt, "scheduled")'
               /\ x.status \in Ends => NoteThere(x.attempt, "evaluating")'
    <3>1. CASE x \in Notes
      BY <1>8, <3>1 DEF LogInv, LogRows
    <3>2. CASE x = n
      BY <1>5, <1>8, <1>10, <3>2 DEF Ends
    <3>. QED BY <1>4, <3>1, <3>2
  <2>4. \A x, y \in attempts' : SameAttempt(x, y) => x = y
    <3>1. r.op = "attempt" => \A x \in attempts : ~SameAttempt(AttemptOf(r), x)
      BY <1>11 DEF SameAttempt
    <3>. QED BY <1>3, <1>11, <3>1 DEF LogInv, LogRows
  <2>5. ASSUME NEW x \in attempts' PROVE NoteThere(x.id, "scheduled")' /\ IsOperation(x.op)'
    <3>1. CASE x \in attempts
      BY <1>8, <3>1 DEF LogInv, LogRows
    <3>2. CASE r.op = "attempt" /\ x = AttemptOf(r)
      BY <1>5, <1>8, <1>10, <1>11, <3>2 DEF AttemptOf
    <3>. QED BY <1>3, <3>1, <3>2
  <2>. QED BY <1>13, <2>1, <2>2, <2>3, <2>4, <2>5 DEF LogRows
<1>15. \A x \in attempts' : FailedBefore(x)'
  BY <1>3, <1>8, <1>11 DEF LogInv
<1>16. ASSUME NEW d \in Clerks, task'[d] # Free PROVE TaskOK(task[d])'
  <2>1. CASE d = c
    BY <1>1, <1>2, <1>7, <2>1, TaskCases DEF TaskOK, Scheduling, Noting, TaskAnswers
  <2>2. CASE d # c
    <3>1. task'[d] = task[d] /\ task[d] # Free /\ d \in Clerks \ {c}
      BY <1>7, <1>16, <2>2
    <3>2. Scheduling(task[d]) =>
              \A x \in attempts' \ attempts : ~SameAttempt(x, AttemptOf(task[d].req))
      <4>1. Apart(task[c], task[d])
        BY <2>2 DEF LogInv
      <4>. QED BY <1>1, <1>3, <4>1 DEF Apart, Scheduling
    <3>3. Noting(task[d]) =>
              LET m == NoteOf(task[d].req)
              IN  /\ \A x \in Notes' \ Notes : ~SameNote(x, m)
                  /\ timeline'[m.attempt] = timeline[m.attempt]
      BY <1>4, <1>6, <3>1
    <3>. QED BY <1>3, <1>4, <3>1, <3>2, <3>3, OthersStay
  <2>. QED BY <2>1, <2>2
<1>17. ASSUME NEW d \in Clerks, NEW e \in Clerks, d # e PROVE Apart(task'[d], task'[e])
  BY <1>2, <1>7, <1>17 DEF LogInv, Apart, Scheduling, Noting
<1>. QED BY <1>12, <1>14, <1>15, <1>16, <1>17 DEF LogInv

-----------------------------------------------------------------------------
(* The log keeps its invariant *)

DutyIsKnown == duty \in Duties

LEMMA LogInvInit == JobsInit => LogInv /\ DutyIsKnown
<1> SUFFICES ASSUME JobsInit PROVE LogInv /\ DutyIsKnown
  OBVIOUS
<1>1. \A c \in Clerks : task[c] = Free
  BY DEF JobsInit
<1>2. \A a \in AttemptIds : timeline[a] = <<>>
  BY DEF JobsInit
<1>3. Notes = {}
  BY <1>2 DEF Notes
<1>4. LogTypes
  BY DEF JobsInit, LogTypes
<1>5. LogRows
  BY <1>2, <1>3 DEF JobsInit, LogRows, LatestIsLast, NoteThere
<1>6. \A c, d \in Clerks : Apart(task[c], task[d])
  BY <1>1 DEF Apart, Scheduling, Noting, Free
<1>. QED BY <1>1, <1>4, <1>5, <1>6 DEF LogInv, JobsInit, DutyIsKnown

LEMMA LogInvNext == ASSUME LogInv, DutyIsKnown, JobsNext PROVE LogInv' /\ DutyIsKnown'
<1>1. PICK c \in Clerks : \/ \E r \in duty[c] : Send(c, r)
                          \/ TaskStep(c) \/ AnsweredTask(c) \/ LoseTask(c)
  BY DEF JobsNext
<1>2. DutyIsKnown'
  BY <1>1 DEF DutyIsKnown, TaskStep, Send, AnsweredTask, LoseTask, Proceed, AdviseKey,
              LookForOperation, InsertOperation, ShareParent, LockRow, LookForAttempt,
              InsertAttempt, ShareOperation, InsertScheduled, InsertNote, LookForReport,
              InsertReport, CommitTask, BreakCycle
<1>3. CASE \E r \in duty[c] : Send(c, r)
  <2>1. duty[c] \subseteq Tasks
    BY DutyAssumption DEF DutyIsKnown
  <2>. QED BY <1>2, <1>3, <2>1, SendOK
<1>4. CASE CommitTask(c)
  BY <1>2, <1>4, CommitOperationOK, CommitNoteOK
<1>5. CASE AnsweredTask(c) \/ LoseTask(c)
  BY <1>2, <1>5, FreeOK
<1>6. CASE TaskStep(c) /\ ~CommitTask(c)
  BY <1>2, <1>6, OperationSteps, LockRowOK, AttemptSteps, ReportSteps, BreakCycleOK DEF TaskStep
<1>. QED BY <1>1, <1>3, <1>4, <1>5, <1>6

LEMMA LogInvStutter == ASSUME LogInv, DutyIsKnown, UNCHANGED jobVars PROVE LogInv' /\ DutyIsKnown'
<1>1. UNCHANGED <<operations, attempts, timeline, task, setback, duty>>
  BY DEF jobVars
<1>2. LogTypes' /\ DutyIsKnown'
  BY <1>1 DEF LogInv, LogTypes, DutyIsKnown
<1>3. LogRows'
  <2>1. LatestIsLast'
    BY <1>1, SameRows DEF LogInv, LogRows, LatestIsLast
  <2>. QED BY <1>1, <2>1, SameRows DEF LogInv, LogRows
<1>4. \A c \in Clerks : task'[c] # Free => TaskOK(task[c])'
  BY <1>1, SameRows DEF LogInv, TaskOK
<1>. QED BY <1>1, <1>2, <1>3, <1>4, SameRows DEF LogInv

\* The log's invariant says what must hold of it.
LEMMA LogAgrees == LogInv => AttemptsAgree
<1> SUFFICES ASSUME LogInv PROVE AttemptsAgree
  OBVIOUS
<1>1. ASSUME NEW x \in attempts
      PROVE  /\ ~(NoteThere(x.id, "succeeded") /\ NoteThere(x.id, "failed"))
             /\ NoteThere(x.id, "succeeded") \/ NoteThere(x.id, "failed") => NoteThere(x.id, "evaluating")
  BY DEF LogInv, LogRows, NoteThere, SameNote, Ends
<1>2. TriesFollow
  BY <1>1 DEF TriesFollow, LogInv, LogRows, FailedBefore, IsOperation
<1>3. ASSUME NEW c \in Clerks, task[c].stage \in TaskAnswers, task[c].retry
      PROVE  \/ task[c].stage = "replayed"
             \/ task[c].req.op = "report" /\ task[c].req.error = ""
  BY <1>3, AtStage DEF TaskOK, TaskAnswers
<1>4. TasksAreReplayed
  BY <1>3 DEF TasksAreReplayed
<1>. QED BY <1>2, <1>4 DEF AttemptsAgree, LogInv, LogRows

-----------------------------------------------------------------------------
(* The visitors' invariant *)

VisitStages == {"identify", "find", "pick", "key", "event", "lock", "active", "look", "result",
                "share", "delete", "run", "commit"} \cup Answers

StagesOfVisit(r) ==
    Answers \cup
    CASE r.op = "pick" -> {"identify", "find", "pick", "key", "commit"}
      [] r.op = "event" -> {"identify", "event", "commit"}
      [] r.op = "result" -> {"lock", "active", "look", "result", "share", "commit"}
      [] r.op = "purge" -> {"delete", "run", "commit"}

Tables == {"identifier", "pick", "event", "result", "run"}
IdentifiersSent == {IdentifierOf(r) : r \in {x \in Visits : x.op \in Identified}}
Names == {r.id : r \in {x \in Visits : x.op \in Identified}} \cup {NoPick}

VisitRecords == [stage: VisitStages, req: Visits, added: SUBSET Tables,
                 gone: SUBSET IdentifiersSent, locked: BOOLEAN, stable: Names, known: Names,
                 retry: BOOLEAN]

VisitTypes ==
    /\ identifiers \subseteq IdentifiersSent
    /\ visit \in [Visitors -> VisitRecords \cup {Away}]

\* What a result says has been an outcome of the forecast picked.
Earned(x) ==
    \E p \in picks :
        p.id = x.pick /\ \E c \in committed : HasOutcome(c) /\ c.f = p.f /\ c.out = x.out

VisitRows ==
    /\ \A x, y \in identifiers : SameToken(x, y) => x = y
    /\ \A x \in identifiers : x.kind = "pick" => Recorded(x.record)
    /\ \A x, y \in results : SameResult(x, y) => x = y
    /\ \A x \in results : Earned(x)

\* The tables it has inserted into
AddedOK(w) ==
    /\ w.stage \in Answers \cup {"identify"} => w.added = {}
    /\ w.req.op = "pick" => w.added \subseteq {"identifier", "pick"}
    /\ w.req.op = "event" => w.added \subseteq {"identifier", "event"}
    /\ w.req.op = "result" => w.added = IF w.stage \in {"share", "commit"} THEN {"result"} ELSE {}
    /\ w.req.op = "purge" => w.added \subseteq {"run"}

\* An identifier it has inserted is the only one, and names the pick it records.
IdentifierOK(w) ==
    "identifier" \in w.added =>
        /\ \A x \in identifiers : ~SameToken(x, IdentifierOf(w.req))
        /\ w.req.op = "pick" /\ w.stage \in {"pick", "key", "commit"} => w.stable = w.req.id

\* The pick it is about to name is there, and one it knew of is named all along.
PickOK(w) ==
    /\ w.req.op = "pick" /\ w.stage \in {"key", "commit"} => "pick" \in w.added \/ Recorded(w.stable)
    /\ w.known # NoPick =>
         /\ w.req.op = "pick" /\ w.added = {}
         /\ \/ w.stage \in {"identify", "find", "pick", "commit"} /\ NamedBy(w.req) = {w.known}
            \/ w.stage = "replayed"
         /\ w.stage \in {"pick", "commit", "replayed"} => w.stable = w.known

\* A result it inserts is earned and the only one of its pick; one that was there
\* is recognised, or its outcome has been corrected.
ResultOK(w) ==
    /\ w.req.op = "result" =>
         /\ w.stage \in {"look", "result", "share", "commit"} => Earned(ResultOf(w.req))
         /\ "result" \in w.added => \A x \in results : ~SameResult(x, ResultOf(w.req))
         /\ w.stage \in {"created", "replayed"} => ResultOf(w.req) \in results
    /\ w.retry =>
         /\ w.req.op = "result" /\ ResultOf(w.req) \in results
         /\ \/ w.stage \in {"lock", "active", "look", "replayed"}
            \/ w.stage = "refused" /\ w.req.out \in Superseded

VisitOK(w) ==
    w.stage \in StagesOfVisit(w.req) /\ AddedOK(w) /\ IdentifierOK(w) /\ PickOK(w) /\ ResultOK(w)

VisitsApart(w, u) ==
    /\ "identifier" \in w.added /\ "identifier" \in u.added =>
           ~SameToken(IdentifierOf(w.req), IdentifierOf(u.req))
    /\ "result" \in w.added /\ "result" \in u.added =>
           ~SameResult(ResultOf(w.req), ResultOf(u.req))

VisitInv ==
    /\ VisitTypes
    /\ VisitRows
    /\ \A v \in Visitors : visit[v] # Away => VisitOK(visit[v])
    /\ \A v, u \in Visitors : v # u => VisitsApart(visit[v], visit[u])

-----------------------------------------------------------------------------
(* A visitor moves on *)

LEMMA VisitCases ==
    ASSUME NEW r \in Visits
    PROVE  \/ r.op = "pick" /\ StagesOfVisit(r) = Answers \cup {"identify", "find", "pick", "key", "commit"}
           \/ r.op = "event" /\ StagesOfVisit(r) = Answers \cup {"identify", "event", "commit"}
           \/ /\ r.op = "result"
              /\ StagesOfVisit(r) = Answers \cup {"lock", "active", "look", "result", "share", "commit"}
           \/ r.op = "purge" /\ StagesOfVisit(r) = Answers \cup {"delete", "run", "commit"}
BY VisitAssumption DEF StagesOfVisit, Identified

LEMMA VisitTurned ==
    ASSUME VisitTypes, NEW v \in Visitors, visit[v] # Away, NEW s \in VisitStages
    PROVE  /\ visit[v] \in VisitRecords /\ visit[v].req \in Visits
           /\ Then(v, s) \in VisitRecords /\ Finished(v, s) \in VisitRecords
           /\ \A t \in {Then(v, s), Finished(v, s)} :
                 /\ t.stage = s /\ t.req = visit[v].req /\ t.stable = visit[v].stable
                 /\ t.known = visit[v].known /\ t.retry = visit[v].retry
           /\ Then(v, s).added = visit[v].added /\ Finished(v, s).added = {}
<1>1. visit[v] \in VisitRecords
  BY DEF VisitTypes
<1>. QED BY <1>1 DEF Then, Finished, VisitRecords

LEMMA ApartBothWays == ASSUME NEW w, NEW u, VisitsApart(w, u) PROVE VisitsApart(u, w)
BY DEF VisitsApart, SameToken, SameResult

\* What is committed about forecasts only grows.
LEMMA RowsStand ==
    ASSUME UNCHANGED rows, committed \subseteq committed'
    PROVE  /\ identifiers' = identifiers /\ picks' = picks /\ results' = results
           /\ \A r : NamedBy(r)' = NamedBy(r)
           /\ \A id : Recorded(id)' <=> Recorded(id)
           /\ \A x : Earned(x) => Earned(x)'
           /\ Superseded \subseteq Superseded'
<1>1. identifiers' = identifiers /\ picks' = picks /\ results' = results
  BY DEF rows
<1>2. \A x : Earned(x) => Earned(x)'
  BY <1>1 DEF Earned
<1>. QED BY <1>1, <1>2 DEF NamedBy, Recorded, Superseded

\* So what holds of a visit stays.
LEMMA VisitStands ==
    ASSUME UNCHANGED rows, committed \subseteq committed', NEW w, VisitOK(w)
    PROVE  VisitOK(w)'
<1>1. AddedOK(w)' /\ (w.stage \in StagesOfVisit(w.req))'
  BY DEF VisitOK, AddedOK
<1>2. IdentifierOK(w)'
  BY RowsStand DEF VisitOK, IdentifierOK
<1>3. PickOK(w)'
  BY RowsStand DEF VisitOK, PickOK
<1>4. ResultOK(w)'
  BY RowsStand DEF VisitOK, ResultOK
<1>. QED BY <1>1, <1>2, <1>3, <1>4 DEF VisitOK

LEMMA VisitRowsStand ==
    ASSUME UNCHANGED rows, committed \subseteq committed', VisitRows
    PROVE  VisitRows'
BY RowsStand DEF VisitRows

\* A step of the forecasts' transactions
LEMMA VisitInvBeside ==
    ASSUME VisitInv, UNCHANGED <<rows, visit>>, committed \subseteq committed'
    PROVE  VisitInv'
<1>1. VisitTypes'
  BY RowsStand DEF VisitInv, VisitTypes
<1>2. \A v \in Visitors : visit[v] # Away => VisitOK(visit[v])'
  BY VisitStands DEF VisitInv
<1>. QED BY <1>1, <1>2, VisitRowsStand DEF VisitInv

\* A visitor does what his own record and those of the others allow.
LEMMA VisitMoves ==
    ASSUME VisitInv, NEW v \in Visitors, NEW w \in VisitRecords \cup {Away}, GoOn(v, w),
           w # Away => VisitOK(w), \A u \in Visitors \ {v} : VisitsApart(w, visit[u])
    PROVE  VisitInv'
<1>1. /\ UNCHANGED rows /\ UNCHANGED committed
      /\ visit' \in [Visitors -> VisitRecords \cup {Away}]
      /\ \A u \in Visitors : visit'[u] = IF u = v THEN w ELSE visit[u]
  BY DEF VisitInv, VisitTypes, GoOn, vars
<1>2. ASSUME NEW x, VisitOK(x) PROVE VisitOK(x)'
  BY <1>1, <1>2, VisitStands
<1>3. ASSUME NEW u \in Visitors, visit'[u] # Away PROVE VisitOK(visit'[u])
  BY <1>1, <1>3 DEF VisitInv
<1>4. ASSUME NEW u \in Visitors, NEW t \in Visitors, u # t PROVE VisitsApart(visit'[u], visit'[t])
  BY <1>1, <1>4, ApartBothWays DEF VisitInv
<1>5. VisitRows'
  BY <1>1, VisitRowsStand DEF VisitInv
<1>6. VisitTypes'
  BY <1>1, RowsStand DEF VisitInv, VisitTypes
<1>. QED BY <1>2, <1>3, <1>4, <1>5, <1>6 DEF VisitInv, VisitsApart

\* He goes on with his request and inserts nothing.
LEMMA VisitAdvances ==
    ASSUME VisitInv, NEW v \in Visitors, visit[v] # Away, NEW w \in VisitRecords, GoOn(v, w),
           VisitOK(w), w.req = visit[v].req,
           w.added \cap {"identifier", "result"} \subseteq visit[v].added
    PROVE  VisitInv'
<1>1. ASSUME NEW u \in Visitors \ {v} PROVE VisitsApart(w, visit[u])
  <2>1. VisitsApart(visit[v], visit[u])
    BY DEF VisitInv
  <2>. QED BY <2>1 DEF VisitsApart
<1>. QED BY <1>1, VisitMoves

\* A token names one record at most.
LEMMA NamedOnce ==
    ASSUME VisitRows, NEW r, NamedBy(r) # {}
    PROVE  \E id : NamedBy(r) = {id}
<1>1. PICK x \in identifiers : SameToken(x, IdentifierOf(r))
  BY DEF NamedBy
<1>2. \A y \in identifiers : SameToken(y, IdentifierOf(r)) => y = x
  BY <1>1 DEF VisitRows, SameToken
<1>3. NamedBy(r) = {x.record}
  BY <1>1, <1>2 DEF NamedBy
<1>. QED BY <1>3

LEMMA OnlyIsName ==
    ASSUME VisitTypes, NEW r
    PROVE  Only(NamedBy(r)) \in Names
<1>1. NamedBy(r) \subseteq Names
  BY DEF NamedBy, VisitTypes, IdentifiersSent, IdentifierOf, Names
<1>2. Only(NamedBy(r)) \in NamedBy(r) \cup {NoPick}
  BY DEF Only
<1>. QED BY <1>1, <1>2 DEF Names

\* What the visitors do is of their records.
LEMMA AtVisit ==
    ASSUME VisitInv, NEW v \in Visitors, visit[v].stage # "away"
    PROVE  /\ visit[v] # Away /\ visit[v] \in VisitRecords /\ visit[v].req \in Visits
           /\ visit[v].stage \in StagesOfVisit(visit[v].req) /\ visit[v].stage \in VisitStages
           /\ VisitOK(visit[v]) /\ VisitTypes /\ VisitRows
<1>1. visit[v] # Away
  BY DEF Away
<1>2. visit[v] \in VisitRecords /\ VisitOK(visit[v])
  BY <1>1 DEF VisitInv, VisitTypes
<1>. QED BY <1>1, <1>2 DEF VisitRecords, VisitOK, VisitInv

\* A visit that ends without a commit inserts nothing.
LEMMA VisitAnswered ==
    ASSUME VisitInv, NEW v \in Visitors, visit[v] # Away, NEW answer \in {"replayed", "refused"},
           GoOn(v, Finished(v, answer)),
           visit[v].known = NoPick,
           visit[v].req.op = "result" =>
              /\ answer = "replayed" => ResultOf(visit[v].req) \in results
              /\ visit[v].retry => answer = "replayed" \/ visit[v].req.out \in Superseded
    PROVE  VisitInv'
<1> DEFINE w == Finished(v, answer)
<1>1. answer \in VisitStages /\ answer \in Answers
  BY DEF VisitStages, Answers
<1>2. /\ w \in VisitRecords /\ w.stage = answer /\ w.req = visit[v].req /\ w.added = {}
      /\ w.known = NoPick /\ w.retry = visit[v].retry
  BY <1>1, VisitTurned DEF VisitInv
<1>3. visit[v].retry => visit[v].req.op = "result" /\ ResultOf(visit[v].req) \in results
  BY DEF VisitInv, VisitOK, ResultOK
<1> HIDE DEF w
<1>4. w.stage \in StagesOfVisit(w.req)
  BY <1>1, <1>2 DEF StagesOfVisit
<1>5. AddedOK(w) /\ IdentifierOK(w) /\ PickOK(w)
  BY <1>1, <1>2 DEF AddedOK, IdentifierOK, PickOK
<1>6. ResultOK(w)
  BY <1>2, <1>3 DEF ResultOK
<1>7. VisitOK(w) /\ GoOn(v, w)
  BY <1>4, <1>5, <1>6 DEF VisitOK, w
<1>. QED BY <1>2, <1>7, VisitAdvances

-----------------------------------------------------------------------------
(* The steps of a visit *)

LEMMA VisitBegins ==
    ASSUME VisitInv, NEW v \in Visitors, NEW r \in Visits, Visit(v, r)
    PROVE  VisitInv'
<1> DEFINE w == [stage |-> CASE r.op \in Identified -> "identify"
                             [] r.op = "result" -> "lock"
                             [] r.op = "purge" -> "delete",
                 req |-> r, added |-> {}, gone |-> {}, locked |-> FALSE, stable |-> NoPick,
                 known |-> IF r.op = "pick" THEN Only(NamedBy(r)) ELSE NoPick,
                 retry |-> r.op = "result" /\ ResultOf(r) \in results]
<1>1. GoOn(v, w) /\ VisitTypes /\ VisitRows
  BY DEF Visit, VisitInv
<1>2. /\ w.req = r /\ w.added = {} /\ w.gone = {} /\ w.locked = FALSE /\ w.stable = NoPick
      /\ w.known = IF r.op = "pick" THEN Only(NamedBy(r)) ELSE NoPick
      /\ w.retry = (r.op = "result" /\ ResultOf(r) \in results)
      /\ w.stage = CASE r.op \in Identified -> "identify"
                      [] r.op = "result" -> "lock"
                      [] r.op = "purge" -> "delete"
  OBVIOUS
<1>3. \/ r.op \in Identified /\ w.stage = "identify"
      \/ r.op = "result" /\ w.stage = "lock"
      \/ r.op = "purge" /\ w.stage = "delete"
  BY <1>2, VisitAssumption DEF Identified
<1>4. w.stage \in StagesOfVisit(r) /\ w.stage \in VisitStages
  BY <1>3, VisitCases DEF VisitStages, Identified
<1>5. r.op = "pick" => Only(NamedBy(r)) \in Names
  BY <1>1, OnlyIsName
<1>6. w \in VisitRecords
  <2>1. w.known \in Names
    BY <1>2, <1>5 DEF Names
  <2>. QED BY <1>2, <1>4, <2>1 DEF VisitRecords, Names
<1> HIDE DEF w
<1>7. w.known # NoPick => r.op = "pick" /\ NamedBy(r) = {w.known} /\ w.stage = "identify"
  BY <1>1, <1>2, <1>3, NamedOnce DEF Only, Identified
<1>8. AddedOK(w) /\ IdentifierOK(w)
  BY <1>2, <1>3 DEF AddedOK, IdentifierOK
<1>9. PickOK(w)
  BY <1>2, <1>3, <1>7 DEF PickOK, Identified
<1>10. ResultOK(w)
  BY <1>2, <1>3 DEF ResultOK, Identified
<1>11. VisitOK(w)
  BY <1>2, <1>4, <1>8, <1>9, <1>10 DEF VisitOK
<1>12. \A u \in Visitors \ {v} : VisitsApart(w, visit[u])
  BY <1>2 DEF VisitsApart
<1>. QED BY <1>1, <1>6, <1>11, <1>12, VisitMoves

LEMMA IdentifyOK ==
    ASSUME VisitInv, NEW v \in Visitors, Identify(v)
    PROVE  VisitInv'
<1> DEFINE r == visit[v].req
           next == IF r.op = "pick" THEN "find" ELSE "event"
           new == IdentifierOf(r)
<1>1. visit[v].stage = "identify" /\ visit[v] # Away
  BY AtVisit DEF Identify
<1>2. /\ visit[v] \in VisitRecords /\ r \in Visits /\ VisitOK(visit[v]) /\ VisitTypes /\ VisitRows
      /\ visit[v].stage \in StagesOfVisit(r)
  BY <1>1, AtVisit
<1>3. r.op \in Identified /\ next \in StagesOfVisit(r) /\ next \in VisitStages
  BY <1>1, <1>2, VisitCases DEF Answers, Identified, VisitStages
<1>4. /\ visit[v].added = {} /\ ~visit[v].retry
      /\ visit[v].known # NoPick => r.op = "pick" /\ NamedBy(r) = {visit[v].known}
  BY <1>1, <1>2 DEF VisitOK, AddedOK, PickOK, ResultOK
<1>5. CASE NamedBy(r) # {}
  <2> DEFINE w == Then(v, next)
  <2>1. GoOn(v, w)
    BY <1>5 DEF Identify
  <2>2. /\ w \in VisitRecords /\ w.stage = next /\ w.req = r /\ w.added = {}
        /\ w.known = visit[v].known /\ ~w.retry
    BY <1>1, <1>2, <1>3, <1>4, VisitTurned
  <2> HIDE DEF w
  <2>3. AddedOK(w) /\ IdentifierOK(w)
    BY <1>3, <2>2 DEF AddedOK, IdentifierOK, Identified
  <2>4. PickOK(w)
    BY <1>3, <1>4, <2>2 DEF PickOK, Identified
  <2>5. ResultOK(w)
    BY <1>3, <2>2 DEF ResultOK, Identified
  <2>6. VisitOK(w)
    BY <1>3, <2>2, <2>3, <2>4, <2>5 DEF VisitOK
  <2>. QED BY <1>1, <2>1, <2>2, <2>6, VisitAdvances
<1>6. CASE NamedBy(r) = {} /\ GoOn(v, Finished(v, "refused"))
  BY <1>1, <1>3, <1>4, <1>6, VisitAnswered DEF Identified
<1>7. CASE NamedBy(r) = {} /\ GoOn(v, [Then(v, next) EXCEPT !.added = {"identifier"}])
  <2> DEFINE w == [Then(v, next) EXCEPT !.added = {"identifier"}]
  <2>1. GoOn(v, w)
    BY <1>7
  <2>2. /\ w \in VisitRecords /\ w.stage = next /\ w.req = r /\ w.added = {"identifier"}
        /\ w.known = visit[v].known /\ ~w.retry
    <3>1. /\ Then(v, next) \in VisitRecords /\ Then(v, next).stage = next
          /\ Then(v, next).req = r /\ Then(v, next).known = visit[v].known
          /\ Then(v, next).retry = visit[v].retry
      BY <1>1, <1>2, <1>3, VisitTurned
    <3>. QED BY <1>4, <3>1 DEF VisitRecords, Tables
  <2> HIDE DEF w
  <2>3. w.known = NoPick
    BY <1>4, <1>7, <2>2
  <2>4. \A x \in identifiers : ~SameToken(x, new)
    BY <1>7 DEF NamedBy
  <2>5. AddedOK(w) /\ IdentifierOK(w)
    BY <1>3, <2>2, <2>4 DEF AddedOK, IdentifierOK, Identified, Answers
  <2>6. PickOK(w) /\ ResultOK(w)
    BY <1>3, <2>2, <2>3 DEF PickOK, ResultOK, Identified
  <2>7. VisitOK(w)
    BY <1>3, <2>2, <2>5, <2>6 DEF VisitOK
  <2>8. ASSUME NEW u \in Visitors \ {v} PROVE VisitsApart(w, visit[u])
    <3>1. "identifier" \in visit[u].added => u \in Elsewhere(v)
      BY DEF Elsewhere, Away
    <3>2. "identifier" \in visit[u].added => ~SameToken(IdentifierOf(visit[u].req), new)
      BY <3>1 DEF Identify, WaitsToIdentify
    <3>. QED BY <2>2, <3>2 DEF VisitsApart, SameToken
  <2>. QED BY <2>1, <2>2, <2>7, <2>8, VisitMoves
<1>. QED BY <1>5, <1>6, <1>7 DEF Identify

LEMMA FindStableOK ==
    ASSUME VisitInv, NEW v \in Visitors, FindStable(v)
    PROVE  VisitInv'
<1> DEFINE r == visit[v].req
           stable == IF "identifier" \in visit[v].added THEN r.id ELSE Only(NamedBy(r))
           w == [Then(v, "pick") EXCEPT !.stable = stable]
<1>1. visit[v].stage = "find" /\ visit[v] # Away /\ GoOn(v, w)
  BY AtVisit DEF FindStable
<1>2. /\ visit[v] \in VisitRecords /\ r \in Visits /\ VisitOK(visit[v]) /\ VisitTypes /\ VisitRows
      /\ visit[v].stage \in StagesOfVisit(r)
  BY <1>1, AtVisit
<1>3. r.op = "pick" /\ "pick" \in StagesOfVisit(r) /\ "pick" \in VisitStages
  BY <1>1, <1>2, VisitCases DEF Answers, VisitStages
<1>4. /\ ~visit[v].retry /\ visit[v].added \subseteq {"identifier", "pick"}
      /\ "identifier" \in visit[v].added => \A x \in identifiers : ~SameToken(x, IdentifierOf(r))
      /\ visit[v].known # NoPick => visit[v].added = {} /\ NamedBy(r) = {visit[v].known}
  BY <1>1, <1>2, <1>3 DEF VisitOK, AddedOK, IdentifierOK, PickOK, ResultOK
<1>5. stable \in Names
  BY <1>2, <1>3, OnlyIsName DEF Names, Identified
<1>6. /\ w \in VisitRecords /\ w.stage = "pick" /\ w.req = r /\ w.added = visit[v].added
      /\ w.known = visit[v].known /\ ~w.retry /\ w.stable = stable
  <2> HIDE DEF stable
  <2> DEFINE t == Then(v, "pick")
  <2>1. /\ t \in VisitRecords /\ t.stage = "pick" /\ t.req = r /\ t.added = visit[v].added
        /\ t.known = visit[v].known /\ t.retry = visit[v].retry
    BY <1>1, <1>2, <1>3, VisitTurned
  <2> HIDE DEF t
  <2>2. w = [t EXCEPT !.stable = stable]
    BY DEF t
  <2>. QED BY <1>4, <1>5, <2>1, <2>2 DEF VisitRecords
<1>7. "identifier" \in w.added => w.stable = r.id
  BY <1>6
<1>8. w.known # NoPick => w.stable = w.known
  BY <1>4, <1>6 DEF Only
<1> HIDE DEF w
<1>9. AddedOK(w) /\ IdentifierOK(w)
  BY <1>3, <1>4, <1>6, <1>7 DEF AddedOK, IdentifierOK, Answers
<1>10. PickOK(w) /\ ResultOK(w)
  BY <1>3, <1>4, <1>6, <1>8 DEF PickOK, ResultOK
<1>11. VisitOK(w)
  BY <1>3, <1>6, <1>9, <1>10 DEF VisitOK
<1>. QED BY <1>1, <1>6, <1>11, VisitAdvances

LEMMA InsertPickOK ==
    ASSUME VisitInv, NEW v \in Visitors, InsertPick(v)
    PROVE  VisitInv'
<1> DEFINE r == visit[v].req
<1>1. visit[v].stage = "pick" /\ visit[v] # Away
  BY AtVisit DEF InsertPick
<1>2. /\ visit[v] \in VisitRecords /\ r \in Visits /\ VisitOK(visit[v]) /\ VisitTypes /\ VisitRows
      /\ visit[v].stage \in StagesOfVisit(r)
  BY <1>1, AtVisit
<1>3. r.op = "pick" /\ {"key", "commit"} \subseteq StagesOfVisit(r) /\ {"key", "commit"} \subseteq VisitStages
  BY <1>1, <1>2, VisitCases DEF Answers, VisitStages
<1>4. /\ ~visit[v].retry /\ visit[v].added \subseteq {"identifier", "pick"}
      /\ "identifier" \in visit[v].added =>
            (\A x \in identifiers : ~SameToken(x, IdentifierOf(r))) /\ visit[v].stable = r.id
      /\ visit[v].known # NoPick =>
            /\ visit[v].added = {} /\ NamedBy(r) = {visit[v].known}
            /\ visit[v].stable = visit[v].known
  BY <1>1, <1>2, <1>3 DEF VisitOK, AddedOK, IdentifierOK, PickOK, ResultOK
<1>5. visit[v].known # NoPick => Recorded(visit[v].stable)
  <2>1. NamedBy(r) = {visit[v].known} =>
           \E x \in identifiers : x.kind = "pick" /\ x.record = visit[v].known
    BY <1>3 DEF NamedBy, SameToken, IdentifierOf
  <2>. QED BY <1>2, <1>4, <2>1 DEF VisitRows
<1>6. CASE visit[v].stable = NoPick /\ GoOn(v, Finished(v, "refused"))
  BY <1>1, <1>3, <1>4, <1>6, VisitAnswered
<1>7. CASE Recorded(visit[v].stable) /\ GoOn(v, Then(v, "commit"))
  <2> DEFINE w == Then(v, "commit")
  <2>1. GoOn(v, w)
    BY <1>7
  <2>2. /\ w \in VisitRecords /\ w.stage = "commit" /\ w.req = r /\ w.added = visit[v].added
        /\ w.known = visit[v].known /\ ~w.retry /\ w.stable = visit[v].stable
    BY <1>1, <1>2, <1>3, <1>4, VisitTurned
  <2> HIDE DEF w
  <2>3. AddedOK(w) /\ IdentifierOK(w)
    BY <1>3, <1>4, <2>2 DEF AddedOK, IdentifierOK, Answers
  <2>4. PickOK(w) /\ ResultOK(w)
    BY <1>3, <1>4, <1>7, <2>2 DEF PickOK, ResultOK
  <2>5. VisitOK(w)
    BY <1>3, <2>2, <2>3, <2>4 DEF VisitOK
  <2>. QED BY <1>1, <2>1, <2>2, <2>5, VisitAdvances
<1>8. CASE ~Recorded(visit[v].stable) /\ GoOn(v, [Then(v, "key") EXCEPT !.added = @ \cup {"pick"}])
  <2> DEFINE t == Then(v, "key")
             w == [t EXCEPT !.added = t.added \cup {"pick"}]
  <2>1. GoOn(v, w)
    BY <1>8
  <2>2. /\ t \in VisitRecords /\ t.stage = "key" /\ t.req = r /\ t.added = visit[v].added
        /\ t.known = visit[v].known /\ ~t.retry /\ t.stable = visit[v].stable
    BY <1>1, <1>2, <1>3, <1>4, VisitTurned
  <2> HIDE DEF t
  <2>3. /\ w \in VisitRecords /\ w.stage = "key" /\ w.req = r /\ w.added = visit[v].added \cup {"pick"}
        /\ w.known = NoPick /\ ~w.retry /\ w.stable = visit[v].stable
    BY <1>5, <1>8, <2>2 DEF VisitRecords, Tables
  <2> HIDE DEF w
  <2>4. AddedOK(w) /\ IdentifierOK(w)
    BY <1>3, <1>4, <2>3 DEF AddedOK, IdentifierOK, Answers
  <2>5. PickOK(w) /\ ResultOK(w)
    BY <1>3, <2>3 DEF PickOK, ResultOK
  <2>6. VisitOK(w)
    BY <1>3, <2>3, <2>4, <2>5 DEF VisitOK
  <2>. QED BY <1>1, <2>1, <2>3, <2>6, VisitAdvances
<1>9. (\E p \in picks : p.id = visit[v].stable) <=> Recorded(visit[v].stable)
  BY DEF Recorded
<1>. QED BY <1>6, <1>7, <1>8, <1>9 DEF InsertPick

LEMMA ShareForecastOfPickOK ==
    ASSUME VisitInv, NEW v \in Visitors, ShareForecastOfPick(v)
    PROVE  VisitInv'
<1> DEFINE r == visit[v].req
           w == Then(v, "commit")
<1>1. visit[v].stage = "key" /\ visit[v] # Away
  BY AtVisit DEF ShareForecastOfPick
<1>2. /\ visit[v] \in VisitRecords /\ r \in Visits /\ VisitOK(visit[v]) /\ VisitTypes
      /\ visit[v].stage \in StagesOfVisit(r)
  BY <1>1, AtVisit
<1>3. r.op = "pick" /\ "commit" \in StagesOfVisit(r) /\ "commit" \in VisitStages
  BY <1>1, <1>2, VisitCases DEF Answers, VisitStages
<1>4. visit[v].known = NoPick /\ ~visit[v].retry
  BY <1>1, <1>2, <1>3 DEF VisitOK, PickOK, ResultOK
<1>5. CASE GoOn(v, Finished(v, "refused"))
  BY <1>1, <1>3, <1>4, <1>5, VisitAnswered
<1>6. CASE GoOn(v, w)
  <2>1. /\ w \in VisitRecords /\ w.stage = "commit" /\ w.req = r /\ w.added = visit[v].added
        /\ w.known = NoPick /\ ~w.retry /\ w.stable = visit[v].stable
    BY <1>1, <1>2, <1>3, <1>4, VisitTurned
  <2>2. GoOn(v, w)
    BY <1>6
  <2> HIDE DEF w
  <2>3. AddedOK(w) /\ IdentifierOK(w)
    BY <1>1, <1>2, <1>3, <2>1 DEF VisitOK, AddedOK, IdentifierOK, Answers
  <2>4. PickOK(w) /\ ResultOK(w)
    BY <1>1, <1>2, <1>3, <2>1 DEF VisitOK, PickOK, ResultOK
  <2>5. VisitOK(w)
    BY <1>3, <2>1, <2>3, <2>4 DEF VisitOK
  <2>. QED BY <1>1, <2>1, <2>2, <2>5, VisitAdvances
<1>. QED BY <1>5, <1>6 DEF ShareForecastOfPick

\* A visit that is no pick goes on, with the tables it may have inserted into.
LEMMA OtherVisitGoesOn ==
    ASSUME VisitInv, NEW v \in Visitors, visit[v] # Away, NEW w \in VisitRecords, GoOn(v, w),
           visit[v].req.op # "pick", w.req = visit[v].req, w.known = visit[v].known,
           w.stage \in StagesOfVisit(w.req), AddedOK(w), ResultOK(w),
           w.added \cap {"identifier", "result"} \subseteq visit[v].added
    PROVE  VisitInv'
<1>1. VisitOK(visit[v])
  BY DEF VisitInv
<1>2. IdentifierOK(w)
  BY <1>1 DEF VisitOK, IdentifierOK
<1>3. PickOK(w)
  BY <1>1 DEF VisitOK, PickOK
<1>4. VisitOK(w)
  BY <1>2, <1>3 DEF VisitOK
<1>. QED BY <1>4, VisitAdvances

LEMMA InsertEventSeenOK ==
    ASSUME VisitInv, NEW v \in Visitors, InsertEventSeen(v)
    PROVE  VisitInv'
<1> DEFINE r == visit[v].req
           t == Then(v, "commit")
<1>1. visit[v].stage = "event" /\ visit[v] # Away
  BY AtVisit DEF InsertEventSeen
<1>2. /\ visit[v] \in VisitRecords /\ r \in Visits /\ VisitOK(visit[v]) /\ VisitTypes
      /\ visit[v].stage \in StagesOfVisit(r)
  BY <1>1, AtVisit
<1>3. r.op = "event" /\ "commit" \in StagesOfVisit(r) /\ "commit" \in VisitStages
  BY <1>1, <1>2, VisitCases DEF Answers, VisitStages
<1>4. ~visit[v].retry /\ visit[v].added \subseteq {"identifier", "event"}
  BY <1>2, <1>3 DEF VisitOK, AddedOK, ResultOK
<1>5. /\ t \in VisitRecords /\ t.stage = "commit" /\ t.req = r /\ t.added = visit[v].added
      /\ t.known = visit[v].known /\ ~t.retry
  BY <1>1, <1>2, <1>3, <1>4, VisitTurned
<1> HIDE DEF t
<1>6. ASSUME NEW w \in {t, [t EXCEPT !.added = t.added \cup {"event"}]}, GoOn(v, w)
      PROVE  VisitInv'
  <2>1. /\ w \in VisitRecords /\ w.stage = "commit" /\ w.req = r
        /\ w.added \in {visit[v].added, visit[v].added \cup {"event"}}
        /\ w.known = visit[v].known /\ ~w.retry
    BY <1>5 DEF VisitRecords, Tables
  <2>2. AddedOK(w) /\ ResultOK(w)
    BY <1>3, <1>4, <2>1 DEF AddedOK, ResultOK, Answers
  <2>. QED BY <1>1, <1>3, <1>6, <2>1, <2>2, OtherVisitGoesOn
<1>7. \E w \in {t, [t EXCEPT !.added = t.added \cup {"event"}]} : GoOn(v, w)
  <2>1. CASE r.id \in seen
    BY <2>1 DEF InsertEventSeen, t
  <2>2. CASE r.id \notin seen
    <3>1. GoOn(v, [t EXCEPT !.added = @ \cup {"event"}])
      BY <2>2 DEF InsertEventSeen, t
    <3>. QED BY <3>1
  <2>. QED BY <2>1, <2>2
<1>. QED BY <1>6, <1>7

\* What a visit about a result has when it goes on to each of its stages.
LEMMA ResultGoesOn ==
    ASSUME VisitInv, NEW v \in Visitors, visit[v] # Away, visit[v].req.op = "result",
           NEW stage \in {"active", "look", "result", "commit"},
           NEW w \in VisitRecords, GoOn(v, w),
           w.stage = stage, w.req = visit[v].req, w.added = visit[v].added,
           w.known = visit[v].known, w.retry = visit[v].retry,
           w.added = IF stage = "commit" THEN {"result"} ELSE {},
           stage # "active" => Earned(ResultOf(w.req)),
           stage = "commit" => \A x \in results : ~SameResult(x, ResultOf(w.req)),
           w.retry => stage \in {"active", "look"}
    PROVE  VisitInv'
<1>1. visit[v].req \in Visits /\ VisitOK(visit[v])
  BY DEF VisitInv, VisitTypes, VisitRecords
<1>2. w.stage \in StagesOfVisit(w.req)
  BY <1>1, VisitCases
<1>3. AddedOK(w)
  BY DEF AddedOK, Answers
<1>4. w.retry => ResultOf(w.req) \in results
  BY <1>1 DEF VisitOK, ResultOK
<1>5. ResultOK(w)
  BY <1>4 DEF ResultOK
<1>. QED BY <1>2, <1>3, <1>5, OtherVisitGoesOn

\* What the function that records a result knows at each of its stages
LEMMA AtResult ==
    ASSUME VisitInv, NEW v \in Visitors,
           visit[v].stage \in {"lock", "active", "look", "result", "share"}
    PROVE  /\ visit[v] # Away /\ visit[v].req.op = "result" /\ visit[v].known = NoPick
           /\ visit[v].added = IF visit[v].stage = "share" THEN {"result"} ELSE {}
           /\ visit[v].stage \in {"look", "result", "share"} => Earned(ResultOf(visit[v].req))
           /\ "result" \in visit[v].added =>
                 \A x \in results : ~SameResult(x, ResultOf(visit[v].req))
           /\ visit[v].retry =>
                 /\ visit[v].stage \in {"lock", "active", "look"}
                 /\ ResultOf(visit[v].req) \in results
           /\ VisitTypes /\ VisitRows
<1>1. /\ visit[v] # Away /\ visit[v].req \in Visits /\ VisitOK(visit[v]) /\ VisitTypes /\ VisitRows
      /\ visit[v].stage \in StagesOfVisit(visit[v].req)
  BY AtVisit
<1>2. visit[v].req.op = "result"
  BY <1>1, VisitCases DEF Answers
<1>3. visit[v].added = IF visit[v].stage = "share" THEN {"result"} ELSE {}
  BY <1>1, <1>2 DEF VisitOK, AddedOK
<1>4. visit[v].known = NoPick
  BY <1>1, <1>2 DEF VisitOK, PickOK
<1>. QED BY <1>1, <1>2, <1>3, <1>4 DEF VisitOK, ResultOK

LEMMA LockPickOK ==
    ASSUME VisitInv, NEW v \in Visitors, LockPick(v)
    PROVE  VisitInv'
<1> DEFINE t == Then(v, "active")
           w == [t EXCEPT !.locked = Recorded(visit[v].req.pick)]
<1>1. visit[v].stage = "lock" /\ GoOn(v, w)
  BY DEF LockPick
<1>2. visit[v] # Away /\ visit[v].req.op = "result" /\ visit[v].added = {} /\ VisitTypes
  BY <1>1, AtResult
<1>3. /\ t \in VisitRecords /\ t.stage = "active" /\ t.req = visit[v].req /\ t.added = {}
      /\ t.known = visit[v].known /\ t.retry = visit[v].retry
  BY <1>1, <1>2, VisitTurned DEF VisitStages
<1> HIDE DEF t
<1>4. Recorded(visit[v].req.pick) \in BOOLEAN
  BY DEF Recorded
<1>5. /\ w \in VisitRecords /\ w.stage = "active" /\ w.req = visit[v].req /\ w.added = {}
      /\ w.known = visit[v].known /\ w.retry = visit[v].retry
  BY <1>3, <1>4 DEF VisitRecords
<1> HIDE DEF w
<1>. QED BY <1>1, <1>2, <1>5, ResultGoesOn

\* An outcome that is in force for the forecast picked is one it has had.
LEMMA ActiveIsEarned ==
    ASSUME NEW r, IsActiveForPick(r) PROVE Earned(ResultOf(r))
BY DEF IsActiveForPick, ActiveOutcomes, Earned, ResultOf

\* One it has had is in force, or it has been corrected.
LEMMA EarnedIsActive ==
    ASSUME NEW r, Earned(ResultOf(r)), ~IsActiveForPick(r) PROVE r.out \in Superseded
BY DEF IsActiveForPick, ActiveOutcomes, Earned, ResultOf

LEMMA CheckActiveOK ==
    ASSUME VisitInv, NEW v \in Visitors, CheckActive(v)
    PROVE  VisitInv'
<1> DEFINE r == visit[v].req
           w == Then(v, "look")
<1>1. visit[v].stage = "active"
  BY DEF CheckActive
<1>2. /\ visit[v] # Away /\ r.op = "result" /\ visit[v].known = NoPick /\ visit[v].added = {}
      /\ visit[v].retry => ResultOf(r) \in results
      /\ VisitTypes /\ VisitRows
  BY <1>1, AtResult
<1>3. CASE IsActiveForPick(r)
  <2>1. GoOn(v, w)
    BY <1>3 DEF CheckActive
  <2>2. /\ w \in VisitRecords /\ w.stage = "look" /\ w.req = r /\ w.added = {}
        /\ w.known = visit[v].known /\ w.retry = visit[v].retry
    BY <1>2, VisitTurned DEF VisitStages
  <2>3. Earned(ResultOf(r))
    BY <1>3, ActiveIsEarned
  <2> HIDE DEF w
  <2>. QED BY <1>2, <2>1, <2>2, <2>3, ResultGoesOn
<1>4. CASE ~IsActiveForPick(r)
  <2>1. GoOn(v, Finished(v, "refused"))
    BY <1>4 DEF CheckActive
  <2>2. visit[v].retry => r.out \in Superseded
    <3>1. visit[v].retry => Earned(ResultOf(r))
      BY <1>2 DEF VisitRows
    <3>. QED BY <1>4, <3>1, EarnedIsActive
  <2>. QED BY <1>2, <2>1, <2>2, VisitAnswered
<1>. QED BY <1>3, <1>4

LEMMA LookForResultOK ==
    ASSUME VisitInv, NEW v \in Visitors, LookForResult(v)
    PROVE  VisitInv'
<1> DEFINE r == visit[v].req
           there == {x \in results : SameResult(x, ResultOf(r))}
           w == Then(v, "result")
<1>1. visit[v].stage = "look"
  BY DEF LookForResult
<1>2. /\ visit[v] # Away /\ r.op = "result" /\ visit[v].known = NoPick /\ visit[v].added = {}
      /\ Earned(ResultOf(r)) /\ (visit[v].retry => ResultOf(r) \in results)
      /\ VisitTypes /\ VisitRows
  BY <1>1, AtResult
<1>3. visit[v].retry => there = {ResultOf(r)}
  BY <1>2 DEF VisitRows, SameResult
<1>4. CASE there = {}
  <2>1. GoOn(v, w) /\ ~visit[v].retry
    BY <1>3, <1>4 DEF LookForResult
  <2>2. /\ w \in VisitRecords /\ w.stage = "result" /\ w.req = r /\ w.added = {}
        /\ w.known = visit[v].known /\ w.retry = visit[v].retry
    BY <1>2, VisitTurned DEF VisitStages
  <2> HIDE DEF w
  <2>. QED BY <1>2, <2>1, <2>2, ResultGoesOn
<1>5. CASE there = {ResultOf(r)}
  <2>1. GoOn(v, Finished(v, "replayed")) /\ ResultOf(r) \in results
    BY <1>5 DEF LookForResult
  <2>. QED BY <1>2, <2>1, VisitAnswered
<1>6. CASE there # {} /\ there # {ResultOf(r)}
  <2>1. GoOn(v, Finished(v, "refused")) /\ ~visit[v].retry
    BY <1>3, <1>6 DEF LookForResult
  <2>. QED BY <1>2, <2>1, VisitAnswered
<1>. QED BY <1>4, <1>5, <1>6

LEMMA InsertResultOK ==
    ASSUME VisitInv, NEW v \in Visitors, InsertResult(v)
    PROVE  VisitInv'
<1> DEFINE r == visit[v].req
           t == Then(v, "share")
           w == [t EXCEPT !.added = {"result"}]
<1>1. visit[v].stage = "result"
  BY DEF InsertResult
<1>2. /\ visit[v] # Away /\ r.op = "result" /\ visit[v].known = NoPick /\ visit[v].added = {}
      /\ Earned(ResultOf(r)) /\ ~visit[v].retry /\ VisitTypes
  BY <1>1, AtResult
<1>3. CASE GoOn(v, Finished(v, "refused"))
  BY <1>2, <1>3, VisitAnswered
<1>4. CASE /\ ~\E x \in results : SameResult(x, ResultOf(r))
           /\ ~\E u \in Elsewhere(v) : WaitsToInsertResult(v, u)
           /\ GoOn(v, w)
  <2>1. /\ t \in VisitRecords /\ t.stage = "share" /\ t.req = r
        /\ t.known = visit[v].known /\ t.retry = visit[v].retry
    BY <1>2, VisitTurned DEF VisitStages
  <2> HIDE DEF t
  <2>2. /\ w \in VisitRecords /\ w.stage = "share" /\ w.req = r /\ w.added = {"result"}
        /\ w.known = NoPick /\ ~w.retry
    BY <1>2, <2>1 DEF VisitRecords, Tables
  <2>3. GoOn(v, w)
    BY <1>4
  <2> HIDE DEF w
  <2>4. AddedOK(w) /\ IdentifierOK(w) /\ PickOK(w)
    BY <1>2, <2>2 DEF AddedOK, IdentifierOK, PickOK, Answers
  <2>5. ResultOK(w)
    BY <1>2, <1>4, <2>2 DEF ResultOK
  <2>6. w.stage \in StagesOfVisit(w.req)
    BY <1>2, <2>2 DEF StagesOfVisit
  <2>7. VisitOK(w)
    BY <2>4, <2>5, <2>6 DEF VisitOK
  <2>8. ASSUME NEW u \in Visitors \ {v} PROVE VisitsApart(w, visit[u])
    <3>1. "result" \in visit[u].added => u \in Elsewhere(v) /\ visit[u].req.op = "result"
      <4>1. "result" \in visit[u].added => visit[u] # Away
        BY DEF Away
      <4>2. visit[u] # Away => visit[u].req \in Visits /\ AddedOK(visit[u])
        BY DEF VisitInv, VisitTypes, VisitRecords, VisitOK
      <4>3. visit[u] # Away /\ "result" \in visit[u].added => visit[u].req.op = "result"
        BY <4>2, VisitCases DEF AddedOK
      <4>. QED BY <4>1, <4>3 DEF Elsewhere
    <3>2. "result" \in visit[u].added => ~SameResult(ResultOf(visit[u].req), ResultOf(r))
      BY <1>4, <3>1 DEF WaitsToInsertResult, Has
    <3>. QED BY <2>2, <3>2 DEF VisitsApart, SameResult
  <2>. QED BY <2>2, <2>3, <2>7, <2>8, VisitMoves
<1>. QED BY <1>3, <1>4 DEF InsertResult

LEMMA SharePickOK ==
    ASSUME VisitInv, NEW v \in Visitors, SharePick(v)
    PROVE  VisitInv'
<1> DEFINE w == Then(v, "commit")
<1>1. visit[v].stage = "share" /\ GoOn(v, w)
  BY DEF SharePick
<1>2. /\ visit[v] # Away /\ visit[v].req.op = "result" /\ visit[v].added = {"result"}
      /\ Earned(ResultOf(visit[v].req)) /\ ~visit[v].retry /\ VisitTypes
      /\ \A x \in results : ~SameResult(x, ResultOf(visit[v].req))
  BY <1>1, AtResult
<1>3. /\ w \in VisitRecords /\ w.stage = "commit" /\ w.req = visit[v].req /\ w.added = {"result"}
      /\ w.known = visit[v].known /\ w.retry = visit[v].retry
  BY <1>2, VisitTurned DEF VisitStages
<1> HIDE DEF w
<1>. QED BY <1>1, <1>2, <1>3, ResultGoesOn

LEMMA PurgeSteps ==
    ASSUME VisitInv, NEW v \in Visitors, DeleteExpired(v) \/ InsertRun(v)
    PROVE  VisitInv'
<1> DEFINE r == visit[v].req
           go == Then(v, "run")
           end == Then(v, "commit")
<1>1. visit[v].stage \in {"delete", "run"} /\ visit[v].stage # "away"
  BY DEF DeleteExpired, InsertRun
<1>2. /\ visit[v] # Away /\ r \in Visits /\ VisitOK(visit[v]) /\ VisitTypes
      /\ visit[v].stage \in StagesOfVisit(r)
  BY <1>1, AtVisit
<1>3. r.op = "purge" /\ {"run", "commit"} \subseteq StagesOfVisit(r)
  BY <1>1, <1>2, VisitCases DEF Answers
<1>4. /\ ~visit[v].retry /\ visit[v].known = NoPick /\ visit[v].added \subseteq {"run"}
  BY <1>2, <1>3 DEF VisitOK, AddedOK, PickOK, ResultOK
<1>5. \A t \in {go, end} :
         /\ t \in VisitRecords /\ t.stage \in {"run", "commit"} /\ t.req = r
         /\ t.added = visit[v].added /\ t.known = visit[v].known /\ ~t.retry
  BY <1>2, <1>4, VisitTurned DEF VisitStages
<1> HIDE DEF go, end
<1>6. ASSUME NEW w \in VisitRecords, GoOn(v, w), w.stage \in {"run", "commit"}, w.req = r,
             w.added \subseteq {"run"}, w.known = visit[v].known, ~w.retry
      PROVE  VisitInv'
  <2>1. AddedOK(w) /\ ResultOK(w)
    BY <1>3, <1>6 DEF AddedOK, ResultOK, Answers
  <2>. QED BY <1>2, <1>3, <1>6, <2>1, OtherVisitGoesOn
<1>7. CASE GoOn(v, [go EXCEPT !.gone = Expired(r)])
  <2>1. Expired(r) \in SUBSET IdentifiersSent
    BY <1>2 DEF VisitTypes, Expired
  <2> DEFINE w == [go EXCEPT !.gone = Expired(r)]
  <2>2. /\ w \in VisitRecords /\ w.stage = go.stage /\ w.req = go.req /\ w.added = go.added
        /\ w.known = go.known /\ w.retry = go.retry
    BY <1>5, <2>1 DEF VisitRecords
  <2>3. GoOn(v, w)
    BY <1>7
  <2> HIDE DEF w
  <2>. QED BY <1>4, <1>5, <1>6, <2>2, <2>3
<1>8. CASE GoOn(v, [end EXCEPT !.added = {"run"}])
  <2> DEFINE w == [end EXCEPT !.added = {"run"}]
  <2>1. /\ w \in VisitRecords /\ w.stage = end.stage /\ w.req = end.req /\ w.added = {"run"}
        /\ w.known = end.known /\ w.retry = end.retry
    BY <1>5 DEF VisitRecords, Tables
  <2>2. GoOn(v, w)
    BY <1>8
  <2> HIDE DEF w
  <2>. QED BY <1>5, <1>6, <2>1, <2>2
<1>9. CASE GoOn(v, Finished(v, "refused"))
  BY <1>2, <1>3, <1>4, <1>9, VisitAnswered
<1>. QED BY <1>7, <1>8, <1>9 DEF DeleteExpired, InsertRun, go, end

LEMMA BreakVisitOK ==
    ASSUME VisitInv, NEW v \in Visitors, BreakVisit(v)
    PROVE  VisitInv'
<1>1. visit[v].stage \in {"share", "result"} /\ GoOn(v, Finished(v, "refused"))
  BY DEF BreakVisit, Crossed
<1>. QED BY <1>1, AtResult, VisitAnswered

LEMMA VisitLeaves ==
    ASSUME VisitInv, NEW v \in Visitors, AnsweredVisit(v) \/ LoseVisit(v)
    PROVE  VisitInv'
<1>1. GoOn(v, Away)
  BY DEF AnsweredVisit, LoseVisit
<1>2. \A u \in Visitors \ {v} : VisitsApart(Away, visit[u])
  BY DEF VisitsApart, Away
<1>. QED BY <1>1, <1>2, VisitMoves

-----------------------------------------------------------------------------
(* A commit *)

\* What a visit that commits adds
LEMMA AtVisitCommit ==
    ASSUME VisitInv, NEW v \in Visitors, visit[v].stage = "commit"
    PROVE  /\ visit[v] # Away /\ visit[v] \in VisitRecords /\ visit[v].req \in Visits
           /\ ~visit[v].retry /\ VisitOK(visit[v])
           /\ "identifier" \in visit[v].added =>
                 /\ visit[v].req.op \in Identified
                 /\ \A x \in identifiers : ~SameToken(x, IdentifierOf(visit[v].req))
                 /\ visit[v].req.op = "pick" =>
                       /\ visit[v].stable = visit[v].req.id
                       /\ "pick" \in visit[v].added \/ Recorded(visit[v].stable)
           /\ "result" \in visit[v].added =>
                 /\ Earned(ResultOf(visit[v].req))
                 /\ \A x \in results : ~SameResult(x, ResultOf(visit[v].req))
           /\ visit[v].req.op = "result" => visit[v].added = {"result"}
           /\ visit[v].known # NoPick =>
                 visit[v].req.op = "pick" /\ visit[v].added = {} /\ visit[v].stable = visit[v].known
<1>1. /\ visit[v] # Away /\ visit[v] \in VisitRecords /\ visit[v].req \in Visits
      /\ VisitOK(visit[v])
  BY AtVisit
<1>2. ~visit[v].retry
  BY <1>1 DEF VisitOK, ResultOK
<1>3. "identifier" \in visit[v].added => visit[v].req.op \in Identified
  BY <1>1, VisitCases DEF VisitOK, AddedOK, Identified
<1>4. "result" \in visit[v].added => visit[v].req.op = "result"
  BY <1>1, VisitCases DEF VisitOK, AddedOK
<1>5. visit[v].req.op = "result" => visit[v].added = {"result"}
  BY <1>1 DEF VisitOK, AddedOK
<1>6. "identifier" \in visit[v].added =>
         /\ \A x \in identifiers : ~SameToken(x, IdentifierOf(visit[v].req))
         /\ visit[v].req.op = "pick" => visit[v].stable = visit[v].req.id
  BY <1>1 DEF VisitOK, IdentifierOK
<1>7. /\ visit[v].req.op = "pick" => "pick" \in visit[v].added \/ Recorded(visit[v].stable)
      /\ visit[v].known # NoPick =>
            visit[v].req.op = "pick" /\ visit[v].added = {} /\ visit[v].stable = visit[v].known
  BY <1>1 DEF VisitOK, PickOK
<1>8. "result" \in visit[v].added =>
         /\ Earned(ResultOf(visit[v].req))
         /\ \A x \in results : ~SameResult(x, ResultOf(visit[v].req))
  BY <1>1, <1>4 DEF VisitOK, ResultOK
<1>. QED BY <1>1, <1>2, <1>3, <1>5, <1>6, <1>7, <1>8

\* The rows a commit makes visible
LEMMA VisitRowsAfter ==
    ASSUME VisitInv, NEW v \in Visitors, CommitVisit(v)
    PROVE  /\ \A x \in identifiers' :
                 x \in identifiers \/ ("identifier" \in visit[v].added /\ x = IdentifierOf(visit[v].req))
           /\ \A x \in results' :
                 x \in results \/ ("result" \in visit[v].added /\ x = ResultOf(visit[v].req))
           /\ identifiers \ visit[v].gone \subseteq identifiers'
           /\ results \subseteq results'
           /\ "result" \in visit[v].added => ResultOf(visit[v].req) \in results'
           /\ UNCHANGED committed
           /\ \A id : Recorded(id) => Recorded(id)'
           /\ \A id : "pick" \in visit[v].added /\ id = visit[v].stable => Recorded(id)'
           /\ \A x : Earned(x) => Earned(x)'
           /\ Superseded' = Superseded
<1>1. /\ identifiers' = (identifiers \ visit[v].gone) \cup
            (IF "identifier" \in visit[v].added THEN {IdentifierOf(visit[v].req)} ELSE {})
      /\ picks' = picks \cup (IF "pick" \in visit[v].added
                             THEN {PickOf(visit[v].req, visit[v].stable)} ELSE {})
      /\ results' = results \cup (IF "result" \in visit[v].added
                                 THEN {ResultOf(visit[v].req)} ELSE {})
      /\ UNCHANGED committed
  BY DEF CommitVisit, vars
<1>2. picks \subseteq picks'
  BY <1>1
<1>3. \A id : Recorded(id) => Recorded(id)'
  BY <1>2 DEF Recorded
<1>4. \A x : Earned(x) => Earned(x)'
  BY <1>1, <1>2 DEF Earned
<1>5. \A id : "pick" \in visit[v].added /\ id = visit[v].stable => Recorded(id)'
  <2>1. ASSUME NEW id, "pick" \in visit[v].added, id = visit[v].stable
        PROVE  \E p \in picks' : p.id = id
    <3>1. PickOf(visit[v].req, visit[v].stable) \in picks'
      BY <1>1, <2>1
    <3>2. PickOf(visit[v].req, visit[v].stable).id = id
      BY <2>1 DEF PickOf
    <3>. QED BY <3>1, <3>2
  <2>. QED BY <2>1 DEF Recorded
<1>6. Superseded' = Superseded
  BY <1>1 DEF Superseded
<1>. QED BY <1>1, <1>3, <1>4, <1>5, <1>6

LEMMA CommitKeepsVisitRows ==
    ASSUME VisitInv, NEW v \in Visitors, CommitVisit(v)
    PROVE  VisitRows'
<1>1. visit[v].stage = "commit" /\ VisitRows
  BY DEF CommitVisit, VisitInv
<1>2. \A x, y \in identifiers' : SameToken(x, y) => x = y
  BY <1>1, AtVisitCommit, VisitRowsAfter DEF VisitRows, SameToken
<1>3. ASSUME NEW x \in identifiers', x.kind = "pick" PROVE Recorded(x.record)'
  <2>1. CASE x \in identifiers
    BY <1>1, <1>3, <2>1, VisitRowsAfter DEF VisitRows
  <2>2. CASE "identifier" \in visit[v].added /\ x = IdentifierOf(visit[v].req)
    <3>1. visit[v].req.op = "pick" /\ x.record = visit[v].req.id
      BY <1>3, <2>2 DEF IdentifierOf
    <3>2. /\ visit[v].stable = x.record
          /\ "pick" \in visit[v].added \/ Recorded(visit[v].stable)
      BY <1>1, <2>2, <3>1, AtVisitCommit
    <3>3. \A id : id = visit[v].stable => Recorded(id)'
      BY <3>2, VisitRowsAfter
    <3>. QED BY <3>2, <3>3
  <2>. QED BY <2>1, <2>2, VisitRowsAfter
<1>4. \A x, y \in results' : SameResult(x, y) => x = y
  BY <1>1, AtVisitCommit, VisitRowsAfter DEF VisitRows, SameResult
<1>5. \A x \in results' : Earned(x)'
  BY <1>1, AtVisitCommit, VisitRowsAfter DEF VisitRows
<1>. QED BY <1>2, <1>3, <1>4, <1>5 DEF VisitRows

\* Where the visitors are after a commit
LEMMA VisitsAfter ==
    ASSUME VisitInv, NEW v \in Visitors, CommitVisit(v), NEW u \in Visitors, u # v
    PROVE  /\ visit'[u] \in VisitRecords \cup {Away}
           /\ visit'[u].added = visit[u].added
           /\ visit'[u] = Away <=> visit[u] = Away
           /\ visit[u] # Away =>
                 /\ visit'[u].stage = visit[u].stage /\ visit'[u].req = visit[u].req
                 /\ visit'[u].stable = visit[u].stable /\ visit'[u].retry = visit[u].retry
                 /\ visit'[u].known # NoPick =>
                       /\ visit'[u].known = visit[u].known
                       /\ visit[u].req.op = "pick" =>
                             ~\E x \in visit[v].gone : SameToken(x, IdentifierOf(visit[u].req))
<1> DEFINE forgotten == visit[u] # Away /\ visit[u].req.op = "pick"
                        /\ \E x \in visit[v].gone : SameToken(x, IdentifierOf(visit[u].req))
<1>1. visit'[u] = IF forgotten THEN [visit[u] EXCEPT !.known = NoPick] ELSE visit[u]
  BY DEF CommitVisit
<1>2. visit[u] \in VisitRecords \cup {Away} /\ NoPick \in Names
  BY DEF VisitInv, VisitTypes, Names
<1>3. CASE forgotten
  <2>1. visit[u] \in VisitRecords /\ visit'[u] = [visit[u] EXCEPT !.known = NoPick]
    BY <1>1, <1>2, <1>3
  <2>2. /\ visit'[u] \in VisitRecords /\ visit'[u].added = visit[u].added
        /\ visit'[u].stage = visit[u].stage /\ visit'[u].req = visit[u].req
        /\ visit'[u].stable = visit[u].stable /\ visit'[u].retry = visit[u].retry
        /\ visit'[u].known = NoPick
    BY <1>2, <2>1 DEF VisitRecords
  <2>3. visit'[u] # Away
    BY <2>2 DEF VisitRecords, VisitStages, Answers, Away
  <2>. QED BY <1>3, <2>2, <2>3
<1>4. CASE ~forgotten
  BY <1>1, <1>2, <1>4
<1>. QED BY <1>3, <1>4

\* Of the others, what holds goes on to hold: their rows clash with none of those
\* added, and who is forgotten is known no more.
LEMMA OtherVisitsStand ==
    ASSUME VisitInv, NEW v \in Visitors, CommitVisit(v), NEW u \in Visitors, u # v,
           NEW w, w = visit'[u], w # Away
    PROVE  VisitOK(w)'
<1> DEFINE x == visit[u]
           new == IdentifierOf(visit[v].req)
<1>1. visit[v].stage = "commit" /\ VisitRows
  BY DEF CommitVisit, VisitInv
<1>2. /\ x # Away /\ w.stage = x.stage /\ w.req = x.req /\ w.added = x.added
      /\ w.stable = x.stable /\ w.retry = x.retry
      /\ w.known # NoPick =>
            /\ w.known = x.known
            /\ x.req.op = "pick" => ~\E y \in visit[v].gone : SameToken(y, IdentifierOf(x.req))
  BY VisitsAfter
<1>3. VisitOK(x) /\ VisitsApart(visit[v], x)
  BY <1>2 DEF VisitInv
<1> HIDE DEF x, new
<1>4. AddedOK(w)' /\ (w.stage \in StagesOfVisit(w.req))'
  BY <1>2, <1>3 DEF VisitOK, AddedOK
<1>5. IdentifierOK(w)'
  <2>1. "identifier" \in w.added /\ w.req.op = "pick" /\ w.stage \in {"pick", "key", "commit"} =>
           w.stable = w.req.id
    BY <1>2, <1>3 DEF VisitOK, IdentifierOK
  <2>2. ASSUME "identifier" \in w.added, NEW y \in identifiers'
        PROVE  ~SameToken(y, IdentifierOf(w.req))
    <3>1. CASE y \in identifiers
      BY <1>2, <1>3, <2>2, <3>1 DEF VisitOK, IdentifierOK
    <3>2. CASE "identifier" \in visit[v].added /\ y = new
      BY <1>2, <1>3, <2>2, <3>2 DEF VisitsApart, new
    <3>. QED BY <3>1, <3>2, VisitRowsAfter DEF new
  <2>. QED BY <2>1, <2>2 DEF IdentifierOK
<1>6. PickOK(w)'
  <2>1. w.req.op = "pick" /\ w.stage \in {"key", "commit"} =>
           "pick" \in w.added \/ Recorded(w.stable)'
    BY <1>2, <1>3, VisitRowsAfter DEF VisitOK, PickOK
  <2>2. ASSUME w.known # NoPick, NamedBy(w.req) = {w.known}, w.req.op = "pick"
        PROVE  NamedBy(w.req)' = {w.known}
    <3> DEFINE token == IdentifierOf(w.req)
    <3>1. PICK y \in identifiers : SameToken(y, token) /\ y.record = w.known
      BY <2>2 DEF NamedBy
    <3>2. y \notin visit[v].gone
      BY <1>2, <2>2, <3>1
    <3>3. y \in identifiers'
      BY <3>2, VisitRowsAfter
    <3>4. \A z \in identifiers' : SameToken(z, token) => z \in identifiers
      BY <1>1, <3>1, VisitRowsAfter, AtVisitCommit DEF SameToken
    <3>5. \A z \in identifiers' : SameToken(z, token) => z.record = w.known
      BY <2>2, <3>4 DEF NamedBy
    <3>. QED BY <3>1, <3>3, <3>5 DEF NamedBy
  <2>3. w.known # NoPick =>
          /\ w.req.op = "pick" /\ w.added = {}
          /\ \/ w.stage \in {"identify", "find", "pick", "commit"} /\ NamedBy(w.req) = {w.known}
             \/ w.stage = "replayed"
          /\ w.stage \in {"pick", "commit", "replayed"} => w.stable = w.known
    BY <1>2, <1>3 DEF VisitOK, PickOK
  <2>. QED BY <2>1, <2>2, <2>3 DEF PickOK
<1>7. ResultOK(w)'
  <2>1. "result" \in w.added =>
           \A y \in results' : ~SameResult(y, ResultOf(w.req))
    <3>1. "result" \in w.added /\ w.req.op = "result" =>
             \A y \in results : ~SameResult(y, ResultOf(w.req))
      BY <1>2, <1>3 DEF VisitOK, ResultOK
    <3>2. "result" \in w.added => w.req.op = "result"
      <4>1. x.req \in Visits
        BY <1>2 DEF VisitInv, VisitTypes, VisitRecords, x
      <4>. QED BY <1>2, <1>3, <4>1, VisitCases DEF VisitOK, AddedOK
    <3>. QED BY <1>2, <1>3, <3>1, <3>2, VisitRowsAfter DEF VisitsApart
  <2>2. w.req.op = "result" =>
           /\ w.stage \in {"look", "result", "share", "commit"} => Earned(ResultOf(w.req))'
           /\ w.stage \in {"created", "replayed"} => ResultOf(w.req) \in results'
    BY <1>2, <1>3, VisitRowsAfter DEF VisitOK, ResultOK
  <2>3. w.retry => /\ w.req.op = "result" /\ ResultOf(w.req) \in results'
                   /\ \/ w.stage \in {"lock", "active", "look", "replayed"}
                      \/ w.stage = "refused" /\ w.req.out \in Superseded'
    BY <1>2, <1>3, VisitRowsAfter DEF VisitOK, ResultOK
  <2>. QED BY <2>1, <2>2, <2>3 DEF ResultOK
<1>. QED BY <1>4, <1>5, <1>6, <1>7 DEF VisitOK

LEMMA CommitVisitOK ==
    ASSUME VisitInv, NEW v \in Visitors, CommitVisit(v)
    PROVE  VisitInv'
<1> DEFINE x == visit[v]
           answer == IF x.added \ {"identifier"} = {} THEN "replayed" ELSE "created"
           done == Finished(v, answer)
<1>1. x.stage = "commit" /\ VisitTypes
  BY DEF CommitVisit, VisitInv
<1>2. /\ x # Away /\ x \in VisitRecords /\ x.req \in Visits /\ ~x.retry
      /\ x.req.op = "result" => x.added = {"result"}
      /\ x.known # NoPick => x.req.op = "pick" /\ x.added = {} /\ x.stable = x.known
  BY <1>1, AtVisitCommit
<1>3. visit'[v] = done /\ DOMAIN visit' = Visitors
  BY DEF CommitVisit
<1>4. /\ done \in VisitRecords /\ done.stage = answer /\ done.req = x.req /\ done.added = {}
      /\ done.stable = x.stable /\ done.known = x.known /\ ~done.retry
  BY <1>1, <1>2, VisitTurned DEF VisitStages, Answers
<1> HIDE DEF done
<1>5. VisitTypes'
  <2>1. visit' \in [Visitors -> VisitRecords \cup {Away}]
    <3>1. \A u \in Visitors : visit'[u] \in VisitRecords \cup {Away}
      BY <1>3, <1>4, VisitsAfter
    <3>2. visit' = [u \in Visitors |-> visit'[u]]
      BY DEF CommitVisit
    <3>. QED BY <3>1, <3>2
  <2>2. identifiers' \subseteq IdentifiersSent
    <3>1. "identifier" \in x.added => x.req.op \in Identified
      BY <1>1, AtVisitCommit
    <3>2. "identifier" \in x.added => IdentifierOf(x.req) \in IdentifiersSent
      BY <1>2, <3>1 DEF IdentifiersSent
    <3>. QED BY <1>1, <3>2, VisitRowsAfter DEF VisitTypes
  <2>. QED BY <2>1, <2>2 DEF VisitTypes
<1>6. ASSUME NEW w, w = done PROVE VisitOK(w)'
  <2>1. (w.stage \in StagesOfVisit(w.req))' /\ AddedOK(w)' /\ IdentifierOK(w)'
    BY <1>4, <1>6 DEF StagesOfVisit, Answers, AddedOK, IdentifierOK
  <2>2. PickOK(w)'
    BY <1>2, <1>4, <1>6 DEF PickOK
  <2>3. x.req.op = "result" => ResultOf(x.req) \in results'
    BY <1>2, VisitRowsAfter
  <2>4. ResultOK(w)'
    BY <1>2, <1>4, <1>6, <2>3 DEF ResultOK
  <2>. QED BY <2>1, <2>2, <2>4 DEF VisitOK
<1>7. ASSUME NEW u \in Visitors, NEW w, w = visit'[u], w # Away PROVE VisitOK(w)'
  <2>1. CASE u = v
    BY <1>3, <1>6, <1>7, <2>1
  <2>2. CASE u # v
    BY <1>7, <2>2, OtherVisitsStand
  <2>. QED BY <2>1, <2>2
<1>8. ASSUME NEW u \in Visitors, NEW t \in Visitors, u # t PROVE VisitsApart(visit'[u], visit'[t])
  <2>1. CASE u = v \/ t = v
    BY <1>3, <1>4, <1>8, <2>1 DEF VisitsApart
  <2>2. CASE u # v /\ t # v
    <3>1. VisitsApart(visit[u], visit[t])
      BY <1>8 DEF VisitInv
    <3>2. /\ visit'[u].added = visit[u].added /\ (visit[u] # Away => visit'[u].req = visit[u].req)
          /\ visit'[t].added = visit[t].added /\ (visit[t] # Away => visit'[t].req = visit[t].req)
      BY <2>2, VisitsAfter
    <3>. QED BY <3>1, <3>2 DEF VisitsApart, Away
  <2>. QED BY <2>1, <2>2
<1>9. (\A u \in Visitors : visit[u] # Away => VisitOK(visit[u]))'
  BY <1>7 DEF Away
<1>10. (\A u, t \in Visitors : u # t => VisitsApart(visit[u], visit[t]))'
  BY <1>8 DEF VisitsApart
<1>. QED BY <1>5, <1>9, <1>10, CommitKeepsVisitRows DEF VisitInv

LEMMA VisitInvInit == VisitorInit => VisitInv
<1> SUFFICES ASSUME VisitorInit PROVE VisitInv
  OBVIOUS
<1>1. \A v \in Visitors : visit[v] = Away
  BY DEF VisitorInit
<1>2. VisitTypes /\ VisitRows
  BY DEF VisitorInit, VisitTypes, VisitRows
<1>3. \A v, u \in Visitors : VisitsApart(visit[v], visit[u])
  BY <1>1 DEF VisitsApart, Away
<1>. QED BY <1>1, <1>2, <1>3 DEF VisitInv

-----------------------------------------------------------------------------
(* Forecasts and visitors *)

\* Sessions send what the behaviour's traffic has for them, which is in Requests.
TrafficIsKnown == traffic \in Traffics

LEMMA TrafficHolds == VisitorSpec => []TrafficIsKnown
<1>1. VisitorInit => TrafficIsKnown
  BY DEF VisitorInit, TrafficIsKnown
<1>2. TrafficIsKnown /\ [VisitorNext]_allVars => TrafficIsKnown'
  <2>1. VisitorNext => UNCHANGED traffic
    BY DEF VisitorNext, StepBesideVisits, VisitStep, AnsweredVisit, LoseVisit, Visit, GoOn, Identify,
           FindStable, InsertPick, ShareForecastOfPick, InsertEventSeen, LockPick, CheckActive,
           LookForResult, InsertResult, SharePick, DeleteExpired, InsertRun, CommitVisit,
           BreakVisit
  <2> QED BY <2>1 DEF TrafficIsKnown, allVars
<1> QED BY <1>1, <1>2, PTL DEF VisitorSpec

LEMMA SentIsRequested ==
    ASSUME TrafficIsKnown, NEW s \in Sessions PROVE traffic.requests[s] \subseteq Requests
BY TrafficAssumption DEF TrafficIsKnown

\* A step of a visitor changes nothing of the forecasts, their events and outcomes.
LEMMA VisitsStutter ==
    ASSUME NEW v \in Visitors, VisitStep(v) \/ AnsweredVisit(v) \/ LoseVisit(v)
                               \/ \E r : Visit(v, r)
    PROVE  UNCHANGED vars
BY DEF VisitStep, AnsweredVisit, LoseVisit, Visit, GoOn, Identify, FindStable, InsertPick,
       ShareForecastOfPick, InsertEventSeen, LockPick, CheckActive, LookForResult,
       InsertResult, SharePick, DeleteExpired, InsertRun, CommitVisit, BreakVisit

\* The rows of forecasts only grow, and a session's step leaves the visits alone.
LEMMA SessionsStandAside ==
    ASSUME NEW s \in Sessions,
           \/ StepBesideVisits(s)
           \/ ((\E r : Begin(s, r)) \/ Answered(s) \/ Lose(s)) /\ UNCHANGED <<rows, visit, traffic>>
    PROVE  UNCHANGED <<rows, visit>> /\ committed \subseteq committed'
<1>1. CASE StepBesideVisits(s)
  BY <1>1 DEF StepBesideVisits, Step, InsertForecast, LockForecast, LookForReplay, InsertEvent,
              ShareForecast, InsertOutcome, Commit, BreakDeadlock
<1>2. CASE ~StepBesideVisits(s)
  BY <1>2 DEF Begin, Answered, Lose
<1>. QED BY <1>1, <1>2

LEMMA VisitInvNext == ASSUME VisitInv, TrafficIsKnown, VisitorNext PROVE VisitInv'
<1>1. ASSUME NEW s \in Sessions,
             \/ StepBesideVisits(s)
             \/ ((\E r : Begin(s, r)) \/ Answered(s) \/ Lose(s)) /\ UNCHANGED <<rows, visit, traffic>>
      PROVE  VisitInv'
  BY <1>1, SessionsStandAside, VisitInvBeside
<1>2. ASSUME NEW v \in Visitors, NEW r \in traffic.visits[v], Visit(v, r) PROVE VisitInv'
  <2>1. r \in Visits
    BY TrafficAssumption DEF TrafficIsKnown
  <2>. QED BY <1>2, <2>1, VisitBegins
<1>3. ASSUME NEW v \in Visitors, VisitStep(v) PROVE VisitInv'
  BY <1>3, IdentifyOK, FindStableOK, InsertPickOK, ShareForecastOfPickOK, InsertEventSeenOK,
     LockPickOK, CheckActiveOK, LookForResultOK, InsertResultOK, SharePickOK, PurgeSteps,
     CommitVisitOK, BreakVisitOK DEF VisitStep
<1>4. ASSUME NEW v \in Visitors, AnsweredVisit(v) \/ LoseVisit(v) PROVE VisitInv'
  BY <1>4, VisitLeaves
<1>. QED BY <1>1, <1>2, <1>3, <1>4 DEF VisitorNext

LEMMA VisitorsAlways == VisitorSpec => []VisitInv
<1>1. VisitInv /\ TrafficIsKnown /\ [VisitorNext]_allVars => VisitInv'
  <2>1. UNCHANGED allVars => UNCHANGED <<rows, visit>> /\ committed \subseteq committed'
    BY DEF allVars, vars
  <2>. QED BY <2>1, VisitInvNext, VisitInvBeside
<1>. QED BY <1>1, VisitInvInit, TrafficHolds, PTL DEF VisitorSpec

\* The ledger with visitors implements the ledger without: locks they hold on the
\* forecasts delay its steps and allow no new ones (record_visitor_pick and the
\* others only read what publish_forecast, resolve_forecast and the others write).
THEOREM LedgerUndisturbed == VisitorSpec => Spec
<1>1. VisitorInit => Init
  BY DEF VisitorInit
<1>2. TrafficIsKnown /\ [VisitorNext]_allVars => [Next]_vars
  <2> SUFFICES ASSUME TrafficIsKnown, [VisitorNext]_allVars PROVE [Next]_vars
    OBVIOUS
  <2>1. CASE UNCHANGED allVars
    BY <2>1 DEF allVars
  <2>2. ASSUME NEW s \in Sessions, NEW r \in traffic.requests[s], Begin(s, r) PROVE Next
    BY <2>2, SentIsRequested DEF Next
  <2>3. ASSUME NEW s \in Sessions, Answered(s) \/ Lose(s) \/ StepBesideVisits(s) PROVE Next
    BY <2>3 DEF StepBesideVisits, Next
  <2>4. ASSUME NEW v \in Visitors,
               VisitStep(v) \/ AnsweredVisit(v) \/ LoseVisit(v)
                 \/ \E r \in traffic.visits[v] : Visit(v, r)
        PROVE  UNCHANGED vars
    BY <2>4, VisitsStutter
  <2> QED BY <2>1, <2>2, <2>3, <2>4 DEF VisitorNext
<1> QED BY <1>1, <1>2, TrafficHolds, PTL DEF VisitorSpec, Spec

-----------------------------------------------------------------------------

\* The log of jobs has tables of its own: beside it, the transactions of forecasts
\* and visitors are those of VisitorLedger.
THEOREM JobsApart == DatabaseSpec => VisitorSpec
<1>1. DatabaseInit => VisitorInit
  BY DEF DatabaseInit
<1>2. [DatabaseNext]_databaseVars => [VisitorNext]_allVars
  BY DEF DatabaseNext, databaseVars
<1> QED BY <1>1, <1>2, PTL DEF DatabaseSpec, VisitorSpec

LEMMA DatabaseAlways == DatabaseSpec => [](LogInv /\ DutyIsKnown)
<1>1. DatabaseInit => LogInv /\ DutyIsKnown
  BY LogInvInit DEF DatabaseInit
<1>2. LogInv /\ DutyIsKnown /\ [DatabaseNext]_databaseVars => (LogInv /\ DutyIsKnown)'
  <2>1. UNCHANGED databaseVars => UNCHANGED jobVars
    BY DEF databaseVars
  <2>. QED BY <2>1, LogInvNext, LogInvStutter DEF DatabaseNext
<1>. QED BY <1>1, <1>2, PTL DEF DatabaseSpec

\* A resolved forecast has one outcome in force: so has that of a pick with a result.
LEMMA EarnedIsShown ==
    ASSUME LedgerInv, NEW x, Earned(x)
    PROVE  \E p \in picks :
              /\ p.id = x.pick
              /\ \E c \in committed : HasOutcome(c) /\ c.f = p.f /\ c.out = x.out
              /\ Cardinality(ActiveOutcomes(p.f)) = 1
<1>1. PICK p \in picks :
         p.id = x.pick /\ \E c \in committed : HasOutcome(c) /\ c.f = p.f /\ c.out = x.out
  BY DEF Earned
<1>2. RowsOK /\ committed \subseteq Requests
  BY DEF LedgerInv, TypeOK
<1>3. PICK d \in committed : d.op = "resolve" /\ d.f = p.f
  BY <1>1, <1>2, OutcomeNeedsResolution DEF Outcomes
<1>4. p.f \in Forecasts /\ StatusOf(p.f) = "resolved"
  BY <1>2, <1>3, RequestFields DEF StatusOf, TerminalOf, IsTerminal
<1>5. PICK o \in OutcomeIds : ActiveOutcomes(p.f) = {o}
  BY <1>2, <1>4 DEF RowsOK, OneActiveOutcome
<1>. QED BY <1>1, <1>5, FS_Singleton

\* A visitor who has picked and was not purged since keeps that pick, a result that
\* is accepted is on record as sent, and each is shown once, against the one outcome
\* in force (record_visitor_pick, append_visitor_pick_result and
\* visitor_pick_current_results), beside publications, resolutions and corrections.
THEOREM VisitsAgreeHolds == VisitorSpec => []VisitsAgree
<1>1. VisitInv /\ LedgerInv => VisitsAgree
  <2> SUFFICES ASSUME VisitInv, LedgerInv PROVE VisitsAgree
    OBVIOUS
  <2>1. VisitRows /\ \A v \in Visitors : visit[v] # Away => VisitOK(visit[v])
    BY DEF VisitInv
  <2>2. PicksAreFrozen
    <3>1. ASSUME NEW v \in Visitors, visit[v] # Away, visit[v].known # NoPick,
                 visit[v].stage \in Answers
          PROVE  visit[v].stage = "replayed" /\ visit[v].stable = visit[v].known
      BY <2>1, <3>1 DEF VisitOK, PickOK, Answers
    <3>. QED BY <2>1, <3>1 DEF PicksAreFrozen, VisitRows
  <2>3. ResultsAreReplayed
    <3>1. ASSUME NEW v \in Visitors, visit[v] # Away, visit[v].req.op = "result",
                 visit[v].stage \in Answers
          PROVE  /\ visit[v].stage # "refused" => ResultOf(visit[v].req) \in results
                 /\ visit[v].retry =>
                       visit[v].stage = "replayed" \/ visit[v].req.out \in Superseded
      BY <2>1, <3>1 DEF VisitOK, ResultOK, Answers
    <3>. QED BY <3>1 DEF ResultsAreReplayed
  <2>4. ResultsAreShown
    BY <2>1, EarnedIsShown DEF VisitRows, ResultsAreShown
  <2>. QED BY <2>2, <2>3, <2>4 DEF VisitsAgree
<1>. QED BY <1>1, VisitorsAlways, LedgerUndisturbed, LedgerAlways, PTL

\* The records agree, of visitors and of jobs: what VisitsAgreeHolds says, and that
\* no try of a job follows one that succeeded, whatever order their reports arrive in
\* and however the clock is set (append_job_attempt and append_job_attempt_event).
THEOREM RecordsAgreeHolds == DatabaseSpec => []RecordsAgree
<1>1. LogInv /\ VisitsAgree => RecordsAgree
  BY LogAgrees DEF RecordsAgree
<1>. QED BY <1>1, DatabaseAlways, JobsApart, VisitsAgreeHolds, PTL

\* So retries of the forecasts' requests are replays, deadlocks stay where they can
\* be and each forecast has one history, whatever visitors and jobs do meanwhile.
THEOREM LedgerStaysSound ==
    DatabaseSpec => [](RetryIsReplayed /\ DeadlockNeedsEarlyCall) /\ HistoryRefined
BY JobsApart, LedgerUndisturbed, RetryIsReplayedHolds, DeadlockNeedsEarlyCallHolds,
   HistoryImplemented, PTL
=============================================================================
