------------------------- MODULE ForecastLifeProofs -------------------------
(***************************************************************************)
(* Proofs about the repository in memory, the forecasts that live in it    *)
(* and the scorecard made of them, for any requests the types of the       *)
(* methods admit, any number of forecasts and resolvers and any calendar.  *)
(*                                                                         *)
(* Records are only ever appended, so that what a method finds first it    *)
(* finds for ever; that is all a retry rests on.  What a method finds last *)
(* is the new row, or what it was, and the projection follows from that.   *)
(* A verdict that was due once stays due, so that it does not matter when  *)
(* a resolver records it, and a score follows from the projection.         *)
(***************************************************************************)
EXTENDS ForecastLife, WellFoundedInduction, SequenceTheorems, FiniteSetTheorems, TLAPS

-----------------------------------------------------------------------------
(* The first and the last of some rows *)

\* The order of the natural numbers, which has no infinite descent
Below == OpToRel(<, Nat)

\* Every set of natural numbers but the empty one has a least member.
LEMMA HasLeast ==
  ASSUME NEW T, T \subseteq Nat, T # {}
  PROVE  \E x \in T : \A y \in T : x <= y
<1>1. IsWellFoundedOn(Below, Nat)
  BY NatLessThanWellFounded DEF Below
<1>2. PICK x \in T : \A y \in T : ~ (<<y, x>> \in Below)
  BY <1>1, WFMin
<1>3. \A m, n \in Nat : <<m, n>> \in Below <=> m < n
  BY DEF Below, OpToRel
<1>4. ASSUME NEW y \in T PROVE x <= y
  <2>1. x \in Nat /\ y \in Nat
    OBVIOUS
  <2>2. ~(y < x)
    BY <1>2, <1>3, <2>1
  <2> QED BY <2>1, <2>2
<1> QED BY <1>4

\* Min is the least of some positions, and Max the greatest.
LEMMA MinOfPositions ==
  ASSUME NEW n \in Nat, NEW at \in SUBSET (1..n), at # {}
  PROVE  Min(at) \in at /\ \A i \in at : Min(at) <= i
<1>1. \E x \in at : \A y \in at : x <= y
  <2>1. at \subseteq Nat
    OBVIOUS
  <2> QED BY <2>1, HasLeast
<1> QED BY <1>1 DEF Min

LEMMA MaxOfPositions ==
  ASSUME NEW n \in Nat, NEW at \in SUBSET (1..n), at # {}
  PROVE  Max(at) \in at /\ \A i \in at : i <= Max(at)
<1> DEFINE T == {k \in Nat : \E i \in at : k = n - i}
<1>1. T \subseteq Nat /\ T # {}
  <2>1. PICK i \in at : TRUE
    OBVIOUS
  <2>2. n - i \in T
    OBVIOUS
  <2> QED BY <2>2
<1>2. PICK x \in T : \A y \in T : x <= y
  <2> HIDE DEF T
  <2> QED BY <1>1, HasLeast
<1>3. PICK m \in at : x = n - m
  BY <1>2
<1>4. ASSUME NEW i \in at PROVE m >= i
  <2>1. n - i \in Nat /\ n - i \in T
    OBVIOUS
  <2>2. n - m <= n - i
    BY <1>2, <1>3, <2>1
  <2> QED BY <2>2
<1>5. \E y \in at : \A i \in at : y >= i
  BY <1>3, <1>4
<1>6. Max(at) \in at /\ \A i \in at : Max(at) >= i
  BY <1>5 DEF Max
<1> QED BY <1>6

\* Records are sequences, of whatever they are made of.
IsLog(rows) == rows \in Seq({rows[i] : i \in DOMAIN rows})

\* What a row added to a log does to it
LEMMA Added ==
  ASSUME NEW rows, IsLog(rows), NEW x
  PROVE  /\ Len(rows) \in Nat /\ DOMAIN rows = 1..Len(rows)
         /\ IsLog(Append(rows, x))
         /\ DOMAIN Append(rows, x) = 1..(Len(rows) + 1)
         /\ Len(Append(rows, x)) = Len(rows) + 1
         /\ \A i \in 1..Len(rows) : Append(rows, x)[i] = rows[i]
         /\ Append(rows, x)[Len(rows) + 1] = x
         /\ rows \o <<x>> = Append(rows, x)
<1> DEFINE S == {rows[i] : i \in DOMAIN rows} \cup {x}
           new == Append(rows, x)
<1>1. rows \in Seq(S)
  BY DEF IsLog
<1>2. x \in S
  OBVIOUS
<1> HIDE DEF S
<1>3. new \in Seq(S) /\ Len(new) = Len(rows) + 1
  BY <1>1, <1>2
<1>4. /\ Len(rows) \in Nat /\ DOMAIN rows = 1..Len(rows)
      /\ DOMAIN new = 1..(Len(rows) + 1)
      /\ \A i \in 1..Len(rows) : new[i] = rows[i]
      /\ new[Len(rows) + 1] = x
  BY <1>1, <1>2, <1>3
<1>5. rows \o <<x>> = new
  BY <1>1, <1>2
<1>6. new \in Seq({new[i] : i \in DOMAIN new})
  <2>1. S \subseteq {new[i] : i \in DOMAIN new}
    BY <1>4 DEF S
  <2> HIDE DEF new
  <2> QED BY <1>3, <2>1, SeqMonotonic
<1> QED BY <1>3, <1>4, <1>5, <1>6 DEF IsLog

LEMMA LogIsSequence ==
  ASSUME NEW rows, IsLog(rows)
  PROVE  Len(rows) \in Nat /\ DOMAIN rows = 1..Len(rows)
BY DEF IsLog

\* What is found first stays so, whatever is added.
LEMMA FirstStays ==
  ASSUME NEW rows, IsLog(rows), NEW x, NEW at \in SUBSET DOMAIN rows, at # {},
         NEW more \in SUBSET DOMAIN Append(rows, x),
         \A i \in DOMAIN rows : i \in more <=> i \in at
  PROVE  FirstOf(Append(rows, x), more) = FirstOf(rows, at)
<1>1. Min(at) \in at /\ \A i \in at : Min(at) <= i
  BY LogIsSequence, MinOfPositions
<1>2. more # {} /\ more \in SUBSET (1..(Len(rows) + 1)) /\ Len(rows) + 1 \in Nat
  BY Added
<1>3. Min(more) \in more /\ \A i \in more : Min(more) <= i
  BY <1>2, MinOfPositions
<1>4. Min(more) = Min(at)
  BY <1>1, <1>2, <1>3, LogIsSequence
<1>5. Append(rows, x)[Min(at)] = rows[Min(at)]
  BY <1>1, Added
<1>6. FirstOf(Append(rows, x), more) = <<Append(rows, x)[Min(more)]>>
  BY <1>2 DEF FirstOf
<1>7. FirstOf(rows, at) = <<rows[Min(at)]>>
  BY DEF FirstOf
<1> QED BY <1>4, <1>5, <1>6, <1>7

\* What is added is found if nothing was.
LEMMA FirstComes ==
  ASSUME NEW rows, IsLog(rows), NEW x, NEW more \in SUBSET DOMAIN Append(rows, x),
         Len(rows) + 1 \in more, \A i \in DOMAIN rows : i \notin more
  PROVE  FirstOf(Append(rows, x), more) = <<x>>
<1>1. more = {Len(rows) + 1}
  BY Added
<1>2. Min(more) = Len(rows) + 1
  BY <1>1, Added DEF Min
<1> QED BY <1>1, <1>2, Added DEF FirstOf

\* What is found last is what is added, if it is of that kind.
LEMMA LastComes ==
  ASSUME NEW rows, IsLog(rows), NEW x, NEW more \in SUBSET DOMAIN Append(rows, x),
         Len(rows) + 1 \in more
  PROVE  LastOf(Append(rows, x), more) = <<x>>
<1>1. more \in SUBSET (1..(Len(rows) + 1)) /\ Len(rows) \in Nat /\ Len(rows) + 1 \in Nat
  BY Added
<1>2. Max(more) \in more /\ \A i \in more : i <= Max(more)
  BY <1>1, MaxOfPositions
<1>3. Max(more) = Len(rows) + 1
  BY <1>1, <1>2
<1> QED BY <1>3, Added DEF LastOf

\* and stays what it was, if it is of another.
LEMMA LastStays ==
  ASSUME NEW rows, IsLog(rows), NEW x, NEW more \in SUBSET DOMAIN Append(rows, x),
         Len(rows) + 1 \notin more
  PROVE  LastOf(Append(rows, x), more) = LastOf(rows, more)
<1>1. more \in SUBSET (1..Len(rows)) /\ Len(rows) \in Nat
  BY Added
<1>2. CASE more = {}
  BY <1>2 DEF LastOf
<1>3. CASE more # {}
  <2>1. Max(more) \in 1..Len(rows)
    BY <1>1, <1>3, MaxOfPositions
  <2> QED BY <1>3, <2>1, Added DEF LastOf
<1> QED BY <1>2, <1>3

-----------------------------------------------------------------------------
(* What is named *)

\* A log is added to or left alone.
Grown(old, new) == new = old \/ \E x : new = Append(old, x)

LEMMA GrownIsLog ==
  ASSUME NEW old, NEW new, IsLog(old), Grown(old, new)
  PROVE  IsLog(new) /\ Ids(old) \subseteq Ids(new) /\ DOMAIN old \subseteq DOMAIN new
<1>1. CASE new = old
  BY <1>1
<1>2. ASSUME NEW x, new = Append(old, x)
      PROVE  IsLog(new) /\ Ids(old) \subseteq Ids(new) /\ DOMAIN old \subseteq DOMAIN new
  BY <1>2, Added DEF Ids
<1> QED BY <1>1, <1>2 DEF Grown

\* The ids of a log with a row more
LEMMA IdsAfter ==
  ASSUME NEW rows, IsLog(rows), NEW x
  PROVE  Ids(Append(rows, x)) = Ids(rows) \cup {x.id}
<1> DEFINE new == Append(rows, x)
<1>1. ASSUME NEW n \in Ids(new) PROVE n \in Ids(rows) \cup {x.id}
  <2>1. PICK i \in DOMAIN new : n = new[i].id
    BY DEF Ids
  <2>2. CASE i = Len(rows) + 1
    BY <2>1, <2>2, Added
  <2>3. CASE i \in 1..Len(rows)
    BY <2>1, <2>3, Added DEF Ids
  <2> QED BY <2>2, <2>3, Added
<1>2. Ids(rows) \subseteq Ids(new)
  BY Added DEF Ids
<1>3. x.id \in Ids(new)
  BY Added DEF Ids
<1> QED BY <1>1, <1>2, <1>3

\* A row is named or not there.
LEMMA NamedOrNot ==
  ASSUME NEW rows, IsLog(rows), NEW id
  PROVE  \/ id \notin Ids(rows) /\ Named(rows, id) = <<>>
         \/ /\ id \in Ids(rows) /\ Named(rows, id) # <<>>
            /\ \E i \in DOMAIN rows : rows[i].id = id /\ Named(rows, id) = <<rows[i]>>
<1> DEFINE at == {i \in DOMAIN rows : rows[i].id = id}
<1>1. CASE at = {}
  BY <1>1 DEF Named, FirstOf, Ids
<1>2. CASE at # {}
  <2>1. at \in SUBSET (1..Len(rows)) /\ Len(rows) \in Nat
    BY LogIsSequence
  <2>2. Min(at) \in at
    <3> HIDE DEF at
    <3> QED BY <1>2, <2>1, MinOfPositions
  <2>3. Named(rows, id) = <<rows[Min(at)]>>
    BY <1>2 DEF Named, FirstOf
  <2>4. rows[Min(at)].id = id /\ Min(at) \in DOMAIN rows
    BY <2>2
  <2>5. id \in Ids(rows)
    BY <2>4 DEF Ids
  <2>6. \E i \in DOMAIN rows : rows[i].id = id /\ Named(rows, id) = <<rows[i]>>
    BY <2>3, <2>4
  <2>7. Named(rows, id) # <<>>
    BY <2>6
  <2> QED BY <2>5, <2>6, <2>7
<1> QED BY <1>1, <1>2

LEMMA NamedStays ==
  ASSUME NEW old, NEW new, IsLog(old), Grown(old, new), NEW id, Named(old, id) # <<>>
  PROVE  Named(new, id) = Named(old, id)
<1>1. CASE new = old
  BY <1>1
<1>2. ASSUME NEW x, new = Append(old, x) PROVE Named(new, id) = Named(old, id)
  <2> DEFINE at == {i \in DOMAIN old : old[i].id = id}
             more == {i \in DOMAIN new : new[i].id = id}
  <2>1. at # {}
    BY DEF Named, FirstOf
  <2>2. \A i \in DOMAIN old : i \in more <=> i \in at
    BY <1>2, Added
  <2>3. FirstOf(Append(old, x), more) = FirstOf(old, at)
    <3>1. at \in SUBSET DOMAIN old /\ more \in SUBSET DOMAIN Append(old, x)
      BY <1>2
    <3> HIDE DEF at, more
    <3> QED BY <2>1, <2>2, <3>1, FirstStays
  <2> QED BY <1>2, <2>3 DEF Named
<1> QED BY <1>1, <1>2 DEF Grown

LEMMA NamedComes ==
  ASSUME NEW rows, IsLog(rows), NEW x, Named(rows, x.id) = <<>>
  PROVE  Named(Append(rows, x), x.id) = <<x>>
<1> DEFINE more == {i \in DOMAIN Append(rows, x) : Append(rows, x)[i].id = x.id}
<1>1. x.id \notin Ids(rows)
  BY NamedOrNot
<1>2. Len(rows) + 1 \in more
  BY Added
<1>3. \A i \in DOMAIN rows : i \notin more
  BY <1>1, Added DEF Ids
<1>4. FirstOf(Append(rows, x), more) = <<x>>
  <2>1. more \in SUBSET DOMAIN Append(rows, x)
    OBVIOUS
  <2> HIDE DEF more
  <2> QED BY <1>2, <1>3, <2>1, FirstComes
<1> QED BY <1>4 DEF Named

-----------------------------------------------------------------------------
(* What a call does to the records *)

LogsOK ==
    /\ IsLog(snapshots) /\ IsLog(judgments) /\ IsLog(decisions) /\ IsLog(forecasts)
    /\ IsLog(events) /\ IsLog(outcomes) /\ IsLog(attempts) /\ IsLog(picks) /\ IsLog(analytics)

\* What a request's answer is worked out by
LEMMA AnswersByOperation ==
  ASSUME NEW r
  PROVE  /\ r.op = "snapshot" => Answers(r) = InsertSnapshot(r)
         /\ r.op = "judgment" => Answers(r) = InsertJudgment(r)
         /\ r.op = "decision" => Answers(r) = InsertPolicyDecision(r)
         /\ r.op = "publish" => Answers(r) = PublishForecast(r)
         /\ r.op \in {"resolve", "correct"} => Answers(r) = Settle(r)
         /\ r.op = "void" => Answers(r) = VoidForecast(r)
         /\ r.op = "attempt" => Answers(r) = RecordJobAttempt(r)
         /\ r.op = "pick" => Answers(r) = RecordVisitorPick(r)
         /\ r.op = "analytics" => Answers(r) = RecordAnalyticsEvent(r)
BY DEF Answers

\* The row a request makes
RowOf(r) ==
    CASE r.op = "void" -> EventRow(r.event)
      [] r.op = "pick" -> PickRow(r)
      [] r.op = "analytics" -> [id |-> r.id, event |-> r.event]
      [] OTHER -> r

\* A request makes its row, or none.
LEMMA CreatedIsItsRow ==
  ASSUME NEW r, WellTyped(r)
  PROVE  /\ Answers(r).status \in {"created", "replayed", "refused", "ignored"}
         /\ Answers(r).status = "created" => Answers(r).value = <<RowOf(r)>>
<1> USE DEF Answer, Refused
<1>1. CASE r.op = "snapshot"
  BY <1>1, AnswersByOperation DEF InsertSnapshot, RowOf
<1>2. CASE r.op = "judgment"
  BY <1>2, AnswersByOperation DEF InsertJudgment, RowOf
<1>3. CASE r.op = "decision"
  BY <1>3, AnswersByOperation DEF InsertPolicyDecision, RowOf
<1>4. CASE r.op = "publish"
  BY <1>4, AnswersByOperation DEF PublishForecast, RowOf
<1>5. CASE r.op \in {"resolve", "correct"}
  BY <1>5, AnswersByOperation DEF Settle, RowOf
<1>6. CASE r.op = "void"
  BY <1>6, AnswersByOperation DEF VoidForecast, RowOf
<1>7. CASE r.op = "attempt"
  BY <1>7, AnswersByOperation DEF RecordJobAttempt, RowOf
<1>8. CASE r.op = "pick"
  BY <1>8, AnswersByOperation DEF RecordVisitorPick, RowOf
<1>9. CASE r.op = "analytics"
  BY <1>9, AnswersByOperation DEF RecordAnalyticsEvent, RowOf
<1> QED
  BY <1>1, <1>2, <1>3, <1>4, <1>5, <1>6, <1>7, <1>8, <1>9 DEF WellTyped, Operations

Makes(r, op) == r.op = op /\ Answers(r).status = "created"
Settles(r) == Makes(r, "resolve") \/ Makes(r, "correct")

\* Each log, with the one kind of request that adds to it
LEMMA CallEffects ==
  ASSUME LogsOK, NEW r, WellTyped(r), Call(r)
  PROVE  /\ snapshots' = IF Makes(r, "snapshot") THEN Append(snapshots, r) ELSE snapshots
         /\ judgments' = IF Makes(r, "judgment") THEN Append(judgments, r) ELSE judgments
         /\ decisions' = IF Makes(r, "decision") THEN Append(decisions, r) ELSE decisions
         /\ forecasts' = IF Makes(r, "publish") THEN Append(forecasts, r) ELSE forecasts
         /\ events' = IF Makes(r, "publish") THEN Append(events, PublishedEvent(r.id))
                      ELSE IF Settles(r) \/ Makes(r, "void") THEN Append(events, EventRow(r.event))
                      ELSE events
         /\ outcomes' = IF Settles(r) THEN Append(outcomes, r.outcome) ELSE outcomes
         /\ attempts' = IF Makes(r, "attempt") THEN Append(attempts, r) ELSE attempts
         /\ picks' = IF Makes(r, "pick") THEN Append(picks, PickRow(r)) ELSE picks
         /\ analytics' = IF Makes(r, "analytics")
                         THEN Append(analytics, [id |-> r.id, event |-> r.event])
                         ELSE analytics
<1> DEFINE a == Answers(r)
<1>1. /\ a.status \in {"created", "replayed", "refused", "ignored"}
      /\ a.status = "created" => a.value = <<RowOf(r)>>
  BY CreatedIsItsRow
<1> HIDE DEF a
<1>2. /\ snapshots' = Kept(snapshots, "snapshot", r, a)
      /\ judgments' = Kept(judgments, "judgment", r, a)
      /\ decisions' = Kept(decisions, "decision", r, a)
      /\ forecasts' = Kept(forecasts, "publish", r, a)
      /\ events' = EventsAfter(r, a)
      /\ outcomes' = IF r.op \in {"resolve", "correct"} /\ a.status = "created"
                     THEN Append(outcomes, r.outcome) ELSE outcomes
      /\ attempts' = Kept(attempts, "attempt", r, a)
      /\ picks' = Kept(picks, "pick", r, a)
      /\ analytics' = Kept(analytics, "analytics", r, a)
  BY DEF Call, a
<1>3. ASSUME NEW rows, IsLog(rows), NEW op
      PROVE  Kept(rows, op, r, a) = IF r.op = op /\ a.status = "created"
                                    THEN Append(rows, RowOf(r)) ELSE rows
  <2>1. rows \o <<RowOf(r)>> = Append(rows, RowOf(r))
    BY <1>3, Added
  <2> QED BY <1>1, <2>1 DEF Kept
<1>4. EventsAfter(r, a) = IF a.status = "created" /\ r.op = "publish"
                          THEN Append(events, PublishedEvent(r.id))
                          ELSE IF a.status = "created" /\ r.op \in {"resolve", "correct", "void"}
                          THEN Append(events, EventRow(r.event)) ELSE events
  BY <1>1 DEF EventsAfter, AfterThrow, RolledBack
<1>5. /\ r.op \in {"snapshot", "judgment", "decision", "publish", "attempt"} => RowOf(r) = r
      /\ r.op = "pick" => RowOf(r) = PickRow(r)
      /\ r.op = "analytics" => RowOf(r) = [id |-> r.id, event |-> r.event]
  BY DEF RowOf
<1>6. /\ snapshots' = IF r.op = "snapshot" /\ a.status = "created"
                      THEN Append(snapshots, r) ELSE snapshots
      /\ judgments' = IF r.op = "judgment" /\ a.status = "created"
                      THEN Append(judgments, r) ELSE judgments
      /\ decisions' = IF r.op = "decision" /\ a.status = "created"
                      THEN Append(decisions, r) ELSE decisions
  BY <1>2, <1>3, <1>5 DEF LogsOK
<1>7. /\ forecasts' = IF r.op = "publish" /\ a.status = "created"
                      THEN Append(forecasts, r) ELSE forecasts
      /\ attempts' = IF r.op = "attempt" /\ a.status = "created"
                     THEN Append(attempts, r) ELSE attempts
  BY <1>2, <1>3, <1>5 DEF LogsOK
<1>8. /\ picks' = IF r.op = "pick" /\ a.status = "created"
                  THEN Append(picks, PickRow(r)) ELSE picks
      /\ analytics' = IF r.op = "analytics" /\ a.status = "created"
                      THEN Append(analytics, [id |-> r.id, event |-> r.event]) ELSE analytics
  BY <1>2, <1>3, <1>5 DEF LogsOK
<1> QED BY <1>2, <1>4, <1>6, <1>7, <1>8 DEF a, Makes, Settles

\* Nothing is taken out of a log.
LogsGrow ==
    /\ Grown(snapshots, snapshots') /\ Grown(judgments, judgments')
    /\ Grown(decisions, decisions') /\ Grown(forecasts, forecasts')
    /\ Grown(events, events') /\ Grown(outcomes, outcomes')
    /\ Grown(attempts, attempts') /\ Grown(picks, picks') /\ Grown(analytics, analytics')

LEMMA CallGrows ==
  ASSUME LogsOK, NEW r, WellTyped(r), Call(r)
  PROVE  LogsGrow
BY CallEffects DEF LogsGrow, Grown

LEMMA GrownLogsOK ==
  ASSUME LogsOK, LogsGrow
  PROVE  LogsOK'
BY GrownIsLog DEF LogsOK, LogsGrow

-----------------------------------------------------------------------------
(* Retries *)

Replayed(v) == [status |-> "replayed", value |-> v]
CanBeRepeated(r) == r.op \notin {"pick", "analytics"}

\* What is found first among the rows of some kind is found for ever.
LEMMA FoundStays ==
  ASSUME NEW old, NEW new, IsLog(old), Grown(old, new),
         NEW at \in SUBSET DOMAIN old, NEW more \in SUBSET DOMAIN new,
         \A i \in DOMAIN old : new[i] = old[i] => (i \in more <=> i \in at),
         FirstOf(old, at) # <<>>
  PROVE  FirstOf(new, more) = FirstOf(old, at)
<1>1. at # {}
  BY DEF FirstOf
<1>2. CASE new = old
  <2>1. more = at
    BY <1>2
  <2> QED BY <1>2, <2>1
<1>3. ASSUME NEW x, new = Append(old, x) PROVE FirstOf(new, more) = FirstOf(old, at)
  <2>1. \A i \in DOMAIN old : i \in more <=> i \in at
    BY <1>3, Added
  <2>2. more \in SUBSET DOMAIN Append(old, x)
    BY <1>3
  <2>3. FirstOf(Append(old, x), more) = FirstOf(old, at)
    BY <1>1, <2>1, <2>2, FirstStays
  <2> QED BY <1>3, <2>3
<1> QED BY <1>2, <1>3 DEF Grown

\* and what has just been added is, if there was none of its kind.
LEMMA FoundComes ==
  ASSUME NEW rows, IsLog(rows), NEW x,
         NEW at \in SUBSET DOMAIN rows, NEW more \in SUBSET DOMAIN Append(rows, x),
         \A i \in DOMAIN rows : Append(rows, x)[i] = rows[i] => (i \in more <=> i \in at),
         FirstOf(rows, at) = <<>>, Len(rows) + 1 \in more
  PROVE  FirstOf(Append(rows, x), more) = <<x>>
<1>1. at = {}
  BY DEF FirstOf
<1>2. \A i \in DOMAIN rows : i \notin more
  BY <1>1, Added
<1> QED BY <1>2, FirstComes

\* What a request may be the repetition of, and what it then becomes of itself
LEMMA SnapshotReplays ==
  ASSUME LogsOK, LogsGrow, NEW r
  PROVE  /\ KnownSnapshot(r) # <<>> => KnownSnapshot(r)' = KnownSnapshot(r)
         /\ KnownSnapshot(r) = <<>> /\ snapshots' = Append(snapshots, r) => KnownSnapshot(r)' = <<r>>
<1> DEFINE at == {i \in DOMAIN snapshots : LET x == snapshots[i] IN
                       x.id = r.id \/ SnapshotContent(x) = SnapshotContent(r)}
           more == {i \in DOMAIN snapshots' : LET x == snapshots'[i] IN
                       x.id = r.id \/ SnapshotContent(x) = SnapshotContent(r)}
<1>1. KnownSnapshot(r) = FirstOf(snapshots, at) /\ KnownSnapshot(r)' = FirstOf(snapshots', more)
  BY DEF KnownSnapshot, FirstOf, SnapshotContent
<1>2. /\ at \in SUBSET DOMAIN snapshots /\ more \in SUBSET DOMAIN snapshots'
      /\ IsLog(snapshots) /\ Grown(snapshots, snapshots')
  BY DEF LogsOK, LogsGrow
<1>3. \A i \in DOMAIN snapshots : snapshots'[i] = snapshots[i] => (i \in more <=> i \in at)
  BY <1>2, GrownIsLog
<1>4. snapshots' = Append(snapshots, r) => Len(snapshots) + 1 \in more
  BY <1>2, Added
<1> HIDE DEF at, more
<1>5. ASSUME KnownSnapshot(r) # <<>> PROVE KnownSnapshot(r)' = KnownSnapshot(r)
  BY <1>1, <1>2, <1>3, <1>5, FoundStays
<1>6. ASSUME KnownSnapshot(r) = <<>>, snapshots' = Append(snapshots, r) PROVE KnownSnapshot(r)' = <<r>>
  BY <1>1, <1>2, <1>3, <1>4, <1>6, FoundComes
<1> QED BY <1>5, <1>6

LEMMA DecisionReplays ==
  ASSUME LogsOK, LogsGrow, NEW r
  PROVE  /\ KnownDecision(r) # <<>> => KnownDecision(r)' = KnownDecision(r)
         /\ KnownDecision(r) = <<>> /\ decisions' = Append(decisions, r) => KnownDecision(r)' = <<r>>
<1> DEFINE at == {i \in DOMAIN decisions : decisions[i].id = r.id \/ decisions[i].judgment = r.judgment}
           more == {i \in DOMAIN decisions' : decisions'[i].id = r.id \/ decisions'[i].judgment = r.judgment}
<1>1. KnownDecision(r) = FirstOf(decisions, at) /\ KnownDecision(r)' = FirstOf(decisions', more)
  BY DEF KnownDecision, FirstOf
<1>2. /\ at \in SUBSET DOMAIN decisions /\ more \in SUBSET DOMAIN decisions'
      /\ IsLog(decisions) /\ Grown(decisions, decisions')
  BY DEF LogsOK, LogsGrow
<1>3. \A i \in DOMAIN decisions : decisions'[i] = decisions[i] => (i \in more <=> i \in at)
  BY <1>2, GrownIsLog
<1>4. decisions' = Append(decisions, r) => Len(decisions) + 1 \in more
  BY <1>2, Added
<1> HIDE DEF at, more
<1>5. ASSUME KnownDecision(r) # <<>> PROVE KnownDecision(r)' = KnownDecision(r)
  BY <1>1, <1>2, <1>3, <1>5, FoundStays
<1>6. ASSUME KnownDecision(r) = <<>>, decisions' = Append(decisions, r) PROVE KnownDecision(r)' = <<r>>
  BY <1>1, <1>2, <1>3, <1>4, <1>6, FoundComes
<1> QED BY <1>5, <1>6

LEMMA ForecastReplays ==
  ASSUME LogsOK, LogsGrow, NEW r
  PROVE  /\ KnownForecast(r) # <<>> => KnownForecast(r)' = KnownForecast(r)
         /\ KnownForecast(r) = <<>> /\ forecasts' = Append(forecasts, r) => KnownForecast(r)' = <<r>>
<1> DEFINE at == {i \in DOMAIN forecasts : forecasts[i].key = r.key}
           more == {i \in DOMAIN forecasts' : forecasts'[i].key = r.key}
<1>1. KnownForecast(r) = FirstOf(forecasts, at) /\ KnownForecast(r)' = FirstOf(forecasts', more)
  BY DEF KnownForecast, FirstOf
<1>2. /\ at \in SUBSET DOMAIN forecasts /\ more \in SUBSET DOMAIN forecasts'
      /\ IsLog(forecasts) /\ Grown(forecasts, forecasts')
  BY DEF LogsOK, LogsGrow
<1>3. \A i \in DOMAIN forecasts : forecasts'[i] = forecasts[i] => (i \in more <=> i \in at)
  BY <1>2, GrownIsLog
<1>4. forecasts' = Append(forecasts, r) => Len(forecasts) + 1 \in more
  BY <1>2, Added
<1> HIDE DEF at, more
<1>5. ASSUME KnownForecast(r) # <<>> PROVE KnownForecast(r)' = KnownForecast(r)
  BY <1>1, <1>2, <1>3, <1>5, FoundStays
<1>6. ASSUME KnownForecast(r) = <<>>, forecasts' = Append(forecasts, r) PROVE KnownForecast(r)' = <<r>>
  BY <1>1, <1>2, <1>3, <1>4, <1>6, FoundComes
<1> QED BY <1>5, <1>6

LEMMA AttemptReplays ==
  ASSUME LogsOK, LogsGrow, NEW r
  PROVE  /\ KnownAttempt(r) # <<>> => KnownAttempt(r)' = KnownAttempt(r)
         /\ KnownAttempt(r) = <<>> /\ attempts' = Append(attempts, r) => KnownAttempt(r)' = <<r>>
<1> DEFINE at == {i \in DOMAIN attempts : LET x == attempts[i] IN
                       x.id = r.id \/ (x.key = r.key /\ x.number = r.number)}
           more == {i \in DOMAIN attempts' : LET x == attempts'[i] IN
                       x.id = r.id \/ (x.key = r.key /\ x.number = r.number)}
<1>1. KnownAttempt(r) = FirstOf(attempts, at) /\ KnownAttempt(r)' = FirstOf(attempts', more)
  BY DEF KnownAttempt, FirstOf
<1>2. /\ at \in SUBSET DOMAIN attempts /\ more \in SUBSET DOMAIN attempts'
      /\ IsLog(attempts) /\ Grown(attempts, attempts')
  BY DEF LogsOK, LogsGrow
<1>3. \A i \in DOMAIN attempts : attempts'[i] = attempts[i] => (i \in more <=> i \in at)
  BY <1>2, GrownIsLog
<1>4. attempts' = Append(attempts, r) => Len(attempts) + 1 \in more
  BY <1>2, Added
<1> HIDE DEF at, more
<1>5. ASSUME KnownAttempt(r) # <<>> PROVE KnownAttempt(r)' = KnownAttempt(r)
  BY <1>1, <1>2, <1>3, <1>5, FoundStays
<1>6. ASSUME KnownAttempt(r) = <<>>, attempts' = Append(attempts, r) PROVE KnownAttempt(r)' = <<r>>
  BY <1>1, <1>2, <1>3, <1>4, <1>6, FoundComes
<1> QED BY <1>5, <1>6

\* An answer that repeats an earlier one is given for ever.
LEMMA ReplayStays ==
  ASSUME LogsOK, LogsGrow, NEW r, WellTyped(r), CanBeRepeated(r),
         Answers(r).status = "replayed"
  PROVE  Answers(r)' = Answers(r)
<1> USE DEF Answer, Refused
<1>1. CASE r.op = "snapshot"
  <2>1. Answers(r) = InsertSnapshot(r) /\ Answers(r)' = InsertSnapshot(r)'
    BY <1>1 DEF Answers
  <2>2. SnapshotIsPast(r) /\ KnownSnapshot(r) # <<>>
    BY <2>1 DEF InsertSnapshot
  <2>3. KnownSnapshot(r)' = KnownSnapshot(r)
    BY <2>2, SnapshotReplays
  <2> QED BY <2>1, <2>2, <2>3 DEF InsertSnapshot
<1>2. CASE r.op = "judgment"
  <2>1. Answers(r) = InsertJudgment(r) /\ Answers(r)' = InsertJudgment(r)'
    BY <1>2 DEF Answers
  <2>2. r.snapshot \in Ids(snapshots) /\ Named(judgments, r.id) # <<>>
    BY <2>1 DEF InsertJudgment
  <2>3. Named(judgments', r.id) = Named(judgments, r.id)
    BY <2>2, NamedStays DEF LogsOK, LogsGrow
  <2>4. r.snapshot \in Ids(snapshots')
    BY <2>2, GrownIsLog DEF LogsOK, LogsGrow
  <2> QED BY <2>1, <2>2, <2>3, <2>4 DEF InsertJudgment
<1>3. CASE r.op = "decision"
  <2>1. Answers(r) = InsertPolicyDecision(r) /\ Answers(r)' = InsertPolicyDecision(r)'
    BY <1>3 DEF Answers
  <2>2. r.judgment \in Ids(judgments) /\ KnownDecision(r) # <<>>
    BY <2>1 DEF InsertPolicyDecision
  <2>3. KnownDecision(r)' = KnownDecision(r)
    BY <2>2, DecisionReplays
  <2>4. r.judgment \in Ids(judgments')
    BY <2>2, GrownIsLog DEF LogsOK, LogsGrow
  <2> QED BY <2>1, <2>2, <2>3, <2>4 DEF InsertPolicyDecision
<1>4. CASE r.op = "publish"
  <2>1. Answers(r) = PublishForecast(r) /\ Answers(r)' = PublishForecast(r)'
    BY <1>4 DEF Answers
  <2>2. KnownForecast(r) # <<>>
    BY <2>1 DEF PublishForecast
  <2>3. KnownForecast(r)' = KnownForecast(r)
    BY <2>2, ForecastReplays
  <2> QED BY <2>1, <2>2, <2>3 DEF PublishForecast
<1>5. CASE r.op \in {"resolve", "correct"}
  <2>1. Answers(r) = Settle(r) /\ Answers(r)' = Settle(r)'
    BY <1>5 DEF Answers
  <2>2. /\ Named(events, r.event.id) = <<EventRow(r.event)>>
        /\ Named(outcomes, r.outcome.id) = <<r.outcome>>
    BY <2>1 DEF Settle
  <2>3. Named(events, r.event.id) # <<>> /\ Named(outcomes, r.outcome.id) # <<>>
    BY <2>2
  <2>4. /\ Named(events', r.event.id) = Named(events, r.event.id)
        /\ Named(outcomes', r.outcome.id) = Named(outcomes, r.outcome.id)
    BY <2>3, NamedStays DEF LogsOK, LogsGrow
  <2> QED BY <2>1, <2>2, <2>4 DEF Settle, EventRow
<1>6. CASE r.op = "void"
  <2>1. Answers(r) = VoidForecast(r) /\ Answers(r)' = VoidForecast(r)'
    BY <1>6 DEF Answers
  <2>2. Named(events, r.event.id) # <<>>
    BY <2>1 DEF VoidForecast
  <2>3. Named(events', r.event.id) = Named(events, r.event.id)
    BY <2>2, NamedStays DEF LogsOK, LogsGrow
  <2> QED BY <2>1, <2>2, <2>3 DEF VoidForecast, EventRow
<1>7. CASE r.op = "attempt"
  <2>1. Answers(r) = RecordJobAttempt(r) /\ Answers(r)' = RecordJobAttempt(r)'
    BY <1>7 DEF Answers
  <2>2. KnownAttempt(r) # <<>>
    BY <2>1 DEF RecordJobAttempt
  <2>3. KnownAttempt(r)' = KnownAttempt(r)
    BY <2>2, AttemptReplays
  <2> QED BY <2>1, <2>2, <2>3 DEF RecordJobAttempt
<1> QED
  BY <1>1, <1>2, <1>3, <1>4, <1>5, <1>6, <1>7 DEF WellTyped, Operations, CanBeRepeated

\* A request that has made its row is answered with it from then on.
LEMMA CreatedReplays ==
  ASSUME LogsOK, NEW r, WellTyped(r), Call(r), CanBeRepeated(r),
         Answers(r).status = "created"
  PROVE  Answers(r)' = Replayed(Answers(r).value)
<1> USE DEF Answer, Refused, Replayed
<1>0. LogsGrow
  BY CallGrows
<1>1. CASE r.op = "snapshot"
  <2>1. Answers(r) = InsertSnapshot(r) /\ Answers(r)' = InsertSnapshot(r)'
    BY <1>1 DEF Answers
  <2>2. SnapshotIsPast(r) /\ KnownSnapshot(r) = <<>> /\ Answers(r).value = <<r>>
    BY <2>1 DEF InsertSnapshot
  <2>3. snapshots' = Append(snapshots, r)
    BY <1>1, CallEffects DEF Makes
  <2>4. KnownSnapshot(r)' = <<r>>
    BY <1>0, <2>2, <2>3, SnapshotReplays
  <2> QED BY <2>1, <2>2, <2>4 DEF InsertSnapshot
<1>2. CASE r.op = "judgment"
  <2>1. Answers(r) = InsertJudgment(r) /\ Answers(r)' = InsertJudgment(r)'
    BY <1>2 DEF Answers
  <2>2. /\ r.snapshot \in Ids(snapshots) /\ Named(judgments, r.id) = <<>>
        /\ Answers(r).value = <<r>>
    BY <2>1 DEF InsertJudgment
  <2>3. judgments' = Append(judgments, r) /\ snapshots' = snapshots
    BY <1>2, CallEffects DEF Makes
  <2>4. Named(judgments', r.id) = <<r>>
    BY <2>2, <2>3, NamedComes DEF LogsOK
  <2> QED BY <2>1, <2>2, <2>3, <2>4 DEF InsertJudgment
<1>3. CASE r.op = "decision"
  <2>1. Answers(r) = InsertPolicyDecision(r) /\ Answers(r)' = InsertPolicyDecision(r)'
    BY <1>3 DEF Answers
  <2>2. /\ r.judgment \in Ids(judgments) /\ KnownDecision(r) = <<>>
        /\ Answers(r).value = <<r>>
    BY <2>1 DEF InsertPolicyDecision
  <2>3. decisions' = Append(decisions, r) /\ judgments' = judgments
    BY <1>3, CallEffects DEF Makes
  <2>4. KnownDecision(r)' = <<r>>
    BY <1>0, <2>2, <2>3, DecisionReplays
  <2> QED BY <2>1, <2>2, <2>3, <2>4 DEF InsertPolicyDecision
<1>4. CASE r.op = "publish"
  <2>1. Answers(r) = PublishForecast(r) /\ Answers(r)' = PublishForecast(r)'
    BY <1>4 DEF Answers
  <2>2. KnownForecast(r) = <<>> /\ Answers(r).value = <<r>>
    BY <2>1 DEF PublishForecast
  <2>3. forecasts' = Append(forecasts, r)
    BY <1>4, CallEffects DEF Makes
  <2>4. KnownForecast(r)' = <<r>>
    BY <1>0, <2>2, <2>3, ForecastReplays
  <2> QED BY <2>1, <2>2, <2>4 DEF PublishForecast
<1>5. CASE r.op \in {"resolve", "correct"}
  <2>1. Answers(r) = Settle(r) /\ Answers(r)' = Settle(r)'
    BY <1>5 DEF Answers
  <2>2. /\ Named(events, r.event.id) = <<>> /\ Named(outcomes, r.outcome.id) = <<>>
        /\ Answers(r).value = <<r>>
    BY <2>1 DEF Settle
  <2>3. events' = Append(events, EventRow(r.event)) /\ outcomes' = Append(outcomes, r.outcome)
    BY <1>5, CallEffects DEF Makes, Settles
  <2>4. EventRow(r.event).id = r.event.id
    BY DEF EventRow
  <2>5. /\ Named(events', r.event.id) = <<EventRow(r.event)>>
        /\ Named(outcomes', r.outcome.id) = <<r.outcome>>
    BY <2>2, <2>3, <2>4, NamedComes DEF LogsOK
  <2> QED BY <2>1, <2>2, <2>5 DEF Settle, EventRow
<1>6. CASE r.op = "void"
  <2>1. Answers(r) = VoidForecast(r) /\ Answers(r)' = VoidForecast(r)'
    BY <1>6 DEF Answers
  <2>2. Named(events, r.event.id) = <<>> /\ Answers(r).value = <<EventRow(r.event)>>
    BY <2>1 DEF VoidForecast
  <2>3. events' = Append(events, EventRow(r.event))
    BY <1>6, CallEffects DEF Makes, Settles
  <2>4. EventRow(r.event).id = r.event.id
    BY DEF EventRow
  <2>5. Named(events', r.event.id) = <<EventRow(r.event)>>
    BY <2>2, <2>3, <2>4, NamedComes DEF LogsOK
  <2> QED BY <2>1, <2>2, <2>5 DEF VoidForecast, EventRow
<1>7. CASE r.op = "attempt"
  <2>1. Answers(r) = RecordJobAttempt(r) /\ Answers(r)' = RecordJobAttempt(r)'
    BY <1>7 DEF Answers
  <2>2. KnownAttempt(r) = <<>> /\ Answers(r).value = <<r>>
    BY <2>1 DEF RecordJobAttempt
  <2>3. attempts' = Append(attempts, r)
    BY <1>7, CallEffects DEF Makes
  <2>4. KnownAttempt(r)' = <<r>>
    BY <1>0, <2>2, <2>3, AttemptReplays
  <2> QED BY <2>1, <2>2, <2>4 DEF RecordJobAttempt
<1> QED
  BY <1>1, <1>2, <1>3, <1>4, <1>5, <1>6, <1>7 DEF WellTyped, Operations, CanBeRepeated

-----------------------------------------------------------------------------
(* The projection *)

\* What a row more does to the rows before each row
LEMMA RowsBefore ==
  ASSUME NEW rows, IsLog(rows), NEW x
  PROVE  /\ \A i \in DOMAIN rows : SubSeq(Append(rows, x), 1, i - 1) = SubSeq(rows, 1, i - 1)
         /\ SubSeq(Append(rows, x), 1, Len(rows)) = rows
<1> DEFINE S == {rows[i] : i \in DOMAIN rows} \cup {x}
           new == Append(rows, x)
<1>1. Len(rows) \in Nat /\ rows \in Seq(S) /\ new \in Seq(S) /\ Len(new) = Len(rows) + 1
  <2>1. rows \in Seq(S)
    BY SeqMonotonic DEF IsLog
  <2>2. x \in S
    OBVIOUS
  <2> HIDE DEF S
  <2> QED BY <2>1, <2>2
<1> HIDE DEF S
<1>2. DOMAIN rows = 1..Len(rows) /\ \A k \in 1..Len(rows) : new[k] = rows[k]
  BY Added
<1>3. ASSUME NEW n \in 0..Len(rows) PROVE SubSeq(new, 1, n) = SubSeq(rows, 1, n)
  <2>1. \A k \in 1..n : new[k] = rows[k] /\ rows[k] \in S
    BY <1>1, <1>2
  <2>2. /\ SubSeq(new, 1, n) \in Seq(S) /\ Len(SubSeq(new, 1, n)) = n
        /\ \A k \in 1..n : SubSeq(new, 1, n)[k] = new[k]
    BY <2>1, SubSeqProperties
  <2>3. /\ SubSeq(rows, 1, n) \in Seq(S) /\ Len(SubSeq(rows, 1, n)) = n
        /\ \A k \in 1..n : SubSeq(rows, 1, n)[k] = rows[k]
    BY <2>1, SubSeqProperties
  <2> HIDE DEF new
  <2> QED BY <2>1, <2>2, <2>3, SeqEqual
<1>4. SubSeq(rows, 1, Len(rows)) = rows
  <2>1. \A k \in 1..Len(rows) : rows[k] \in S
    BY <1>1
  <2>2. /\ SubSeq(rows, 1, Len(rows)) \in Seq(S) /\ Len(SubSeq(rows, 1, Len(rows))) = Len(rows)
        /\ \A k \in 1..Len(rows) : SubSeq(rows, 1, Len(rows))[k] = rows[k]
    BY <1>1, <2>1, SubSeqProperties
  <2> QED BY <1>1, <2>2, SeqEqual
<1>5. \A i \in DOMAIN rows : i - 1 \in 0..Len(rows)
  BY <1>1, <1>2
<1>6. Len(rows) \in 0..Len(rows)
  BY <1>1
<1> HIDE DEF new
<1> QED BY <1>3, <1>4, <1>5, <1>6 DEF new

\* The status after an event more
LEMMA StatusAfter ==
  ASSUME NEW evs, IsLog(evs), NEW e, NEW f
  PROVE  StatusIn(Append(evs, e), f) =
             IF e.forecast = f /\ e.type # "correction" THEN e.type ELSE StatusIn(evs, f)
<1> DEFINE new == Append(evs, e)
           at == {i \in OwnRows(evs, f) : evs[i].type # "correction"}
           more == {i \in OwnRows(new, f) : new[i].type # "correction"}
<1>1. /\ StatusIn(new, f) = IF LastOf(new, more) = <<>> THEN "absent" ELSE LastOf(new, more)[1].type
      /\ StatusIn(evs, f) = IF LastOf(evs, at) = <<>> THEN "absent" ELSE LastOf(evs, at)[1].type
  BY DEF StatusIn
<1>2. more \in SUBSET DOMAIN new
  BY DEF OwnRows
<1>3. Len(evs) + 1 \in more <=> e.forecast = f /\ e.type # "correction"
  BY Added DEF OwnRows
<1>4. CASE Len(evs) + 1 \in more
  <2>1. LastOf(new, more) = <<e>>
    <3> HIDE DEF more
    <3> QED BY <1>2, <1>4, LastComes
  <2> HIDE DEF more, at, new
  <2>2. LastOf(new, more) # <<>> /\ LastOf(new, more)[1] = e
    BY <2>1
  <2> QED BY <1>1, <1>3, <1>4, <2>2 DEF new
<1>5. CASE Len(evs) + 1 \notin more
  <2>1. LastOf(new, more) = LastOf(evs, more)
    <3> HIDE DEF more
    <3> QED BY <1>2, <1>5, LastStays
  <2>2. more = at
    BY <1>5, Added DEF OwnRows
  <2> HIDE DEF more, at, new
  <2> QED BY <1>1, <1>3, <1>5, <2>1, <2>2 DEF new
<1> QED BY <1>4, <1>5

\* and the active outcome after an outcome more
LEMMA ActiveAfter ==
  ASSUME NEW outs, IsLog(outs), NEW o, NEW f
  PROVE  ActiveIn(Append(outs, o), f) = IF o.forecast = f THEN <<o>> ELSE ActiveIn(outs, f)
<1> DEFINE new == Append(outs, o)
           at == OwnRows(outs, f)
           more == OwnRows(new, f)
<1>1. ActiveIn(new, f) = LastOf(new, more) /\ ActiveIn(outs, f) = LastOf(outs, at)
  BY DEF ActiveIn
<1>2. more \in SUBSET DOMAIN new
  BY DEF OwnRows
<1>3. Len(outs) + 1 \in more <=> o.forecast = f
  BY Added DEF OwnRows
<1>4. CASE Len(outs) + 1 \in more
  <2> HIDE DEF more
  <2> QED BY <1>1, <1>2, <1>3, <1>4, LastComes
<1>5. CASE Len(outs) + 1 \notin more
  <2>1. more = at
    BY <1>5, Added DEF OwnRows
  <2> HIDE DEF more, at
  <2> QED BY <1>1, <1>2, <1>3, <1>5, <2>1, LastStays
<1> QED BY <1>4, <1>5

\* Fits, with the forecasts there are
EventFitsAmong(known, before, e) ==
    /\ e.forecast \in known /\ e.id \notin Ids(before)
    /\ CASE e.type = "published" -> StatusIn(before, e.forecast) = "absent"
         [] e.type \in {"resolved", "void"} -> StatusIn(before, e.forecast) = "published"
         [] e.type = "correction" ->
              /\ StatusIn(before, e.forecast) \in {"resolved", "void"}
              /\ \E i \in DOMAIN before : before[i].id = e.cites /\ before[i].forecast = e.forecast

OutcomeFitsAmong(known, before, o) ==
    /\ o.forecast \in known /\ o.id \notin Ids(before)
    /\ LET active == ActiveIn(before, o.forecast)
       IN  IF o.corrects = None THEN active = <<>>
           ELSE active # <<>> /\ active[1].id = o.corrects

EventsFit(known, evs) ==
    \A i \in DOMAIN evs : EventFitsAmong(known, SubSeq(evs, 1, i - 1), evs[i])
OutcomesFit(known, outs) ==
    \A i \in DOMAIN outs : OutcomeFitsAmong(known, SubSeq(outs, 1, i - 1), outs[i])

\* The strict rebuild, in these terms
LEMMA RebuildsIs ==
  Rebuilds <=> /\ EventsFit(Ids(forecasts), events)
               /\ \A f \in Ids(forecasts) : StatusIn(events, f) # "absent"
               /\ OutcomesFit(Ids(forecasts), outcomes)
<1>1. AllFit(events, EventFits) <=> EventsFit(Ids(forecasts), events)
  BY DEF AllFit, EventFits, EventsFit, EventFitsAmong
<1>2. AllFit(outcomes, OutcomeFits) <=> OutcomesFit(Ids(forecasts), outcomes)
  BY DEF AllFit, OutcomeFits, OutcomesFit, OutcomeFitsAmong
<1> QED BY <1>1, <1>2 DEF Rebuilds

\* More forecasts, and one row more that fits, and all of them fit.
LEMMA EventsStillFit ==
  ASSUME NEW known, NEW more, known \subseteq more, NEW evs, IsLog(evs), EventsFit(known, evs)
  PROVE  /\ EventsFit(more, evs)
         /\ \A e : EventFitsAmong(more, evs, e) => EventsFit(more, Append(evs, e))
<1>1. EventsFit(more, evs)
  BY DEF EventsFit, EventFitsAmong
<1>2. ASSUME NEW e, EventFitsAmong(more, evs, e) PROVE EventsFit(more, Append(evs, e))
  <2> SUFFICES ASSUME NEW i \in DOMAIN Append(evs, e)
               PROVE  EventFitsAmong(more, SubSeq(Append(evs, e), 1, i - 1), Append(evs, e)[i])
    BY DEF EventsFit
  <2>1. CASE i \in DOMAIN evs
    <3>1. Append(evs, e)[i] = evs[i]
      BY <2>1, Added
    <3>2. SubSeq(Append(evs, e), 1, i - 1) = SubSeq(evs, 1, i - 1)
      BY <2>1, RowsBefore
    <3> QED BY <1>1, <2>1, <3>1, <3>2 DEF EventsFit
  <2>2. CASE i = Len(evs) + 1
    <3>1. i - 1 = Len(evs)
      BY <2>2, Added
    <3> QED BY <1>2, <2>2, <3>1, Added, RowsBefore
  <2> QED BY <2>1, <2>2, Added
<1> QED BY <1>1, <1>2

LEMMA OutcomesStillFit ==
  ASSUME NEW known, NEW more, known \subseteq more, NEW outs, IsLog(outs),
         OutcomesFit(known, outs)
  PROVE  /\ OutcomesFit(more, outs)
         /\ \A o : OutcomeFitsAmong(more, outs, o) => OutcomesFit(more, Append(outs, o))
<1>1. OutcomesFit(more, outs)
  BY DEF OutcomesFit, OutcomeFitsAmong
<1>2. ASSUME NEW o, OutcomeFitsAmong(more, outs, o) PROVE OutcomesFit(more, Append(outs, o))
  <2> SUFFICES ASSUME NEW i \in DOMAIN Append(outs, o)
               PROVE  OutcomeFitsAmong(more, SubSeq(Append(outs, o), 1, i - 1), Append(outs, o)[i])
    BY DEF OutcomesFit
  <2>1. CASE i \in DOMAIN outs
    <3>1. Append(outs, o)[i] = outs[i]
      BY <2>1, Added
    <3>2. SubSeq(Append(outs, o), 1, i - 1) = SubSeq(outs, 1, i - 1)
      BY <2>1, RowsBefore
    <3> QED BY <1>1, <2>1, <3>1, <3>2 DEF OutcomesFit
  <2>2. CASE i = Len(outs) + 1
    <3>1. i - 1 = Len(outs)
      BY <2>2, Added
    <3> QED BY <1>2, <2>2, <3>1, Added, RowsBefore
  <2> QED BY <2>1, <2>2, Added
<1> QED BY <1>1, <1>2

\* A forecast of which there is nothing has no status and no outcome.
LEMMA Untold ==
  ASSUME NEW rows, NEW f, \A i \in DOMAIN rows : rows[i].forecast # f
  PROVE  StatusIn(rows, f) = "absent" /\ ActiveIn(rows, f) = <<>>
<1>1. OwnRows(rows, f) = {}
  BY DEF OwnRows
<1> QED BY <1>1 DEF StatusIn, ActiveIn, LastOf

\* Every event and outcome is about a forecast there is.
LEMMA RowsHaveOwners ==
  ASSUME Rebuilds
  PROVE  /\ \A i \in DOMAIN events : events[i].forecast \in Ids(forecasts)
         /\ \A i \in DOMAIN outcomes : outcomes[i].forecast \in Ids(forecasts)
BY RebuildsIs DEF EventsFit, OutcomesFit, EventFitsAmong, OutcomeFitsAmong

LEMMA RebuildsNext ==
  Rebuilds' <=> /\ EventsFit(Ids(forecasts'), events')
                /\ \A f \in Ids(forecasts') : StatusIn(events', f) # "absent"
                /\ OutcomesFit(Ids(forecasts'), outcomes')
<1>1. (Rebuilds <=> /\ EventsFit(Ids(forecasts), events)
                    /\ \A f \in Ids(forecasts) : StatusIn(events, f) # "absent"
                    /\ OutcomesFit(Ids(forecasts), outcomes))'
  BY RebuildsIs, PTL
<1>2. Ids(forecasts)' = Ids(forecasts')
  BY DEF Ids
<1> QED BY <1>1, <1>2

-----------------------------------------------------------------------------
(* The history of the forecasts *)

\* An id nobody else uses is not yet used, and the one there will be next is lower.
GeneratedIsFresh == \A i \in DOMAIN events : events[i].id \in Int /\ events[i].id > Generated(events)

ResolvedHaveOutcomes ==
    \A f \in Ids(forecasts) :
        (StatusIn(events, f) = "resolved") <=> (ActiveIn(outcomes, f) # <<>>)

HistoryOK ==
    /\ Rebuilds
    /\ GeneratedIsFresh
    /\ \A i \in DOMAIN outcomes : outcomes[i].id # None
    /\ ResolvedHaveOutcomes

\* What the methods have made sure of when they make their rows
LEMMA PublicationAllowed ==
  ASSUME NEW r, Makes(r, "publish")
  PROVE  /\ r.id \notin Ids(forecasts) /\ Chained(r) /\ KnownForecast(r) = <<>>
         /\ \A i \in DOMAIN forecasts : forecasts[i].judgment # r.judgment
<1>1. PublishForecast(r).status = "created"
  BY AnswersByOperation DEF Makes
<1> QED BY <1>1 DEF PublishForecast, Answer, Refused

LEMMA SettlementAllowed ==
  ASSUME NEW r, WellTyped(r), Settles(r)
  PROVE  /\ EventAllowed(r.event)
         /\ OutcomeAllowed(Append(events, EventRow(r.event)), r.outcome)
         /\ r.outcome.id # None /\ r.outcome.id \notin Ids(outcomes)
         /\ \/ r.event.type = "resolved" /\ r.outcome.corrects = None
            \/ r.event.type = "correction" /\ r.outcome.corrects # None
<1>1. r.op \in {"resolve", "correct"} /\ Settle(r).status = "created"
  BY AnswersByOperation DEF Settles, Makes
<1>2. /\ EventAllowed(r.event)
      /\ OutcomeAllowed(Append(events, EventRow(r.event)), r.outcome)
  BY <1>1 DEF Settle, Refused
<1> QED BY <1>1, <1>2 DEF OutcomeAllowed, WellTyped, TypeOfEvent

LEMMA VoidAllowed ==
  ASSUME NEW r, WellTyped(r), Makes(r, "void")
  PROVE  EventAllowed(r.event) /\ r.event.type = "void"
<1>1. r.op = "void" /\ VoidForecast(r).status = "created"
  BY AnswersByOperation DEF Makes
<1>2. EventAllowed(r.event)
  BY <1>1 DEF VoidForecast, Answer, Refused
<1> QED BY <1>1, <1>2 DEF WellTyped, TypeOfEvent

\* An event that is allowed fits those there are, and says of no other forecast.
LEMMA AllowedFits ==
  ASSUME NEW e, EventAllowed(e), e.type \in {"resolved", "void", "correction"}
  PROVE  EventFitsAmong(Ids(forecasts), events, EventRow(e))
BY DEF EventAllowed, EventFitsAmong, EventRow

\* The ids of the events, with an event more
LEMMA GeneratedStaysFresh ==
  ASSUME IsLog(events), GeneratedIsFresh, NEW e, events' = Append(events, e),
         e.id \in Nat \/ e.id = Generated(events)
  PROVE  GeneratedIsFresh'
<1>1. Len(events) \in Nat /\ Len(events') = Len(events) + 1
  BY Added
<1>2. /\ Generated(events) = -(Len(events) + 1) /\ Generated(events') = -(Len(events) + 2)
  BY <1>1 DEF Generated
<1>3. e.id \in Int /\ e.id > Generated(events')
  BY <1>1, <1>2
<1>4. ASSUME NEW i \in DOMAIN events'
      PROVE  events'[i].id \in Int /\ events'[i].id > Generated(events')
  <2>1. CASE i \in DOMAIN events
    <3>1. events'[i] = events[i]
      BY <2>1, Added
    <3> QED BY <1>1, <1>2, <2>1, <3>1 DEF GeneratedIsFresh
  <2>2. CASE i = Len(events) + 1
    BY <1>3, <2>2, Added
  <2> QED BY <2>1, <2>2, Added
<1> QED BY <1>4 DEF GeneratedIsFresh, Generated

LEMMA PublicationKeepsHistory ==
  ASSUME LogsOK, HistoryOK, NEW r, WellTyped(r), Call(r), Makes(r, "publish")
  PROVE  /\ HistoryOK'
         /\ StatusIn(events, r.id) = "absent"
         /\ \A f : StatusIn(events', f) = IF f = r.id THEN "published" ELSE StatusIn(events, f)
<1> DEFINE e == PublishedEvent(r.id)
<1>1. /\ forecasts' = Append(forecasts, r) /\ events' = Append(events, e)
      /\ outcomes' = outcomes
  BY CallEffects DEF Makes, Settles
<1>2. e.id = Generated(events) /\ e.forecast = r.id /\ e.type = "published"
  BY DEF PublishedEvent
<1> HIDE DEF e
<1>3. r.id \notin Ids(forecasts)
  BY PublicationAllowed
<1>4. StatusIn(events, r.id) = "absent" /\ ActiveIn(outcomes, r.id) = <<>>
  BY <1>3, RowsHaveOwners, Untold DEF HistoryOK
<1>5. Ids(forecasts') = Ids(forecasts) \cup {r.id}
  BY <1>1, IdsAfter DEF LogsOK
<1>6. \A f : StatusIn(events', f) = IF f = r.id THEN "published" ELSE StatusIn(events, f)
  BY <1>1, <1>2, StatusAfter DEF LogsOK
<1>7. e.id \notin Ids(events)
  BY <1>2 DEF HistoryOK, GeneratedIsFresh, Ids
<1>8. EventFitsAmong(Ids(forecasts'), events, e)
  BY <1>2, <1>4, <1>5, <1>7 DEF EventFitsAmong
<1>9. Rebuilds'
  <2>1. EventsFit(Ids(forecasts'), events')
    BY <1>1, <1>5, <1>8, RebuildsIs, EventsStillFit DEF HistoryOK, LogsOK
  <2>2. OutcomesFit(Ids(forecasts'), outcomes')
    BY <1>1, <1>5, RebuildsIs, OutcomesStillFit DEF HistoryOK, LogsOK
  <2>3. \A f \in Ids(forecasts') : StatusIn(events', f) # "absent"
    BY <1>5, <1>6, RebuildsIs DEF HistoryOK
  <2> QED BY <2>1, <2>2, <2>3, RebuildsNext
<1>10. GeneratedIsFresh'
  BY <1>1, <1>2, GeneratedStaysFresh DEF HistoryOK, LogsOK
<1>11. ResolvedHaveOutcomes'
  <2>1. \A f \in Ids(forecasts') :
            (StatusIn(events', f) = "resolved") <=> (ActiveIn(outcomes', f) # <<>>)
    BY <1>1, <1>4, <1>5, <1>6 DEF HistoryOK, ResolvedHaveOutcomes
  <2> QED BY <2>1 DEF ResolvedHaveOutcomes, Ids
<1> QED BY <1>1, <1>4, <1>6, <1>9, <1>10, <1>11 DEF HistoryOK

LEMMA SettlementKeepsHistory ==
  ASSUME LogsOK, HistoryOK, NEW r, WellTyped(r), Call(r), Settles(r)
  PROVE  LET o == r.outcome IN
         /\ HistoryOK'
         /\ o.forecast \in Ids(forecasts)
         /\ \/ /\ o.corrects = None /\ StatusIn(events, o.forecast) = "published"
               /\ \A f : StatusIn(events', f) =
                            IF f = o.forecast THEN "resolved" ELSE StatusIn(events, f)
            \/ /\ o.corrects # None /\ StatusIn(events, o.forecast) = "resolved"
               /\ ActiveIn(outcomes, o.forecast) # <<>>
               /\ ActiveIn(outcomes, o.forecast)[1].id = o.corrects
               /\ \A f : StatusIn(events', f) = StatusIn(events, f)
<1> DEFINE e == EventRow(r.event)
           o == r.outcome
<1>1. /\ forecasts' = forecasts /\ events' = Append(events, e)
      /\ outcomes' = Append(outcomes, o)
  BY CallEffects DEF Makes, Settles
<1>2. /\ EventAllowed(r.event) /\ OutcomeAllowed(Append(events, e), o)
      /\ o.id # None /\ o.id \notin Ids(outcomes)
      /\ \/ r.event.type = "resolved" /\ o.corrects = None
         \/ r.event.type = "correction" /\ o.corrects # None
  BY SettlementAllowed
<1>3. e.type = r.event.type /\ e.id = r.event.id /\ e.forecast = r.event.forecast
  BY DEF EventRow
<1>4. e.id \in Nat /\ EventFitsAmong(Ids(forecasts), events, e)
  BY <1>2, <1>3, AllowedFits DEF WellTyped, TypeOfEvent, Settles, Makes
<1>5. e.forecast \in Ids(forecasts) /\ o.forecast \in Ids(forecasts)
  BY <1>2, <1>3 DEF EventAllowed, OutcomeAllowed
<1> HIDE DEF e, o
<1>6. /\ \A f : StatusIn(events', f) =
                   IF e.forecast = f /\ e.type # "correction" THEN e.type ELSE StatusIn(events, f)
      /\ \A f : ActiveIn(outcomes', f) = IF o.forecast = f THEN <<o>> ELSE ActiveIn(outcomes, f)
  BY <1>1, StatusAfter, ActiveAfter DEF LogsOK
<1>7. /\ o.corrects = None => /\ StatusIn(events', o.forecast) = "resolved"
                              /\ ActiveIn(outcomes, o.forecast) = <<>>
      /\ o.corrects # None => /\ ActiveIn(outcomes, o.forecast) # <<>>
                              /\ ActiveIn(outcomes, o.forecast)[1].id = o.corrects
  BY <1>1, <1>2 DEF OutcomeAllowed
<1>8. OutcomeFitsAmong(Ids(forecasts), outcomes, o)
  BY <1>2, <1>5, <1>7 DEF OutcomeFitsAmong
<1>11. \/ /\ o.corrects = None /\ StatusIn(events, o.forecast) = "published"
          /\ \A f : StatusIn(events', f) =
                       IF f = o.forecast THEN "resolved" ELSE StatusIn(events, f)
       \/ /\ o.corrects # None /\ StatusIn(events, o.forecast) = "resolved"
          /\ ActiveIn(outcomes, o.forecast) # <<>>
          /\ ActiveIn(outcomes, o.forecast)[1].id = o.corrects
          /\ \A f : StatusIn(events', f) = StatusIn(events, f)
  <2>1. CASE e.type = "resolved" /\ o.corrects = None
    <3>1. StatusIn(events, e.forecast) = "published"
      BY <1>4, <2>1 DEF EventFitsAmong
    <3>2. o.forecast = e.forecast
      <4> SUFFICES ASSUME o.forecast # e.forecast PROVE FALSE
        OBVIOUS
      <4>1. StatusIn(events, o.forecast) = "resolved"
        BY <1>6, <1>7, <2>1
      <4> QED BY <1>5, <1>7, <2>1, <4>1 DEF HistoryOK, ResolvedHaveOutcomes
    <3> QED BY <1>6, <2>1, <3>1, <3>2
  <2>2. CASE e.type = "correction" /\ o.corrects # None
    <3>1. StatusIn(events, o.forecast) = "resolved"
      BY <1>5, <1>7, <2>2 DEF HistoryOK, ResolvedHaveOutcomes
    <3> QED BY <1>6, <1>7, <2>2, <3>1
  <2> QED BY <1>2, <1>3, <2>1, <2>2
<1>12. Rebuilds'
  <2>1. EventsFit(Ids(forecasts'), events')
    BY <1>1, <1>4, RebuildsIs, EventsStillFit DEF HistoryOK, LogsOK
  <2>2. OutcomesFit(Ids(forecasts'), outcomes')
    BY <1>1, <1>8, RebuildsIs, OutcomesStillFit DEF HistoryOK, LogsOK
  <2>3. \A f \in Ids(forecasts') : StatusIn(events', f) # "absent"
    BY <1>1, <1>11, RebuildsIs DEF HistoryOK
  <2> QED BY <2>1, <2>2, <2>3, RebuildsNext
<1>13. GeneratedIsFresh'
  BY <1>1, <1>4, GeneratedStaysFresh DEF HistoryOK, LogsOK
<1>14. ResolvedHaveOutcomes'
  <2>1. \A f \in Ids(forecasts') :
            (StatusIn(events', f) = "resolved") <=> (ActiveIn(outcomes', f) # <<>>)
    <3>1. ASSUME NEW f \in Ids(forecasts), f = o.forecast
          PROVE  StatusIn(events', f) = "resolved" /\ ActiveIn(outcomes', f) # <<>>
      BY <1>6, <1>11, <3>1
    <3>2. ASSUME NEW f \in Ids(forecasts), f # o.forecast
          PROVE  /\ StatusIn(events', f) = StatusIn(events, f)
                 /\ ActiveIn(outcomes', f) = ActiveIn(outcomes, f)
      BY <1>6, <1>11, <3>2
    <3> QED BY <1>1, <3>1, <3>2 DEF HistoryOK, ResolvedHaveOutcomes
  <2> QED BY <2>1 DEF ResolvedHaveOutcomes, Ids
<1>15. \A i \in DOMAIN outcomes' : outcomes'[i].id # None
  BY <1>1, <1>2, Added DEF HistoryOK, LogsOK
<1> QED BY <1>5, <1>11, <1>12, <1>13, <1>14, <1>15 DEF HistoryOK, o

LEMMA VoidKeepsHistory ==
  ASSUME LogsOK, HistoryOK, NEW r, WellTyped(r), Call(r), Makes(r, "void")
  PROVE  LET f == r.event.forecast IN
         /\ HistoryOK'
         /\ f \in Ids(forecasts) /\ StatusIn(events, f) = "published"
         /\ \A g : StatusIn(events', g) = IF g = f THEN "void" ELSE StatusIn(events, g)
<1> DEFINE e == EventRow(r.event)
<1>1. forecasts' = forecasts /\ events' = Append(events, e) /\ outcomes' = outcomes
  BY CallEffects DEF Makes, Settles
<1>2. EventAllowed(r.event) /\ r.event.type = "void"
  BY VoidAllowed
<1>3. e.type = "void" /\ e.id = r.event.id /\ e.forecast = r.event.forecast
  BY <1>2 DEF EventRow
<1>4. e.id \in Nat /\ EventFitsAmong(Ids(forecasts), events, e)
  BY <1>2, <1>3, AllowedFits DEF WellTyped, TypeOfEvent, Makes
<1> HIDE DEF e
<1>5. /\ e.forecast \in Ids(forecasts) /\ StatusIn(events, e.forecast) = "published"
      /\ ActiveIn(outcomes, e.forecast) = <<>>
  BY <1>3, <1>4 DEF EventFitsAmong, HistoryOK, ResolvedHaveOutcomes
<1>6. \A g : StatusIn(events', g) = IF g = e.forecast THEN "void" ELSE StatusIn(events, g)
  BY <1>1, <1>3, StatusAfter DEF LogsOK
<1>7. Rebuilds'
  <2>1. EventsFit(Ids(forecasts'), events')
    BY <1>1, <1>4, RebuildsIs, EventsStillFit DEF HistoryOK, LogsOK
  <2>2. \A f \in Ids(forecasts') : StatusIn(events', f) # "absent"
    BY <1>1, <1>6, RebuildsIs DEF HistoryOK
  <2> QED BY <1>1, <2>1, <2>2, RebuildsIs, RebuildsNext DEF HistoryOK
<1>8. GeneratedIsFresh'
  BY <1>1, <1>4, GeneratedStaysFresh DEF HistoryOK, LogsOK
<1>9. ResolvedHaveOutcomes'
  BY <1>1, <1>5, <1>6 DEF HistoryOK, ResolvedHaveOutcomes, Ids
<1> QED BY <1>1, <1>3, <1>5, <1>6, <1>7, <1>8, <1>9 DEF HistoryOK

\* No other call, and nothing else, tells anything of a forecast.
LEMMA OthersKeepHistory ==
  ASSUME HistoryOK, forecasts' = forecasts, events' = events, outcomes' = outcomes
  PROVE  HistoryOK'
<1>1. Rebuilds'
  BY RebuildsIs, RebuildsNext DEF HistoryOK
<1> QED BY <1>1 DEF HistoryOK, GeneratedIsFresh, Generated, ResolvedHaveOutcomes, Ids

LEMMA CallKeepsHistory ==
  ASSUME LogsOK, HistoryOK, NEW r, WellTyped(r), Call(r)
  PROVE  HistoryOK'
<1>1. CASE Makes(r, "publish")
  BY <1>1, PublicationKeepsHistory
<1>2. CASE Settles(r)
  BY <1>2, SettlementKeepsHistory
<1>3. CASE Makes(r, "void")
  BY <1>3, VoidKeepsHistory
<1>4. CASE ~Makes(r, "publish") /\ ~Settles(r) /\ ~Makes(r, "void")
  BY <1>4, CallEffects, OthersKeepHistory
<1> QED BY <1>1, <1>2, <1>3, <1>4

-----------------------------------------------------------------------------
(* The chain of evidence *)

\* What a forecast was published on stays there, and says the same.
LEMMA ChainedStays ==
  ASSUME LogsOK, LogsGrow, NEW r, Chained(r)
  PROVE  Chained(r)'
<1>1. /\ r.snapshot \in Ids(snapshots) /\ r.judgment \in Ids(judgments)
      /\ r.decision \in Ids(decisions)
  BY DEF Chained
<1>2. /\ r.snapshot \in Ids(snapshots') /\ r.judgment \in Ids(judgments')
      /\ r.decision \in Ids(decisions')
  BY <1>1, GrownIsLog DEF LogsOK, LogsGrow
<1>3. /\ Named(snapshots, r.snapshot) # <<>> /\ Named(judgments, r.judgment) # <<>>
      /\ Named(decisions, r.decision) # <<>>
  BY <1>1, NamedOrNot DEF LogsOK
<1>4. /\ Named(snapshots', r.snapshot) = Named(snapshots, r.snapshot)
      /\ Named(judgments', r.judgment) = Named(judgments, r.judgment)
      /\ Named(decisions', r.decision) = Named(decisions, r.decision)
  BY <1>3, NamedStays DEF LogsOK, LogsGrow
<1> QED BY <1>2, <1>4 DEF Chained, Ids

LEMMA CallKeepsEvidence ==
  ASSUME LogsOK, EvidenceIsExclusive, NEW r, WellTyped(r), Call(r)
  PROVE  EvidenceIsExclusive'
<1>1. LogsGrow
  BY CallGrows
<1>2. ASSUME NEW i \in DOMAIN forecasts', NEW j \in DOMAIN forecasts',
             forecasts'[i].judgment = forecasts'[j].judgment
      PROVE  i = j
  <2>1. CASE forecasts' = forecasts
    BY <1>2, <2>1 DEF EvidenceIsExclusive
  <2>2. CASE Makes(r, "publish")
    <3>1. forecasts' = Append(forecasts, r)
      BY <2>2, CallEffects
    <3>2. \A k \in DOMAIN forecasts : forecasts[k].judgment # r.judgment
      BY <2>2, PublicationAllowed
    <3>3. /\ DOMAIN forecasts' = DOMAIN forecasts \cup {Len(forecasts) + 1}
          /\ \A k \in DOMAIN forecasts : forecasts'[k] = forecasts[k]
          /\ forecasts'[Len(forecasts) + 1] = r
      BY <3>1, Added DEF LogsOK
    <3> QED BY <1>2, <3>2, <3>3 DEF EvidenceIsExclusive
  <2> QED BY <2>1, <2>2, CallEffects
<1>3. ASSUME NEW i \in DOMAIN decisions', NEW j \in DOMAIN decisions',
             decisions'[i].judgment = decisions'[j].judgment
      PROVE  i = j
  <2>1. CASE decisions' = decisions
    BY <1>3, <2>1 DEF EvidenceIsExclusive
  <2>2. CASE Makes(r, "decision")
    <3>1. decisions' = Append(decisions, r)
      BY <2>2, CallEffects
    <3>2. KnownDecision(r) = <<>>
      <4>1. InsertPolicyDecision(r).status = "created"
        BY <2>2, AnswersByOperation DEF Makes
      <4> QED BY <4>1 DEF InsertPolicyDecision, Answer, Refused
    <3>3. \A k \in DOMAIN decisions : decisions[k].judgment # r.judgment
      BY <3>2 DEF KnownDecision, FirstOf
    <3>4. /\ DOMAIN decisions' = DOMAIN decisions \cup {Len(decisions) + 1}
          /\ \A k \in DOMAIN decisions : decisions'[k] = decisions[k]
          /\ decisions'[Len(decisions) + 1] = r
      BY <3>1, Added DEF LogsOK
    <3> QED BY <1>3, <3>3, <3>4 DEF EvidenceIsExclusive
  <2> QED BY <2>1, <2>2, CallEffects
<1>4. ASSUME NEW i \in DOMAIN forecasts' PROVE Chained(forecasts[i])'
  <2>1. \A k \in DOMAIN forecasts : Chained(forecasts[k])
    BY DEF EvidenceIsExclusive
  <2>2. PICK f : f = forecasts'[i]
    OBVIOUS
  <2>3. Chained(f)
    <3>1. CASE forecasts' = forecasts
      BY <2>1, <2>2, <3>1
    <3>2. CASE Makes(r, "publish")
      <4>1. forecasts' = Append(forecasts, r)
        BY <3>2, CallEffects
      <4>2. (i \in DOMAIN forecasts /\ f = forecasts[i]) \/ f = r
        BY <2>2, <4>1, Added DEF LogsOK
      <4> QED BY <2>1, <3>2, <4>2, PublicationAllowed
    <3> QED BY <3>1, <3>2, CallEffects
  <2>4. Chained(f)'
    BY <1>1, <2>3, ChainedStays
  <2> QED BY <2>2, <2>4 DEF Chained
<1> QED BY <1>2, <1>3, <1>4 DEF EvidenceIsExclusive

-----------------------------------------------------------------------------
(* Attempts *)

\* The attempts of an operation
AttemptsAt(key) == {i \in DOMAIN attempts : attempts[i].key = key}

LEMMA CallKeepsNumbers ==
  ASSUME LogsOK, AttemptsAreNumbered, NEW r, WellTyped(r), Call(r)
  PROVE  AttemptsAreNumbered'
<1>1. CASE attempts' = attempts
  BY <1>1 DEF AttemptsAreNumbered
<1>2. CASE Makes(r, "attempt")
  <2> DEFINE n == Len(attempts)
             own == AttemptsAt(r.key)
  <2>1. attempts' = Append(attempts, r)
    BY <1>2, CallEffects
  <2>2. /\ n \in Nat /\ DOMAIN attempts = 1..n /\ DOMAIN attempts' = 1..(n + 1)
        /\ \A k \in 1..n : attempts'[k] = attempts[k]
        /\ attempts'[n + 1] = r
    BY <2>1, Added DEF LogsOK
  <2>3. LET previous == PreviousAttempt(r.key) IN
        IF previous = <<>> THEN r.number = 1
        ELSE previous[1].status # "succeeded" /\ r.number = previous[1].number + 1
    <3>1. RecordJobAttempt(r).status = "created"
      BY <1>2, AnswersByOperation DEF Makes
    <3> QED BY <3>1 DEF RecordJobAttempt, Answer, Refused
  <2>4. PreviousAttempt(r.key) = LastOf(attempts, own)
    BY DEF PreviousAttempt, AttemptsAt
  <2>5. own \in SUBSET (1..n) /\ IsFiniteSet(own)
    <3>1. own \in SUBSET (1..n)
      BY <2>2 DEF AttemptsAt
    <3>2. IsFiniteSet(1..n)
      BY <2>2, FS_Interval
    <3> QED BY <3>1, <3>2, FS_Subset
  <2>6. /\ r.number = Cardinality(own) + 1
        /\ \A i \in own : attempts[i].status # "succeeded"
    <3>1. CASE own = {}
      BY <2>3, <2>4, <3>1, FS_EmptySet DEF LastOf
    <3>2. CASE own # {}
      <4>1. Max(own) \in own /\ \A i \in own : i <= Max(own)
        <5> HIDE DEF own, n
        <5> QED BY <2>2, <2>5, <3>2, MaxOfPositions
      <4>2. /\ attempts[Max(own)].status # "succeeded"
            /\ r.number = attempts[Max(own)].number + 1
        BY <2>3, <2>4, <3>2 DEF LastOf
      <4>3. /\ attempts[Max(own)].key = r.key /\ Max(own) \in DOMAIN attempts
        BY <4>1 DEF AttemptsAt
      <4>4. attempts[Max(own)].number = Cardinality({k \in own : k <= Max(own)})
        BY <4>3 DEF AttemptsAreNumbered, AttemptsAt
      <4>5. {k \in own : k <= Max(own)} = own
        BY <4>1
      <4>6. ASSUME NEW i \in own, attempts[i].status = "succeeded" PROVE FALSE
        <5>1. \A k \in own : k <= i
          BY <4>6 DEF AttemptsAreNumbered, AttemptsAt
        <5>2. i = Max(own)
          BY <2>5, <4>1, <5>1
        <5> QED BY <4>2, <4>6, <5>2
      <4> QED BY <4>2, <4>4, <4>5, <4>6
    <3> QED BY <3>1, <3>2
  <2>7. ASSUME NEW i \in 1..(n + 1)
        PROVE  LET all == {k \in 1..(n + 1) : attempts'[k].key = attempts'[i].key}
               IN  /\ attempts'[i].number = Cardinality({k \in all : k <= i})
                   /\ attempts'[i].status = "succeeded" => \A k \in all : k <= i
    <3> DEFINE all == {k \in 1..(n + 1) : attempts'[k].key = attempts'[i].key}
    <3>1. CASE i \in 1..n
      <4> DEFINE same == AttemptsAt(attempts[i].key)
      <4>1. /\ attempts[i].number = Cardinality({k \in same : k <= i})
            /\ attempts[i].status = "succeeded" => \A k \in same : k <= i
        BY <2>2, <3>1 DEF AttemptsAreNumbered, AttemptsAt
      <4>2. {k \in all : k <= i} = {k \in same : k <= i}
        BY <2>2, <3>1 DEF AttemptsAt
      <4>3. attempts[i].status = "succeeded" => attempts[i].key # r.key
        BY <2>2, <2>6, <3>1 DEF AttemptsAt
      <4>4. attempts[i].key # r.key => all = same
        BY <2>2, <3>1 DEF AttemptsAt
      <4>5. attempts'[i] = attempts[i]
        BY <2>2, <3>1
      <4> HIDE DEF all, same
      <4>6. /\ attempts'[i].number = Cardinality({k \in all : k <= i})
            /\ attempts'[i].status = "succeeded" => \A k \in all : k <= i
        BY <4>1, <4>2, <4>3, <4>4, <4>5
      <4> QED BY <4>6 DEF all
    <3>2. CASE i = n + 1
      <4>1. {k \in all : k <= i} = own \cup {n + 1} /\ n + 1 \notin own
        BY <2>2, <2>5, <3>2 DEF AttemptsAt
      <4>2. Cardinality(own \cup {n + 1}) = Cardinality(own) + 1
        BY <2>5, <4>1, FS_AddElement
      <4>3. \A k \in all : k <= i
        BY <2>2, <3>2
      <4>4. attempts'[i].number = r.number
        BY <2>2, <3>2
      <4> QED BY <2>6, <4>1, <4>2, <4>3, <4>4
    <3> QED BY <2>2, <3>1, <3>2
  <2> QED BY <2>2, <2>7 DEF AttemptsAreNumbered
<1> QED BY <1>1, <1>2, CallEffects

-----------------------------------------------------------------------------
(* Visitors *)

\* What a visitor is known by is there already, or is new and capped.
LEMMA IdentifierIs ==
  ASSUME NEW r, clock \in Int, WellTyped(r), r.op \in {"pick", "analytics"}
  PROVE  LET x == IdentifierFor(r) IN
         /\ x.kind = r.op /\ x.token = r.token /\ x.scope = ScopeOf(r)
         /\ \/ x \in identifiers
            \/ /\ x.record = r.id /\ x.expires <= x.created + Retention
               /\ \A y \in identifiers :
                     ~(y.kind = x.kind /\ y.token = x.token /\ y.scope = x.scope)
<1> DEFINE known == {x \in identifiers :
                        x.kind = r.op /\ x.token = r.token /\ x.scope = ScopeOf(r)}
           new == [kind |-> r.op, token |-> r.token, scope |-> ScopeOf(r), record |-> r.id,
                   expires |-> Capped(r), created |-> clock]
<1>1. IdentifierFor(r) = IF known # {} THEN CHOOSE x \in known : TRUE ELSE new
  BY DEF IdentifierFor
<1>2. Capped(r) <= clock + Retention
  BY TimeAssumption DEF Capped, WellTyped
<1>3. CASE known # {}
  <2>1. IdentifierFor(r) \in known
    BY <1>1, <1>3
  <2> QED BY <2>1
<1>4. CASE known = {}
  BY <1>1, <1>2, <1>4
<1> QED BY <1>3, <1>4

LEMMA CallKeepsVisitors ==
  ASSUME LogsOK, VisitorsAreForgotten, clock \in Int, NEW r, WellTyped(r), Call(r)
  PROVE  VisitorsAreForgotten'
<1>1. LogsGrow
  BY CallGrows
<1>2. Ids(picks) \subseteq Ids(picks') /\ Ids(analytics) \subseteq Ids(analytics')
  BY <1>1, GrownIsLog DEF LogsOK, LogsGrow
<1>3. CASE identifiers' = identifiers
  BY <1>2, <1>3 DEF VisitorsAreForgotten, Ids
<1>4. CASE Identifies(r, Answers(r)) /\ identifiers' = identifiers \cup {IdentifierFor(r)}
  <2> DEFINE x == IdentifierFor(r)
  <2>1. r.op \in {"pick", "analytics"}
    BY <1>4 DEF Identifies
  <2>2. /\ x.kind = r.op
        /\ \/ x \in identifiers
           \/ /\ x.record = r.id /\ x.expires <= x.created + Retention
              /\ \A y \in identifiers :
                    ~(y.kind = x.kind /\ y.token = x.token /\ y.scope = x.scope)
    BY <2>1, IdentifierIs
  <2>3. ASSUME x \notin identifiers
        PROVE  x.record \in IF x.kind = "pick" THEN Ids(picks') ELSE Ids(analytics')
    <3>1. CASE r.op = "pick"
      <4>1. r.forecast \in Ids(forecasts) /\ ~(r.expires <= clock)
        BY <1>4, <3>1 DEF Identifies, WellTyped
      <4>2. Answers(r) = Answer(Named(picks, r.id), LAMBDA y : TRUE, r.id \notin Ids(picks),
                                PickRow(r))
        BY <2>2, <2>3, <3>1, <4>1, AnswersByOperation DEF RecordVisitorPick
      <4>3. r.id \in Ids(picks) \/ Makes(r, "pick")
        BY <3>1, <4>2, NamedOrNot DEF LogsOK, Answer, Makes
      <4>4. Makes(r, "pick") => r.id \in Ids(picks')
        BY CallEffects, IdsAfter DEF LogsOK, PickRow
      <4> QED BY <1>2, <2>2, <2>3, <3>1, <4>3, <4>4
    <3>2. CASE r.op = "analytics"
      <4>1. Makes(r, "analytics")
        BY <1>4, <3>2 DEF Identifies, Makes
      <4>2. r.id \in Ids(analytics')
        BY <4>1, CallEffects, IdsAfter DEF LogsOK
      <4> QED BY <2>2, <2>3, <3>2, <4>2
    <3> QED BY <2>1, <3>1, <3>2
  <2> HIDE DEF x
  <2>4. CASE x \in identifiers
    <3>1. identifiers' = identifiers
      BY <1>4, <2>4 DEF x
    <3> QED BY <1>3, <3>1
  <2>5. CASE x \notin identifiers
    <3>1. identifiers' = identifiers \cup {x}
      BY <1>4 DEF x
    <3>2. \A y \in identifiers' : y.expires <= y.created + Retention
      BY <2>2, <2>5, <3>1 DEF VisitorsAreForgotten
    <3>3. \A y, z \in identifiers' :
             y.kind = z.kind /\ y.token = z.token /\ y.scope = z.scope => y = z
      BY <2>2, <2>5, <3>1 DEF VisitorsAreForgotten
    <3>4. \A y \in identifiers' :
             y.record \in IF y.kind = "pick" THEN Ids(picks') ELSE Ids(analytics')
      BY <1>2, <2>3, <2>5, <3>1 DEF VisitorsAreForgotten
    <3> QED BY <3>2, <3>3, <3>4 DEF VisitorsAreForgotten, Ids
  <2> QED BY <2>4, <2>5
<1> QED BY <1>3, <1>4 DEF Call

LEMMA PurgeKeepsVisitors ==
  ASSUME VisitorsAreForgotten, identifiers' \subseteq identifiers,
         picks' = picks, analytics' = analytics
  PROVE  VisitorsAreForgotten'
BY DEF VisitorsAreForgotten, Ids

-----------------------------------------------------------------------------
(* The ledger's invariant *)

\* What was accepted is recognised.
AnsweredAgain ==
    \A a \in answered :
        /\ WellTyped(a.request)
        /\ CanBeRepeated(a.request) => Answers(a.request) = Replayed(a.value)

LedgerInv ==
    /\ LogsOK /\ AnsweredAgain
    /\ HistoryOK /\ EvidenceIsExclusive /\ AttemptsAreNumbered
    /\ clock \in Int /\ VisitorsAreForgotten
    /\ repertoire \in Repertoires

\* The ledger answers as it did while its records are the same.
LEMMA SameRecords ==
  ASSUME UNCHANGED <<snapshots, judgments, decisions, forecasts, events, outcomes, attempts>>,
         NEW r, WellTyped(r), CanBeRepeated(r)
  PROVE  Answers(r)' = Answers(r)
<1>1. CASE r.op \in {"snapshot", "judgment", "decision"}
  BY <1>1 DEF Answers, InsertSnapshot, InsertJudgment, InsertPolicyDecision, KnownSnapshot,
     KnownDecision, Answer, Ids, Named
<1>2. CASE r.op = "publish"
  BY <1>2 DEF Answers, PublishForecast, KnownForecast, Answer, Ids, Named, Chained
<1>3. CASE r.op \in {"resolve", "correct", "void"}
  BY <1>3 DEF Answers, Settle, VoidForecast, Answer, EventAllowed, OutcomeAllowed, Ids
<1>4. CASE r.op = "attempt"
  BY <1>4 DEF Answers, RecordJobAttempt, KnownAttempt, PreviousAttempt, Answer
<1> QED BY <1>1, <1>2, <1>3, <1>4 DEF WellTyped, Operations, CanBeRepeated

LEMMA CallKeepsAnswers ==
  ASSUME LogsOK, AnsweredAgain, NEW r, WellTyped(r), Call(r)
  PROVE  AnsweredAgain'
<1>1. LogsGrow
  BY CallGrows
<1>2. ASSUME NEW a \in answered, CanBeRepeated(a.request)
      PROVE  Answers(a.request)' = Replayed(a.value)
  <2>1. WellTyped(a.request) /\ Answers(a.request) = Replayed(a.value)
    BY <1>2 DEF AnsweredAgain
  <2>2. Answers(a.request).status = "replayed"
    BY <2>1 DEF Replayed
  <2> QED BY <1>1, <1>2, <2>1, <2>2, ReplayStays
<1>3. ASSUME Answers(r).status \in {"created", "replayed"}, CanBeRepeated(r)
      PROVE  Answers(r)' = Replayed(Answers(r).value)
  <2>1. CASE Answers(r).status = "created"
    BY <1>3, <2>1, CreatedReplays
  <2>2. CASE Answers(r).status = "replayed"
    <3>1. Answers(r)' = Answers(r)
      BY <1>1, <1>3, <2>2, ReplayStays
    <3>2. Answers(r) = Replayed(Answers(r).value)
      BY <1>3, <2>2 DEF Replayed, CanBeRepeated, Answers, InsertSnapshot, InsertJudgment,
         InsertPolicyDecision, PublishForecast, Settle, VoidForecast, RecordJobAttempt, Answer,
         Refused, WellTyped, Operations
    <3> QED BY <3>1, <3>2
  <2> QED BY <1>3, <2>1, <2>2
<1>4. CASE answered' = answered
  BY <1>2, <1>4 DEF AnsweredAgain
<1>5. CASE /\ Answers(r).status \notin {"refused", "ignored"}
           /\ answered' = answered \cup {[request |-> r, value |-> Answers(r).value]}
  BY <1>2, <1>3, <1>5, CreatedIsItsRow DEF AnsweredAgain
<1> QED BY <1>4, <1>5 DEF Call

LEMMA CallKeepsLedger ==
  ASSUME LedgerInv, NEW r, WellTyped(r), Call(r)
  PROVE  LedgerInv'
<1>1. LogsOK' /\ AnsweredAgain'
  BY CallGrows, GrownLogsOK, CallKeepsAnswers DEF LedgerInv
<1>2. HistoryOK' /\ EvidenceIsExclusive' /\ AttemptsAreNumbered' /\ VisitorsAreForgotten'
  BY CallKeepsHistory, CallKeepsEvidence, CallKeepsNumbers, CallKeepsVisitors DEF LedgerInv
<1>3. clock' = clock /\ repertoire' = repertoire
  BY DEF Call
<1> QED BY <1>1, <1>2, <1>3 DEF LedgerInv

\* A purge, the clock and whatever else leaves the records alone keep it.
LEMMA SameRecordsKeepLedger ==
  ASSUME LedgerInv,
         UNCHANGED <<snapshots, judgments, decisions, forecasts, events, outcomes, attempts, picks,
                     analytics, answered, repertoire>>,
         identifiers' \subseteq identifiers, clock' \in Int
  PROVE  LedgerInv'
<1>1. LogsOK'
  BY DEF LedgerInv, LogsOK
<1>2. AnsweredAgain'
  <2>1. \A a \in answered : CanBeRepeated(a.request) => Answers(a.request)' = Answers(a.request)
    BY SameRecords DEF LedgerInv, AnsweredAgain
  <2> QED BY <2>1 DEF LedgerInv, AnsweredAgain
<1>3. HistoryOK'
  BY OthersKeepHistory DEF LedgerInv
<1>4. EvidenceIsExclusive'
  BY DEF LedgerInv, EvidenceIsExclusive, Chained, Ids
<1>5. AttemptsAreNumbered'
  BY DEF LedgerInv, AttemptsAreNumbered
<1>6. VisitorsAreForgotten'
  BY PurgeKeepsVisitors DEF LedgerInv
<1> QED BY <1>1, <1>2, <1>3, <1>4, <1>5, <1>6 DEF LedgerInv

-----------------------------------------------------------------------------
(* The forecasts' lives *)

\* What a resolver is about to record is a request like any other.
ResolversOK ==
    /\ DOMAIN resolver = Resolvers
    /\ \A w \in Resolvers : resolver[w] # <<>> => WellTyped(resolver[w][1])

LifeInv == LedgerInv /\ ResolversOK

\* An active outcome is one that was recorded for the forecast.
LEMMA ActiveIsRecorded ==
  ASSUME NEW outs, IsLog(outs), NEW f, ActiveIn(outs, f) # <<>>
  PROVE  \E i \in DOMAIN outs : outs[i].forecast = f /\ ActiveIn(outs, f) = <<outs[i]>>
<1> DEFINE at == OwnRows(outs, f)
<1>1. at # {} /\ at \in SUBSET (1..Len(outs)) /\ Len(outs) \in Nat
  BY LogIsSequence DEF ActiveIn, LastOf, OwnRows
<1>2. Max(at) \in at
  <2> HIDE DEF at
  <2> QED BY <1>1, MaxOfPositions
<1>3. ActiveIn(outs, f) = <<outs[Max(at)]>>
  BY <1>1 DEF ActiveIn, LastOf
<1> QED BY <1>2, <1>3 DEF OwnRows

\* The ids a resolver makes are ids.
LEMMA MadeIds ==
  ASSUME LogsOK, NEW f \in ForecastIds
  PROVE  IdFor(f) \in Nat /\ IdFor(f) # None
<1>1. IsFiniteSet(OwnRows(outcomes, f))
  <2>1. OwnRows(outcomes, f) \in SUBSET (1..Len(outcomes)) /\ Len(outcomes) \in Nat
    BY LogIsSequence DEF LogsOK, OwnRows
  <2>2. IsFiniteSet(1..Len(outcomes))
    BY <2>1, FS_Interval
  <2> DEFINE rows == OwnRows(outcomes, f)
             all == 1..Len(outcomes)
  <2>3. rows \in SUBSET all /\ IsFiniteSet(all)
    BY <2>1, <2>2
  <2>4. IsFiniteSet(rows)
    <3> HIDE DEF rows, all
    <3> QED BY <2>3, FS_Subset
  <2> QED BY <2>4
<1>2. Cardinality(OwnRows(outcomes, f)) \in Nat
  BY <1>1, FS_CardinalityType
<1> QED BY <1>2, LifeAssumption DEF IdFor, None

LEMMA ReadIsTyped ==
  ASSUME LifeInv, NEW w \in Resolvers, NEW f \in ForecastIds, Read(w, f) \/ ReadAgain(w, f)
  PROVE  ResolversOK'
<1>1. IdFor(f) \in Nat /\ IdFor(f) # None
  BY MadeIds DEF LifeInv, LedgerInv
<1>2. CASE Read(w, f)
  <2>1. PICK v : resolver' = [resolver EXCEPT ![w] =
              <<IF v.status = "void" THEN [op |-> "void", event |-> EventFor(f, "void", None)]
                ELSE [op |-> "resolve", event |-> EventFor(f, "resolved", None),
                      outcome |-> OutcomeFor(f, v, None)]>>]
    BY <1>2 DEF Read
  <2>2. WellTyped([op |-> "void", event |-> EventFor(f, "void", None)])
    BY <1>1 DEF WellTyped, Operations, TypeOfEvent, EventFor
  <2>3. WellTyped([op |-> "resolve", event |-> EventFor(f, "resolved", None),
                   outcome |-> OutcomeFor(f, v, None)])
    BY <1>1 DEF WellTyped, Operations, TypeOfEvent, EventFor, OutcomeFor
  <2> QED BY <2>1, <2>2, <2>3 DEF LifeInv, ResolversOK
<1>3. CASE ReadAgain(w, f)
  <2>1. PICK cites, corrects, v :
            /\ corrects = ActiveIn(outcomes, f)[1].id /\ ActiveIn(outcomes, f) # <<>>
            /\ resolver' = [resolver EXCEPT ![w] =
                  <<[op |-> "correct", event |-> EventFor(f, "correction", cites),
                     outcome |-> OutcomeFor(f, v, corrects)]>>]
    BY <1>3 DEF ReadAgain
  <2>2. corrects # None
    BY <2>1, ActiveIsRecorded DEF LifeInv, LedgerInv, LogsOK, HistoryOK
  <2>3. WellTyped([op |-> "correct", event |-> EventFor(f, "correction", cites),
                   outcome |-> OutcomeFor(f, v, corrects)])
    BY <1>1, <2>2 DEF WellTyped, Operations, TypeOfEvent, EventFor, OutcomeFor
  <2> QED BY <2>1, <2>3 DEF LifeInv, ResolversOK
<1> QED BY <1>2, <1>3

LEMMA LifeInvInit == Init => LifeInv
<1> SUFFICES ASSUME Init PROVE LifeInv
  OBVIOUS
<1> USE DEF Init, LedgerInit
<1>1. IsLog(<<>>) /\ DOMAIN <<>> = {}
  BY EmptySeq DEF IsLog
<1>2. LogsOK /\ AnsweredAgain
  BY <1>1 DEF LogsOK, AnsweredAgain
<1>3. Ids(<<>>) = {}
  BY <1>1 DEF Ids
<1>4. HistoryOK
  <2>1. Rebuilds
    BY <1>1, <1>3, RebuildsIs DEF EventsFit, OutcomesFit
  <2> QED BY <1>1, <1>3, <2>1 DEF HistoryOK, GeneratedIsFresh, ResolvedHaveOutcomes
<1>5. EvidenceIsExclusive /\ AttemptsAreNumbered /\ VisitorsAreForgotten
  BY <1>1 DEF EvidenceIsExclusive, AttemptsAreNumbered, VisitorsAreForgotten
<1>6. ResolversOK
  BY DEF ResolversOK
<1> QED BY <1>2, <1>4, <1>5, <1>6 DEF LifeInv, LedgerInv

\* The steps of a behaviour, as the ledger sees them
LEMMA LifeSteps ==
  ASSUME LifeInv, [Next]_vars
  PROVE  \/ \E r : WellTyped(r) /\ Call(r)
         \/ /\ UNCHANGED <<snapshots, judgments, decisions, forecasts, events, outcomes, attempts,
                           picks, analytics, answered, repertoire>>
            /\ identifiers' \subseteq identifiers /\ clock' \in Int
<1>1. CASE Calls
  BY <1>1, RequestAssumption DEF Calls, LifeInv, LedgerInv
<1>2. CASE Housekeeping
  BY <1>2 DEF Housekeeping, PurgeExpiredIdentifiers, Purged, TimePasses, LifeInv, LedgerInv
<1>3. ASSUME NEW w \in Resolvers, Record(w) PROVE \E r : WellTyped(r) /\ Call(r)
  BY <1>3 DEF Record, LifeInv, ResolversOK
<1>4. CASE UNCHANGED ledgerVars
  BY <1>4 DEF ledgerVars, LifeInv, LedgerInv
<1>5. CASE SessionCloses \/ EnqueueDueOutcomeResolutions \/ UNCHANGED vars
  BY <1>4, <1>5 DEF SessionCloses, EnqueueDueOutcomeResolutions, vars
<1>6. ASSUME NEW f \in ForecastIds,
             \/ \E v \in Values[f] : BarArrives(f, v)
             \/ \E l \in Lifecycles[f] : HaltsOrDelists(f, l)
             \/ GivesUp(f)
             \/ \E w \in Resolvers : Read(w, f) \/ ReadsInVain(w, f) \/ ReadAgain(w, f)
      PROVE  UNCHANGED ledgerVars
  BY <1>6 DEF BarArrives, HaltsOrDelists, GivesUp, Read, ReadsInVain, ReadAgain
<1>7. ASSUME NEW w \in Resolvers, Dies(w) PROVE UNCHANGED ledgerVars
  BY <1>7 DEF Dies
<1> QED BY <1>1, <1>2, <1>3, <1>4, <1>5, <1>6, <1>7 DEF Next

LEMMA LifeInvNext == LifeInv /\ [Next]_vars => LifeInv'
<1> SUFFICES ASSUME LifeInv, [Next]_vars PROVE LifeInv'
  OBVIOUS
<1>1. LedgerInv'
  BY LifeSteps, CallKeepsLedger, SameRecordsKeepLedger DEF LifeInv
<1>2. ResolversOK'
  <2>1. CASE resolver' = resolver
    BY <2>1 DEF LifeInv, ResolversOK
  <2>2. ASSUME NEW w \in Resolvers, resolver' = [resolver EXCEPT ![w] = <<>>]
        PROVE  ResolversOK'
    BY <2>2 DEF LifeInv, ResolversOK
  <2>3. ASSUME NEW w \in Resolvers, NEW f \in ForecastIds, Read(w, f) \/ ReadAgain(w, f)
        PROVE  ResolversOK'
    BY <2>3, ReadIsTyped
  <2> QED BY <2>1, <2>2, <2>3 DEF Next, Calls, Housekeeping, SessionCloses, BarArrives,
             HaltsOrDelists, GivesUp, EnqueueDueOutcomeResolutions, ReadsInVain, Record, Dies, vars
<1> QED BY <1>1, <1>2 DEF LifeInv

\* Always
LEMMA LifeInvariance == Spec => []LifeInv
BY LifeInvInit, LifeInvNext, PTL DEF Spec

\* Whatever was accepted once by the repository in memory is accepted for ever,
\* with the same answer, whatever was recorded since: what a method looks for
\* first is found first for ever (in-memory.ts).
THEOREM RetriesGetTheSameHolds == Spec => []RetriesGetTheSame
<1>1. LifeInv => RetriesGetTheSame
  <2> SUFFICES ASSUME LifeInv, NEW a \in answered, CanBeRepeated(a.request)
               PROVE  /\ Answers(a.request).status # "refused"
                      /\ Answers(a.request).value = a.value
    BY DEF RetriesGetTheSame, CanBeRepeated
  <2>1. Answers(a.request) = Replayed(a.value)
    BY DEF LifeInv, LedgerInv, AnsweredAgain
  <2> QED BY <2>1 DEF Replayed
<1> QED BY <1>1, LifeInvariance, PTL

\* Whatever was accepted and whatever threw, the records are ones the strict
\* rebuild of replay.ts takes, a forecast has an outcome exactly if it is
\* resolved, its evidence is its own, attempts are numbered, and a visitor is
\* known by one identifier for no longer than the retention time.
THEOREM RecordsAreWholeHolds == Spec => []RecordsAreWhole
<1>1. LifeInv => RecordsAreWhole
  BY DEF LifeInv, LedgerInv, HistoryOK, ResolvedHaveOutcomes, RecordsAreWhole
<1> QED BY <1>1, LifeInvariance, PTL

-----------------------------------------------------------------------------
(* The history the repository promises *)

\* Forecasts are of those there may be, and a correction names an outcome there is.
IdsFit ==
    /\ Ids(forecasts) \subseteq ForecastIds
    /\ \A i \in DOMAIN outcomes :
          /\ outcomes[i].id \in Nat \ {None}
          /\ outcomes[i].corrects \in Ids(outcomes) \cup {None}

LEMMA CallKeepsIds ==
  ASSUME LogsOK, HistoryOK, IdsFit, NEW r, WellTyped(r), Call(r)
  PROVE  IdsFit'
<1>1. Ids(forecasts') \subseteq ForecastIds
  <2>1. CASE Makes(r, "publish")
    <3>1. forecasts' = Append(forecasts, r) /\ r.id \in ForecastIds
      BY <2>1, CallEffects DEF WellTyped, Makes
    <3> QED BY <3>1, IdsAfter DEF LogsOK, IdsFit
  <2>2. CASE ~Makes(r, "publish")
    BY <2>2, CallEffects DEF IdsFit
  <2> QED BY <2>1, <2>2
<1>2. \A i \in DOMAIN outcomes' :
          /\ outcomes'[i].id \in Nat \ {None}
          /\ outcomes'[i].corrects \in Ids(outcomes') \cup {None}
  <2>1. CASE Settles(r)
    <3> DEFINE o == r.outcome
    <3>1. outcomes' = Append(outcomes, o)
      BY <2>1, CallEffects
    <3>2. o.id \in Nat \ {None}
      BY <2>1 DEF WellTyped, Settles, Makes
    <3>3. o.corrects \in Ids(outcomes) \cup {None}
      BY <2>1, SettlementKeepsHistory, ActiveIsRecorded DEF Ids, LogsOK
    <3> HIDE DEF o
    <3>4. Ids(outcomes') = Ids(outcomes) \cup {o.id}
      BY <3>1, IdsAfter DEF LogsOK
    <3>5. ASSUME NEW i \in DOMAIN outcomes'
          PROVE  outcomes'[i] = o \/ (i \in DOMAIN outcomes /\ outcomes'[i] = outcomes[i])
      BY <3>1, Added DEF LogsOK
    <3> QED BY <3>2, <3>3, <3>4, <3>5 DEF IdsFit
  <2>2. CASE ~Settles(r)
    BY <2>2, CallEffects DEF IdsFit
  <2> QED BY <2>1, <2>2
<1> QED BY <1>1, <1>2 DEF IdsFit, Ids

HistoryInv == LifeInv /\ IdsFit

LEMMA HistoryInvariance == Spec => []HistoryInv
<1>1. Init => IdsFit
  <2>1. DOMAIN <<>> = {}
    BY EmptySeq
  <2> QED BY <2>1 DEF Init, LedgerInit, IdsFit, Ids
<1>2. LifeInv /\ IdsFit /\ [Next]_vars => IdsFit'
  <2> SUFFICES ASSUME LifeInv, IdsFit, [Next]_vars PROVE IdsFit'
    OBVIOUS
  <2>1. ASSUME NEW r, WellTyped(r), Call(r) PROVE IdsFit'
    BY <2>1, CallKeepsIds DEF LifeInv, LedgerInv
  <2>2. CASE UNCHANGED <<forecasts, outcomes>>
    BY <2>2 DEF IdsFit, Ids
  <2> QED BY <2>1, <2>2, LifeSteps
<1> QED BY <1>1, <1>2, LifeInvInit, LifeInvNext, PTL DEF Spec, HistoryInv

\* What the history is, for the repository
StatusMap == [f \in ForecastIds |-> StatusIn(events, f)]
InForceMap == [f \in ForecastIds |-> Ids(ActiveIn(outcomes, f))]
RetiredMap == {outcomes[i].corrects : i \in DOMAIN outcomes} \ {None}

\* A row of the history: what the map is of it
LEMMA RetiredAfter ==
  ASSUME LogsOK, NEW o, outcomes' = Append(outcomes, o)
  PROVE  RetiredMap' = RetiredMap \cup ({o.corrects} \ {None})
<1>1. /\ Len(outcomes) \in Nat /\ DOMAIN outcomes = 1..Len(outcomes)
      /\ DOMAIN outcomes' = 1..(Len(outcomes) + 1)
      /\ \A i \in 1..Len(outcomes) : outcomes'[i] = outcomes[i]
      /\ outcomes'[Len(outcomes) + 1] = o
  BY Added DEF LogsOK
<1>2. {outcomes'[i].corrects : i \in DOMAIN outcomes'}
        = {outcomes[i].corrects : i \in DOMAIN outcomes} \cup {o.corrects}
  <2>1. ASSUME NEW i \in DOMAIN outcomes'
        PROVE  outcomes'[i].corrects \in {outcomes[k].corrects : k \in DOMAIN outcomes} \cup {o.corrects}
    <3>1. CASE i = Len(outcomes) + 1
      BY <1>1, <3>1
    <3>2. CASE i \in DOMAIN outcomes
      BY <1>1, <3>2
    <3> QED BY <1>1, <3>1, <3>2
  <2>2. ASSUME NEW i \in DOMAIN outcomes
        PROVE  outcomes[i].corrects \in {outcomes'[k].corrects : k \in DOMAIN outcomes'}
    BY <1>1
  <2>3. o.corrects \in {outcomes'[k].corrects : k \in DOMAIN outcomes'}
    <3>1. Len(outcomes) + 1 \in DOMAIN outcomes'
      BY <1>1
    <3> QED BY <1>1, <3>1
  <2> QED BY <2>1, <2>2, <2>3
<1> QED BY <1>2 DEF RetiredMap

\* A new outcome is none the history has met.
LEMMA NewIsFresh ==
  ASSUME LogsOK, IdsFit, NEW o, o \notin Ids(outcomes)
  PROVE  o \notin RetiredMap /\ \A f \in ForecastIds : o \notin InForceMap[f]
<1>1. o \notin RetiredMap
  BY DEF RetiredMap, IdsFit
<1>2. ASSUME NEW f \in ForecastIds PROVE o \notin Ids(ActiveIn(outcomes, f))
  <2>1. CASE ActiveIn(outcomes, f) = <<>>
    <3>1. DOMAIN <<>> = {}
      BY EmptySeq
    <3> QED BY <2>1, <3>1 DEF Ids
  <2>2. CASE ActiveIn(outcomes, f) # <<>>
    BY <2>2, ActiveIsRecorded DEF LogsOK, Ids
  <2> QED BY <2>1, <2>2
<1> QED BY <1>1, <1>2 DEF InForceMap

LEMMA PublicationIsPublished ==
  ASSUME LogsOK, HistoryOK, NEW r, WellTyped(r), Call(r), Makes(r, "publish")
  PROVE  History!Published(r.id) /\ r.id \in ForecastIds
<1>1. r.id \in ForecastIds
  BY DEF WellTyped, Makes
<1>2. outcomes' = outcomes
  BY CallEffects DEF Makes, Settles
<1>3. /\ StatusIn(events, r.id) = "absent"
      /\ \A f : StatusIn(events', f) = IF f = r.id THEN "published" ELSE StatusIn(events, f)
  BY PublicationKeepsHistory
<1>4. StatusMap[r.id] = "absent" /\ StatusMap' = [StatusMap EXCEPT ![r.id] = "published"]
  BY <1>1, <1>3 DEF StatusMap
<1> QED BY <1>1, <1>2, <1>4 DEF History!Published, StatusMap, InForceMap, RetiredMap

LEMMA VoidIsVoided ==
  ASSUME LogsOK, HistoryOK, IdsFit, NEW r, WellTyped(r), Call(r), Makes(r, "void")
  PROVE  History!Voided(r.event.forecast) /\ r.event.forecast \in ForecastIds
<1> DEFINE f == r.event.forecast
<1>1. outcomes' = outcomes
  BY CallEffects DEF Makes, Settles
<1>2. /\ f \in ForecastIds /\ StatusIn(events, f) = "published"
      /\ \A g : StatusIn(events', g) = IF g = f THEN "void" ELSE StatusIn(events, g)
  BY VoidKeepsHistory DEF IdsFit
<1>3. StatusMap[f] = "published" /\ StatusMap' = [StatusMap EXCEPT ![f] = "void"]
  BY <1>2 DEF StatusMap
<1> QED BY <1>1, <1>2, <1>3 DEF History!Voided, StatusMap, InForceMap, RetiredMap

LEMMA SettlementIsMade ==
  ASSUME LogsOK, HistoryOK, IdsFit, NEW r, WellTyped(r), Call(r), Settles(r)
  PROVE  LET f == r.outcome.forecast
             o == r.outcome.id
         IN  /\ f \in ForecastIds /\ o \in Nat \ {None}
             /\ History!Resolved(f, o) \/ History!Corrected(f, o)
<1> DEFINE row == r.outcome
           f == row.forecast
           o == row.id
<1>1. outcomes' = Append(outcomes, row)
  BY CallEffects
<1>2. /\ f \in ForecastIds /\ o \in Nat \ {None} /\ o \notin Ids(outcomes)
  BY SettlementKeepsHistory, SettlementAllowed DEF IdsFit, WellTyped, Settles, Makes
<1>3. \/ /\ row.corrects = None /\ StatusIn(events, f) = "published"
         /\ \A g : StatusIn(events', g) = IF g = f THEN "resolved" ELSE StatusIn(events, g)
      \/ /\ row.corrects # None /\ StatusIn(events, f) = "resolved"
         /\ ActiveIn(outcomes, f) # <<>> /\ ActiveIn(outcomes, f)[1].id = row.corrects
         /\ \A g : StatusIn(events', g) = StatusIn(events, g)
  BY SettlementKeepsHistory
<1>4. \A g : ActiveIn(outcomes', g) = IF f = g THEN <<row>> ELSE ActiveIn(outcomes, g)
  BY <1>1, ActiveAfter DEF LogsOK
<1>5. History!Fresh(o)
  BY <1>2, NewIsFresh DEF History!Fresh, RetiredMap, InForceMap
<1>6. RetiredMap' = RetiredMap \cup ({row.corrects} \ {None})
  BY <1>1, RetiredAfter
<1> HIDE DEF row
<1>7. InForceMap' = [InForceMap EXCEPT ![f] = {o}]
  <2>1. Ids(<<row>>) = {o}
    BY DEF Ids
  <2> QED BY <1>2, <1>4, <2>1 DEF InForceMap
<1>8. CASE row.corrects = None
  <2>1. StatusMap[f] = "published" /\ StatusMap' = [StatusMap EXCEPT ![f] = "resolved"]
    BY <1>2, <1>3, <1>8 DEF StatusMap
  <2>2. RetiredMap' = RetiredMap
    BY <1>6, <1>8
  <2>3. History!Resolved(f, o)
    BY <1>5, <1>7, <2>1, <2>2 DEF History!Resolved, StatusMap, InForceMap, RetiredMap
  <2> QED BY <1>2, <2>3 DEF row
<1>9. CASE row.corrects # None
  <2>1. StatusMap[f] = "resolved" /\ StatusMap' = StatusMap
    BY <1>2, <1>3, <1>9 DEF StatusMap
  <2>2. InForceMap[f] = {row.corrects}
    <3>1. PICK x : ActiveIn(outcomes, f) = <<x>>
      BY <1>3, <1>9, ActiveIsRecorded DEF LogsOK
    <3>2. Ids(<<x>>) = {x.id} /\ <<x>>[1].id = x.id
      BY DEF Ids
    <3> QED BY <1>2, <1>3, <1>9, <3>1, <3>2 DEF InForceMap
  <2>3. RetiredMap' = RetiredMap \cup InForceMap[f]
    BY <1>6, <1>9, <2>2
  <2>4. History!Corrected(f, o)
    BY <1>5, <1>7, <2>1, <2>3 DEF History!Corrected, StatusMap, InForceMap, RetiredMap
  <2> QED BY <1>2, <2>4 DEF row
<1> QED BY <1>8, <1>9

LEMMA HistoryStep ==
  ASSUME Nat \ {None} \subseteq OutcomeIds, HistoryInv, [Next]_vars
  PROVE  [History!HistoryNext]_(History!historyVars)
<1> USE DEF HistoryInv, LifeInv, LedgerInv
<1>1. CASE UNCHANGED <<events, outcomes>>
  BY <1>1 DEF History!historyVars, StatusMap, InForceMap, RetiredMap
<1>2. ASSUME NEW r, WellTyped(r), Call(r)
      PROVE  History!HistoryNext \/ UNCHANGED <<events, outcomes>>
  <2>1. CASE Makes(r, "publish")
    BY <1>2, <2>1, PublicationIsPublished DEF History!HistoryNext
  <2>2. CASE Makes(r, "void")
    BY <1>2, <2>2, VoidIsVoided DEF History!HistoryNext
  <2>3. CASE Settles(r)
    BY <1>2, <2>3, SettlementIsMade DEF History!HistoryNext
  <2>4. CASE ~Makes(r, "publish") /\ ~Settles(r) /\ ~Makes(r, "void")
    BY <1>2, <2>4, CallEffects
  <2> QED BY <2>1, <2>2, <2>3, <2>4
<1> QED BY <1>1, <1>2, LifeSteps

\* The repository in memory keeps the promise the SQL ledger keeps: a forecast
\* is published once, ended once, and from its resolution on exactly one outcome
\* is in force, whatever is sent to it; ids of outcomes are positive numbers.
THEOREM HistoryRefinedHolds ==
  ASSUME Nat \ {None} \subseteq OutcomeIds
  PROVE  Spec => HistoryRefined
<1>1. Init => History!HistoryInit
  <2> SUFFICES ASSUME Init PROVE History!HistoryInit
    OBVIOUS
  <2>1. DOMAIN <<>> = {} /\ events = <<>> /\ outcomes = <<>>
    BY EmptySeq DEF Init, LedgerInit
  <2>2. \A f : StatusIn(events, f) = "absent" /\ ActiveIn(outcomes, f) = <<>>
    BY <2>1, Untold
  <2>3. Ids(<<>>) = {}
    BY <2>1 DEF Ids
  <2> QED BY <2>1, <2>2, <2>3 DEF History!HistoryInit
<1>2. HistoryInv /\ [Next]_vars => [History!HistoryNext]_(History!historyVars)
  BY HistoryStep
<1> QED BY <1>1, <1>2, HistoryInvariance, PTL DEF Spec, HistoryRefined, History!HistorySpec

-----------------------------------------------------------------------------
(* Verdicts and their evidence *)

\* The horizon of a forecast has passed.
Passed(f) ==
    /\ Target(f) # {}
    /\ Terms(f).horizon \in Nat
    /\ Cardinality({s \in Calendar : Terms(f).cutoff < s /\ s <= session}) >= Terms(f).horizon

\* An outcome says what a value that was published for its forecast came to.
Grounded(o) ==
    /\ o.value \in seen[o.forecast]
    /\ o.label = ResolveDirectionOutcome(o.value, Terms(o.forecast))

\* What a resolver may be about to record
Justified(r) ==
    LET f == r.event.forecast
    IN  /\ r.op \in {"resolve", "correct", "void"} /\ f \in ForecastIds /\ Passed(f)
        /\ r.op = "void" => reason[f] # NoReason
        /\ r.op # "void" => r.outcome.forecast = f /\ Grounded(r.outcome)

\* What the market has shown is remembered.
MarketOK ==
    /\ session \in Calendar
    /\ DOMAIN reason = ForecastIds /\ DOMAIN closes = ForecastIds /\ DOMAIN life = ForecastIds
    /\ DOMAIN seen = ForecastIds
    /\ \A f \in ForecastIds :
          /\ closes[f] \subseteq seen[f]
          /\ life[f].type # "none" => {life[f].official, life[f].lastValue} \ {NoValue} \subseteq seen[f]

\* Before all forecasts are published nothing is ended, and nothing is read.
NothingBefore ==
    ~Alive =>
        /\ \A w \in Resolvers : resolver[w] = <<>>
        /\ repertoire = Publications =>
              /\ outcomes = <<>>
              /\ \A f \in Ids(forecasts) : StatusIn(events, f) = "published"

AllJustified ==
    Alive => \A w \in Resolvers : resolver[w] # <<>> => \E r : resolver[w] = <<r>> /\ Justified(r)

AllGrounded ==
    Alive =>
        /\ \A f \in Ids(forecasts) :
              /\ StatusIn(events, f) # "published" => Passed(f)
              /\ StatusIn(events, f) = "void" => reason[f] # NoReason
        /\ \A i \in DOMAIN outcomes : \E o : outcomes[i] = o /\ Grounded(o)

VerdictInv == HistoryInv /\ MarketOK /\ NothingBefore /\ AllJustified /\ AllGrounded

\* The sessions since the cutoff get no fewer.
LEMMA SessionsAdd ==
  ASSUME NEW cutoff, NEW s \in Nat, NEW t \in Nat, s <= t
  PROVE  /\ IsFiniteSet({d \in Calendar : cutoff < d /\ d <= t})
         /\ Cardinality({d \in Calendar : cutoff < d /\ d <= s}) \in Nat
         /\ Cardinality({d \in Calendar : cutoff < d /\ d <= t}) \in Nat
         /\ Cardinality({d \in Calendar : cutoff < d /\ d <= s})
              <= Cardinality({d \in Calendar : cutoff < d /\ d <= t})
<1> DEFINE A == {d \in Calendar : cutoff < d /\ d <= s}
           B == {d \in Calendar : cutoff < d /\ d <= t}
<1>1. A \subseteq B /\ B \subseteq Calendar
  <2>1. ASSUME NEW d \in Calendar, d <= s PROVE d <= t
    BY <2>1, CalendarAssumption
  <2> QED BY <2>1
<1> HIDE DEF A, B
<1>2. IsFiniteSet(B)
  BY <1>1, CalendarAssumption, FS_Subset
<1>3. IsFiniteSet(A) /\ Cardinality(A) <= Cardinality(B)
  BY <1>1, <1>2, FS_Subset
<1>4. Cardinality(A) \in Nat /\ Cardinality(B) \in Nat
  BY <1>2, <1>3, FS_CardinalityType
<1> QED BY <1>2, <1>3, <1>4 DEF A, B

\* A verdict is not there before its horizon has passed.
LEMMA VerdictIsLate ==
  ASSUME MarketOK, NEW f, Verdict(f).status \in {"resolved", "void"}
  PROVE  Passed(f)
<1> DEFINE target == Target(f)
           at == CHOOSE s \in target : TRUE
<1>1. target # {} /\ ~(session < at)
  BY DEF Verdict, ResolveForecastAtHorizon, Target, Nowhere, Pending
<1>2. at \in target
  BY <1>1
<1>3. /\ at \in Calendar
      /\ Cardinality({t \in Calendar : Terms(f).cutoff < t /\ t <= at}) = Terms(f).horizon
  <2> HIDE DEF at
  <2> QED BY <1>2 DEF Target, NthEligibleSession, EligibleSessionsAfter
<1>4. at \in Nat /\ session \in Nat /\ at <= session
  <2> HIDE DEF at
  <2> QED BY <1>1, <1>3, CalendarAssumption DEF MarketOK
<1> HIDE DEF at
<1>5. /\ Cardinality({t \in Calendar : Terms(f).cutoff < t /\ t <= at}) \in Nat
      /\ Cardinality({t \in Calendar : Terms(f).cutoff < t /\ t <= session}) \in Nat
      /\ Cardinality({t \in Calendar : Terms(f).cutoff < t /\ t <= at})
           <= Cardinality({t \in Calendar : Terms(f).cutoff < t /\ t <= session})
  BY <1>4, SessionsAdd
<1> QED BY <1>2, <1>3, <1>5 DEF Passed

\* A verdict is of a value that was published, or of a reason that was given.
LEMMA VerdictIsGrounded ==
  ASSUME MarketOK, NEW f \in ForecastIds
  PROVE  /\ Verdict(f).status = "resolved" =>
               /\ Verdict(f).value \in seen[f]
               /\ Verdict(f).label = ResolveDirectionOutcome(Verdict(f).value, Terms(f))
         /\ Verdict(f).status = "void" => reason[f] # NoReason
<1> DEFINE v == Verdict(f)
           terms == Terms(f)
           FromValue(x) == \E basis : v = Resolved(terms, x, basis)
           Given(why) == v = OrVoid(why, reason[f])
<1>1. ASSUME NEW x \in seen[f], FromValue(x)
      PROVE  /\ v.status \in {"resolved", "error"}
             /\ v.status = "resolved" =>
                    v.value \in seen[f] /\ v.label = ResolveDirectionOutcome(v.value, terms)
  <2> HIDE DEF v, terms
  <2> QED BY <1>1 DEF Resolved, Nowhere
<1>2. ASSUME NEW why, Given(why)
      PROVE  v.status \in {"pending", "void"} /\ (v.status = "void" => reason[f] # NoReason)
  <2> HIDE DEF v, terms
  <2> QED BY <1>2 DEF OrVoid, VoidFor, Pending
<1>3. \/ v.status \in {"error", "pending"}
      \/ \E x \in seen[f] : FromValue(x)
      \/ \E why : Given(why)
  <2> DEFINE at == CHOOSE s \in Target(f) : TRUE
  <2>1. CASE closes[f] # {}
    <3>1. (CHOOSE x \in closes[f] : TRUE) \in seen[f]
      BY <2>1 DEF MarketOK
    <3>2. \/ v.status \in {"error", "pending"}
          \/ v = Resolved(terms, CHOOSE x \in closes[f] : TRUE, "exact_horizon_close")
      BY <2>1 DEF Verdict, ResolveForecastAtHorizon, Target, Nowhere, Pending
    <3> QED BY <3>1, <3>2
  <2>2. CASE closes[f] = {} /\ Affects(life[f], terms, at)
    <3>1. \/ v.status \in {"error", "pending"}
          \/ v = ResolveLifecycle(terms, life[f], reason[f])
      BY <2>2 DEF Verdict, ResolveForecastAtHorizon, Target, Nowhere, Pending
    <3>2. life[f].official # NoValue => life[f].official \in seen[f]
      BY <2>2 DEF Affects, MarketOK
    <3>3. life[f].lastValue # NoValue => life[f].lastValue \in seen[f]
      BY <2>2 DEF Affects, MarketOK
    <3> HIDE DEF v, terms
    <3> QED BY <3>1, <3>2, <3>3 DEF ResolveLifecycle
  <2>3. CASE closes[f] = {} /\ ~Affects(life[f], terms, at)
    <3>1. v.status \in {"error", "pending"} \/ v = OrVoid("PROVIDER_BAR_DELAYED", reason[f])
      BY <2>3 DEF Verdict, ResolveForecastAtHorizon, Target, Nowhere, Pending
    <3> QED BY <3>1
  <2> QED BY <2>1, <2>2, <2>3
<1> QED BY <1>1, <1>2, <1>3

\* What the market and its provider may do: sessions come, values are shown and
\* outcomes are given up.
MarketGrows ==
    /\ session' \in Calendar /\ session <= session'
    /\ \A f \in ForecastIds :
          seen[f] \subseteq seen'[f] /\ (reason[f] # NoReason => reason'[f] # NoReason)

LEMMA MarketNext ==
  ASSUME MarketOK, [Next]_vars
  PROVE  MarketOK' /\ MarketGrows
<1>1. session \in Nat
  BY CalendarAssumption DEF MarketOK
<1>2. CASE UNCHANGED marketVars
  BY <1>1, <1>2 DEF marketVars, MarketOK, MarketGrows
<1>3. CASE SessionCloses
  <2>1. session' \in Calendar /\ session' > session /\ session' \in Nat
    BY <1>3, CalendarAssumption DEF SessionCloses
  <2> QED BY <1>1, <1>3, <2>1 DEF SessionCloses, MarketOK, MarketGrows
<1>4. ASSUME NEW f \in ForecastIds, NEW v \in Values[f], BarArrives(f, v)
      PROVE  MarketOK' /\ MarketGrows
  BY <1>1, <1>4 DEF BarArrives, MarketOK, MarketGrows
<1>5. ASSUME NEW f \in ForecastIds, NEW l \in Lifecycles[f], HaltsOrDelists(f, l)
      PROVE  MarketOK' /\ MarketGrows
  BY <1>1, <1>5 DEF HaltsOrDelists, MarketOK, MarketGrows
<1>6. ASSUME NEW f \in ForecastIds, GivesUp(f)
      PROVE  MarketOK' /\ MarketGrows
  BY <1>1, <1>6 DEF GivesUp, MarketOK, MarketGrows, NoReason
<1>7. CASE Calls \/ Housekeeping \/ EnqueueDueOutcomeResolutions \/ UNCHANGED vars
  BY <1>2, <1>7 DEF Calls, Housekeeping, EnqueueDueOutcomeResolutions, vars
<1>8. ASSUME NEW w \in Resolvers,
             \/ Record(w) \/ Dies(w)
             \/ \E f \in ForecastIds : Read(w, f) \/ ReadsInVain(w, f) \/ ReadAgain(w, f)
      PROVE  UNCHANGED marketVars
  BY <1>8 DEF Record, Dies, Read, ReadsInVain, ReadAgain
<1> QED BY <1>2, <1>3, <1>4, <1>5, <1>6, <1>7, <1>8 DEF Next

\* As long as the forecasts and their snapshots stay, what was so on the evidence
\* stays so.
LEMMA GroundStays ==
  ASSUME MarketOK, MarketGrows, forecasts' = forecasts, snapshots' = snapshots
  PROVE  /\ \A f : Terms(f)' = Terms(f)
         /\ \A f : Passed(f) => Passed(f)'
         /\ \A o : o.forecast \in ForecastIds /\ Grounded(o) => Grounded(o)'
         /\ \A r : Justified(r) => Justified(r)'
<1>1. \A f : Terms(f)' = Terms(f)
  BY DEF Terms
<1>2. ASSUME NEW f, Passed(f) PROVE Passed(f)'
  <2> DEFINE cutoff == Terms(f).cutoff
  <2>1. session \in Nat /\ session' \in Nat /\ session <= session'
    BY CalendarAssumption DEF MarketOK, MarketGrows
  <2>2. /\ Cardinality({s \in Calendar : cutoff < s /\ s <= session}) \in Nat
        /\ Cardinality({s \in Calendar : cutoff < s /\ s <= session'}) \in Nat
        /\ Cardinality({s \in Calendar : cutoff < s /\ s <= session})
             <= Cardinality({s \in Calendar : cutoff < s /\ s <= session'})
    <3> HIDE DEF cutoff
    <3> QED BY <2>1, SessionsAdd
  <2>3. /\ Terms(f).horizon \in Nat
        /\ Cardinality({s \in Calendar : cutoff < s /\ s <= session}) >= Terms(f).horizon
    BY <1>2 DEF Passed
  <2>4. Cardinality({s \in Calendar : cutoff < s /\ s <= session'}) >= Terms(f).horizon
    BY <2>2, <2>3
  <2>5. Target(f)' # {}
    BY <1>1, <1>2 DEF Passed, Target
  <2> QED BY <1>1, <2>3, <2>4, <2>5 DEF Passed
<1>3. ASSUME NEW o, o.forecast \in ForecastIds, Grounded(o) PROVE Grounded(o)'
  BY <1>1, <1>3 DEF Grounded, MarketGrows
<1>4. ASSUME NEW r, Justified(r) PROVE Justified(r)'
  BY <1>2, <1>3, <1>4 DEF Justified, MarketGrows
<1> QED BY <1>1, <1>2, <1>3, <1>4

\* What a resolver reads is justified.
LEMMA ReadIsJustified ==
  ASSUME MarketOK, NEW w \in Resolvers, NEW f \in ForecastIds, Read(w, f) \/ ReadAgain(w, f),
         DOMAIN resolver = Resolvers
  PROVE  /\ Alive /\ UNCHANGED <<ledgerVars, marketVars>>
         /\ \E r : Justified(r) /\ resolver' = [resolver EXCEPT ![w] = <<r>>]
<1> DEFINE v == Verdict(f)
<1>1. Alive /\ UNCHANGED <<ledgerVars, marketVars>>
  BY DEF Read, Claims, ReadAgain
<1>2. v.status \in {"resolved", "void"}
  BY DEF Read, ReadAgain
<1>3. Passed(f)
  BY <1>2, VerdictIsLate
<1>4. v.status = "void" => reason[f] # NoReason
  BY VerdictIsGrounded
<1>5. ASSUME v.status = "resolved", NEW corrects
      PROVE  Grounded(OutcomeFor(f, v, corrects)) /\ OutcomeFor(f, v, corrects).forecast = f
  <2>1. v.value \in seen[f] /\ v.label = ResolveDirectionOutcome(v.value, Terms(f))
    BY <1>5, VerdictIsGrounded
  <2> HIDE DEF v
  <2> QED BY <2>1 DEF OutcomeFor, Grounded
<1> HIDE DEF v
<1>6. v.status = "void" => Justified([op |-> "void", event |-> EventFor(f, "void", None)])
  BY <1>3, <1>4 DEF Justified, EventFor
<1>7. v.status = "resolved" =>
          Justified([op |-> "resolve", event |-> EventFor(f, "resolved", None),
                     outcome |-> OutcomeFor(f, v, None)])
  BY <1>3, <1>5 DEF Justified, EventFor
<1>8. ASSUME NEW cites, NEW corrects, v.status = "resolved"
      PROVE  Justified([op |-> "correct", event |-> EventFor(f, "correction", cites),
                        outcome |-> OutcomeFor(f, v, corrects)])
  BY <1>3, <1>5, <1>8 DEF Justified, EventFor
<1>9. CASE Read(w, f)
  <2>1. resolver' = [resolver EXCEPT ![w] =
              <<IF v.status = "void" THEN [op |-> "void", event |-> EventFor(f, "void", None)]
                ELSE [op |-> "resolve", event |-> EventFor(f, "resolved", None),
                      outcome |-> OutcomeFor(f, v, None)]>>]
    BY <1>9 DEF Read, v
  <2> QED BY <1>1, <1>2, <1>6, <1>7, <2>1
<1>10. CASE ReadAgain(w, f)
  <2>1. PICK cites, corrects :
            /\ v.status = "resolved"
            /\ resolver' = [resolver EXCEPT ![w] =
                  <<[op |-> "correct", event |-> EventFor(f, "correction", cites),
                     outcome |-> OutcomeFor(f, v, corrects)]>>]
    BY <1>10 DEF ReadAgain, v
  <2> QED BY <1>1, <1>8, <2>1
<1> QED BY <1>9, <1>10

\* To be published is all a forecast can be that has events of no other type.
LEMMA Unsettled ==
  ASSUME VerdictInv, ~Alive, repertoire = Publications, NEW r, WellTyped(r), r \in Publications, Call(r)
  PROVE  /\ outcomes' = <<>>
         /\ \A f \in Ids(forecasts') : StatusIn(events', f) = "published"
<1> USE DEF VerdictInv, HistoryInv, LifeInv, LedgerInv
<1>1. ~Settles(r) /\ ~Makes(r, "void")
  BY PublicationsAssumption DEF Settles, Makes
<1>2. outcomes' = <<>>
  BY <1>1, CallEffects DEF NothingBefore
<1>3. CASE Makes(r, "publish")
  <2>1. Ids(forecasts') = Ids(forecasts) \cup {r.id}
    BY <1>3, CallEffects, IdsAfter DEF LogsOK
  <2>2. \A f : StatusIn(events', f) = IF f = r.id THEN "published" ELSE StatusIn(events, f)
    BY <1>3, PublicationKeepsHistory
  <2> QED BY <1>2, <2>1, <2>2 DEF NothingBefore
<1>4. CASE ~Makes(r, "publish")
  BY <1>1, <1>2, <1>4, CallEffects DEF NothingBefore
<1> QED BY <1>3, <1>4

\* A step that leaves the ledger alone
LEMMA SameLedgerKeepsVerdicts ==
  ASSUME VerdictInv, MarketGrows, UNCHANGED ledgerVars, DOMAIN resolver = Resolvers,
         \A w \in Resolvers : \/ resolver'[w] \in {<<>>, resolver[w]}
                              \/ Alive /\ \E r : Justified(r) /\ resolver'[w] = <<r>>
  PROVE  NothingBefore' /\ AllJustified' /\ AllGrounded'
<1> USE DEF VerdictInv
<1>1. Alive' <=> Alive
  BY DEF Alive, ledgerVars
<1>2. /\ forecasts' = forecasts /\ snapshots' = snapshots /\ events' = events
      /\ outcomes' = outcomes /\ repertoire' = repertoire
  BY DEF ledgerVars
<1>3. /\ \A f : Passed(f) => Passed(f)'
      /\ \A o : o.forecast \in ForecastIds /\ Grounded(o) => Grounded(o)'
      /\ \A r : Justified(r) => Justified(r)'
  BY <1>2, GroundStays
<1>4. NothingBefore'
  BY <1>1, <1>2 DEF NothingBefore, Ids
<1>5. AllJustified'
  <2> SUFFICES ASSUME Alive, NEW w \in Resolvers, resolver'[w] # <<>>
               PROVE  \E r : resolver'[w] = <<r>> /\ Justified(r)'
    BY <1>1 DEF AllJustified
  <2>1. PICK r : resolver'[w] = <<r>> /\ Justified(r)
    BY DEF AllJustified
  <2> QED BY <1>3, <2>1
<1>6. AllGrounded'
  <2> SUFFICES ASSUME Alive
               PROVE  /\ \A f \in Ids(forecasts) :
                            /\ StatusIn(events, f) # "published" => Passed(f)'
                            /\ StatusIn(events, f) = "void" => reason'[f] # NoReason
                      /\ \A i \in DOMAIN outcomes : \E o : outcomes[i] = o /\ Grounded(o)'
    BY <1>1, <1>2 DEF AllGrounded, Ids
  <2>1. ASSUME NEW f \in Ids(forecasts)
        PROVE  /\ StatusIn(events, f) # "published" => Passed(f)'
               /\ StatusIn(events, f) = "void" => reason'[f] # NoReason
    BY <1>3, <2>1 DEF AllGrounded, MarketGrows, HistoryInv, IdsFit
  <2>2. ASSUME NEW i \in DOMAIN outcomes PROVE \E o : outcomes[i] = o /\ Grounded(o)'
    <3>1. PICK o : outcomes[i] = o /\ Grounded(o)
      BY DEF AllGrounded
    <3>2. o.forecast \in ForecastIds
      BY <3>1, RowsHaveOwners DEF HistoryInv, IdsFit, LifeInv, LedgerInv, HistoryOK
    <3> QED BY <1>3, <3>1, <3>2
  <2> QED BY <2>1, <2>2
<1> QED BY <1>4, <1>5, <1>6

\* To record is to end a forecast, or to correct its outcome, on what was read.
LEMMA RecordKeepsVerdicts ==
  ASSUME VerdictInv, MarketGrows, NEW w \in Resolvers, Record(w)
  PROVE  NothingBefore' /\ AllJustified' /\ AllGrounded'
<1> USE DEF VerdictInv, HistoryInv, LifeInv, LedgerInv
<1>1. PICK r : /\ Alive /\ resolver[w] = <<r>> /\ Justified(r) /\ Call(r)
               /\ resolver' = [resolver EXCEPT ![w] = <<>>]
  <2>1. Alive /\ resolver[w] # <<>>
    BY DEF Record, NothingBefore
  <2>2. PICK r : resolver[w] = <<r>> /\ Justified(r)
    BY <2>1 DEF AllJustified
  <2>3. resolver[w][1] = r
    BY <2>2
  <2>4. Call(r) /\ resolver' = [resolver EXCEPT ![w] = <<>>]
    BY <2>3 DEF Record
  <2> QED BY <2>1, <2>2, <2>4
<1>2. WellTyped(r)
  <2>1. resolver[w] # <<>> /\ resolver[w][1] = r
    BY <1>1
  <2> QED BY <2>1 DEF ResolversOK
<1>3. r.op \in {"resolve", "correct", "void"}
  BY <1>1 DEF Justified
<1>4. /\ forecasts' = forecasts /\ snapshots' = snapshots /\ repertoire' = repertoire
      /\ events' = IF Settles(r) \/ Makes(r, "void") THEN Append(events, EventRow(r.event)) ELSE events
      /\ outcomes' = IF Settles(r) THEN Append(outcomes, r.outcome) ELSE outcomes
  <2>1. ~Makes(r, "publish") /\ ~Makes(r, "snapshot")
    BY <1>3 DEF Makes
  <2>2. repertoire' = repertoire
    BY <1>1 DEF Call
  <2> QED BY <1>1, <1>2, <2>1, <2>2, CallEffects
<1>5. Alive'
  BY <1>1, <1>4 DEF Alive
<1>6. /\ \A f : Passed(f) => Passed(f)'
      /\ \A o : o.forecast \in ForecastIds /\ Grounded(o) => Grounded(o)'
      /\ \A q : Justified(q) => Justified(q)'
  BY <1>4, GroundStays
<1>7. NothingBefore'
  BY <1>5 DEF NothingBefore
<1>8. AllJustified'
  <2>1. ASSUME NEW v \in Resolvers, resolver'[v] # <<>>
        PROVE  \E q : resolver'[v] = <<q>> /\ Justified(q)'
    <3>1. resolver'[v] = resolver[v]
      BY <1>1, <2>1 DEF ResolversOK
    <3> QED BY <1>1, <1>6, <2>1, <3>1 DEF AllJustified
  <2> QED BY <2>1 DEF AllJustified
<1>9. \A f \in Ids(forecasts) :
          /\ StatusIn(events, f) # "published" => Passed(f)'
          /\ StatusIn(events, f) = "void" => reason'[f] # NoReason
  BY <1>1, <1>6 DEF AllGrounded, MarketGrows, IdsFit
<1>10. \A i \in DOMAIN outcomes : \E o : outcomes[i] = o /\ Grounded(o)'
  <2> SUFFICES ASSUME NEW i \in DOMAIN outcomes PROVE \E o : outcomes[i] = o /\ Grounded(o)'
    OBVIOUS
  <2>1. PICK o : outcomes[i] = o /\ Grounded(o)
    BY <1>1 DEF AllGrounded
  <2>2. o.forecast \in ForecastIds
    BY <2>1, RowsHaveOwners DEF IdsFit, HistoryOK
  <2> QED BY <1>6, <2>1, <2>2
<1>11. CASE Settles(r)
  <2> DEFINE o == r.outcome
             f == o.forecast
  <2>1. f \in ForecastIds /\ Passed(f)' /\ Grounded(o)'
    BY <1>1, <1>6, <1>11 DEF Justified, Settles, Makes
  <2>2. \A g : StatusIn(events', g) = StatusIn(events, g)
               \/ (g = f /\ StatusIn(events', g) = "resolved")
    BY <1>1, <1>2, <1>11, SettlementKeepsHistory
  <2>3. outcomes' = Append(outcomes, o)
    BY <1>4, <1>11
  <2> HIDE DEF o
  <2>4. ASSUME NEW i \in DOMAIN outcomes'
        PROVE  \E q : outcomes'[i] = q /\ Grounded(q)'
    <3>1. outcomes'[i] = o \/ (i \in DOMAIN outcomes /\ outcomes'[i] = outcomes[i])
      BY <2>3, <2>4, Added DEF LogsOK
    <3> QED BY <1>10, <2>1, <3>1
  <2>5. ASSUME NEW g \in Ids(forecasts)
        PROVE  /\ StatusIn(events', g) # "published" => Passed(g)'
               /\ StatusIn(events', g) = "void" => reason'[g] # NoReason
    BY <1>9, <2>1, <2>2
  <2>6. AllGrounded'
    BY <1>4, <2>4, <2>5 DEF AllGrounded, Ids
  <2> QED BY <1>7, <1>8, <2>6
<1>12. CASE Makes(r, "void")
  <2> DEFINE f == r.event.forecast
  <2>1. Passed(f)' /\ reason'[f] # NoReason
    BY <1>1, <1>6, <1>12 DEF Justified, Makes, MarketGrows
  <2>2. \A g : StatusIn(events', g) = IF g = f THEN "void" ELSE StatusIn(events, g)
    BY <1>1, <1>2, <1>12, VoidKeepsHistory
  <2>3. outcomes' = outcomes
    BY <1>4, <1>12 DEF Settles, Makes
  <2> HIDE DEF f
  <2>4. ASSUME NEW g \in Ids(forecasts)
        PROVE  /\ StatusIn(events', g) # "published" => Passed(g)'
               /\ StatusIn(events', g) = "void" => reason'[g] # NoReason
    BY <1>9, <2>1, <2>2
  <2>5. AllGrounded'
    BY <1>4, <1>10, <2>3, <2>4 DEF AllGrounded, Ids
  <2> QED BY <1>7, <1>8, <2>5
<1>13. CASE ~Settles(r) /\ ~Makes(r, "void")
  <2>1. AllGrounded'
    BY <1>4, <1>9, <1>10, <1>13 DEF AllGrounded, Ids
  <2> QED BY <1>7, <1>8, <2>1
<1> QED BY <1>11, <1>12, <1>13

LEMMA CallsKeepVerdicts ==
  ASSUME VerdictInv, Calls
  PROVE  NothingBefore' /\ AllJustified' /\ AllGrounded'
<1> USE DEF VerdictInv
<1>1. ~Alive /\ resolver' = resolver /\ \A w \in Resolvers : resolver[w] = <<>>
  BY DEF Calls, NothingBefore
<1>2. PICK r \in repertoire : Call(r)
  BY DEF Calls
<1>3. WellTyped(r) /\ repertoire' = repertoire
  BY <1>2, RequestAssumption DEF Call, HistoryInv, LifeInv, LedgerInv
<1>4. AllJustified'
  BY <1>1 DEF AllJustified
<1>5. CASE repertoire = Publications
  <2>1. outcomes' = <<>> /\ \A f \in Ids(forecasts') : StatusIn(events', f) = "published"
    BY <1>1, <1>2, <1>3, <1>5, Unsettled
  <2>2. NothingBefore'
    BY <1>1, <2>1 DEF NothingBefore, Ids
  <2>3. AllGrounded'
    <3>1. DOMAIN <<>> = {}
      BY EmptySeq
    <3> QED BY <2>1, <3>1 DEF AllGrounded, Ids
  <2> QED BY <1>4, <2>2, <2>3
<1>6. CASE repertoire # Publications
  <2>1. ~Alive'
    BY <1>3, <1>6 DEF Alive
  <2>2. NothingBefore' /\ AllGrounded'
    BY <1>1, <1>3, <1>6, <2>1 DEF NothingBefore, AllGrounded
  <2> QED BY <1>4, <2>2
<1> QED BY <1>5, <1>6

LEMMA VerdictInvNext == VerdictInv /\ HistoryInv' /\ [Next]_vars => VerdictInv'
<1> SUFFICES ASSUME VerdictInv, HistoryInv', [Next]_vars PROVE VerdictInv'
  OBVIOUS
<1>1. MarketOK' /\ MarketGrows
  BY MarketNext DEF VerdictInv
<1>2. DOMAIN resolver = Resolvers
  BY DEF VerdictInv, HistoryInv, LifeInv, ResolversOK
<1>3. NothingBefore' /\ AllJustified' /\ AllGrounded'
  <2>1. CASE Calls
    BY <2>1, CallsKeepVerdicts
  <2>2. CASE Housekeeping
    <3>1. repertoire # Publications /\ repertoire' = repertoire /\ resolver' = resolver
      BY <2>2 DEF Housekeeping, PurgeExpiredIdentifiers, TimePasses
    <3>2. ~Alive /\ ~Alive'
      BY <3>1 DEF Alive
    <3> QED BY <3>1, <3>2 DEF VerdictInv, NothingBefore, AllJustified, AllGrounded
  <2>3. ASSUME NEW w \in Resolvers, Record(w) PROVE NothingBefore' /\ AllJustified' /\ AllGrounded'
    BY <1>1, <2>3, RecordKeepsVerdicts
  <2>4. ASSUME NEW w \in Resolvers, NEW f \in ForecastIds, Read(w, f) \/ ReadAgain(w, f)
        PROVE  NothingBefore' /\ AllJustified' /\ AllGrounded'
    <3>1. Alive /\ UNCHANGED ledgerVars
      BY <1>2, <2>4, ReadIsJustified DEF VerdictInv
    <3>2. PICK r : Justified(r) /\ resolver' = [resolver EXCEPT ![w] = <<r>>]
      BY <1>2, <2>4, ReadIsJustified DEF VerdictInv
    <3>3. \A v \in Resolvers : resolver'[v] \in {<<r>>, resolver[v]}
      BY <1>2, <3>2
    <3> QED BY <1>1, <1>2, <3>1, <3>2, <3>3, SameLedgerKeepsVerdicts
  <2>5. CASE UNCHANGED ledgerVars /\ \A w \in Resolvers : resolver'[w] \in {<<>>, resolver[w]}
    BY <1>1, <1>2, <2>5, SameLedgerKeepsVerdicts
  <2>6. CASE SessionCloses \/ EnqueueDueOutcomeResolutions \/ UNCHANGED vars
    BY <2>5, <2>6 DEF SessionCloses, EnqueueDueOutcomeResolutions, vars
  <2>7. ASSUME NEW f \in ForecastIds,
               \/ \E v \in Values[f] : BarArrives(f, v)
               \/ \E l \in Lifecycles[f] : HaltsOrDelists(f, l)
               \/ GivesUp(f)
               \/ \E w \in Resolvers : ReadsInVain(w, f)
        PROVE  UNCHANGED ledgerVars /\ resolver' = resolver
    BY <2>7 DEF BarArrives, HaltsOrDelists, GivesUp, ReadsInVain
  <2>8. ASSUME NEW w \in Resolvers, Dies(w)
        PROVE  UNCHANGED ledgerVars /\ \A v \in Resolvers : resolver'[v] \in {<<>>, resolver[v]}
    BY <1>2, <2>8 DEF Dies
  <2> QED BY <2>1, <2>2, <2>3, <2>4, <2>5, <2>6, <2>7, <2>8 DEF Next
<1> QED BY <1>1, <1>3 DEF VerdictInv

\* Always: what is due, shown and given up, and what is read of it, bears what is
\* recorded.
LEMMA VerdictInvariance == Spec => []VerdictInv
<1>1. Init /\ HistoryInv => VerdictInv
  <2> SUFFICES ASSUME Init, HistoryInv PROVE VerdictInv
    OBVIOUS
  <2>1. session \in Calendar
    <3>1. PICK x \in Calendar : \A y \in Calendar : x <= y
      BY CalendarAssumption, HasLeast
    <3>2. Min(Calendar) \in Calendar
      BY <3>1 DEF Min
    <3> QED BY <3>2 DEF Init
  <2>2. MarketOK
    BY <2>1 DEF Init, MarketOK, NoLife
  <2>3. DOMAIN <<>> = {}
    BY EmptySeq
  <2>4. NothingBefore /\ AllJustified /\ AllGrounded
    BY <2>3 DEF Init, LedgerInit, NothingBefore, AllJustified, AllGrounded, Ids
  <2> QED BY <2>2, <2>4 DEF VerdictInv
<1>2. VerdictInv /\ HistoryInv /\ HistoryInv' /\ [Next]_vars => VerdictInv'
  BY VerdictInvNext
<1> QED BY <1>1, <1>2, HistoryInvariance, PTL DEF Spec

\* No verdict is recorded early or on other evidence than what was published,
\* however resolvers race, die and retry while bars are revised, for any calendar,
\* any horizons and any number of forecasts and resolvers.
THEOREM EndedOnItsEvidenceHolds == Spec => []EndedOnItsEvidence
<1>1. VerdictInv => EndedOnItsEvidence
  <2> SUFFICES ASSUME VerdictInv, NEW f \in Ids(forecasts) \cap ForecastIds, Alive
               PROVE  /\ StatusIn(events, f) # "published" =>
                            Cardinality({s \in Calendar : Terms(f).cutoff < s /\ s <= session})
                              >= Terms(f).horizon
                      /\ StatusIn(events, f) = "void" => reason[f] # NoReason
                      /\ \A i \in DOMAIN outcomes : outcomes[i].forecast = f =>
                            /\ outcomes[i].value \in seen[f]
                            /\ outcomes[i].label = ResolveDirectionOutcome(outcomes[i].value, Terms(f))
    BY DEF EndedOnItsEvidence
  <2>1. /\ StatusIn(events, f) # "published" => Passed(f)
        /\ StatusIn(events, f) = "void" => reason[f] # NoReason
    BY DEF VerdictInv, AllGrounded
  <2>2. \A i \in DOMAIN outcomes : \E o : outcomes[i] = o /\ Grounded(o)
    BY DEF VerdictInv, AllGrounded
  <2> QED BY <2>1, <2>2 DEF Passed, Grounded
<1> QED BY <1>1, VerdictInvariance, PTL

-----------------------------------------------------------------------------
(* The scorecard *)

Top == INSTANCE FoldInduction WITH
          Op <- LAMBDA p, best, d : IF p[d] > p[best] THEN d ELSE best,
          Base <- LAMBDA p : "up"

LEMMA DirectionsAre == ToSet(ScoreDirections) = {"up", "flat", "down"}
BY DEF ToSet, ScoreDirections

\* The most probable direction is one of the three.
LEMMA TopIsDirection ==
  ASSUME NEW p
  PROVE  TopDirection(p) \in ToSet(ScoreDirections)
<1> DEFINE D == {"up", "flat", "down"}
<1>1. TopDirection(p) = Top!Fold(p, ScoreDirections)
  BY DEF TopDirection, Top!Fold, Top!FoldLeft, Top!MapThenFoldSet, Top!Max, FoldLeft,
     MapThenFoldSet, Max
<1>2. ScoreDirections \in Seq(D)
  BY DEF ScoreDirections
<1>3. \A best \in D, d \in D : (IF p[d] > p[best] THEN d ELSE best) \in D
  OBVIOUS
<1>4. "up" \in D
  OBVIOUS
<1> HIDE DEF D
<1>5. \A seq \in Seq(D) : Top!Fold(p, seq) \in D
  BY <1>3, <1>4, Top!FoldStaysIn
<1> QED BY <1>1, <1>2, <1>5, DirectionsAre DEF D

\* What is scored with a distribution has a confidence.
LEMMA ConfidenceIsPart ==
  ASSUME NEW r, IsDistribution(r.probabilities)
  PROVE  ScoreForecast(r).confidence \in 0..Whole
<1>1. ScoreForecast(r).confidence = r.probabilities[TopDirection(r.probabilities)]
  BY DEF ScoreForecast
<1> QED BY <1>1, TopIsDirection DEF IsDistribution

\* The five ranges part the confidences.
LEMMA OneRange ==
  ASSUME NEW x \in 0..Whole
  PROVE  /\ \E k \in 1..5 : InRange(k, x)
         /\ \A j, k \in 1..5 : InRange(j, x) /\ InRange(k, x) => j = k
<1>1. Whole \in Nat /\ Whole > 0 /\ x \in Nat /\ x <= Whole
  BY ScorecardAssumption
<1>2. \A k \in {1, 2, 3, 4, 5} : k \in 1..5
  OBVIOUS
<1>3. \A k \in 1..5 : k \in {1, 2, 3, 4, 5}
  OBVIOUS
<1>4. \E k \in {1, 2, 3, 4, 5} : InRange(k, x)
  BY <1>1 DEF InRange
<1>5. \A j, k \in {1, 2, 3, 4, 5} : InRange(j, x) /\ InRange(k, x) => j = k
  BY <1>1 DEF InRange
<1> QED BY <1>2, <1>3, <1>4, <1>5

-----------------------------------------------------------------------------
(* Buckets *)

BucketsOf(scores) == [lower : 0..5, upper : 0..5, observations : SUBSET scores]

\* What is in a bucket is within its bounds.
Truthful(b) ==
    /\ b.lower <= b.upper
    /\ \A s \in b.observations :
          b.lower * Whole <= 5 * s.confidence /\ 5 * s.confidence <= b.upper * Whole

Collected(buckets) == UNION {buckets[i].observations : i \in DOMAIN buckets}

\* The buckets part some scores, from the bottom up to some bound.
Parts(scores, buckets, top, collected) ==
    /\ buckets \in Seq(BucketsOf(scores)) /\ top \in 0..5
    /\ Collected(buckets) = collected
    /\ \A i \in DOMAIN buckets : Truthful(buckets[i]) /\ buckets[i].upper <= top
    /\ \A i, j \in DOMAIN buckets :
          /\ i # j => buckets[i].observations \cap buckets[j].observations = {}
          /\ i < j => buckets[i].upper <= buckets[j].lower

LEMMA PartsAppend ==
  ASSUME NEW scores, NEW buckets, NEW top, NEW collected, Parts(scores, buckets, top, collected),
         NEW b \in BucketsOf(scores), Truthful(b), top <= b.lower,
         b.observations \cap collected = {}
  PROVE  Parts(scores, Append(buckets, b), b.upper, collected \cup b.observations)
<1> DEFINE more == Append(buckets, b)
           n == Len(buckets)
<1>1. /\ buckets \in Seq(BucketsOf(scores)) /\ n \in Nat /\ DOMAIN buckets = 1..n
      /\ more \in Seq(BucketsOf(scores)) /\ DOMAIN more = 1..(n + 1)
      /\ \A i \in 1..n : more[i] = buckets[i]
      /\ more[n + 1] = b
  BY DEF Parts
<1>2. \A i \in DOMAIN more : (i \in 1..n /\ more[i] = buckets[i]) \/ (i = n + 1 /\ more[i] = b)
  BY <1>1
<1>3. b.lower \in 0..5 /\ b.upper \in 0..5 /\ b.lower <= b.upper /\ top \in 0..5
  BY DEF BucketsOf, Truthful, Parts
<1>4. \A i \in 1..n : buckets[i] \in BucketsOf(scores)
  BY <1>1
<1>5. \A i \in 1..n : buckets[i].lower \in 0..5 /\ buckets[i].upper \in 0..5
  BY <1>4 DEF BucketsOf
<1> HIDE DEF more, n
<1>6. Collected(more) = collected \cup b.observations
  <2>1. \A s \in Collected(more) : s \in collected \cup b.observations
    BY <1>1, <1>2 DEF Collected, Parts
  <2>2. \A s \in collected : \E i \in 1..n : s \in buckets[i].observations
    BY <1>1 DEF Collected, Parts
  <2>3. \A i \in 1..n : i \in DOMAIN more /\ more[i] = buckets[i]
    BY <1>1
  <2>4. \A s \in collected : s \in Collected(more)
    BY <2>2, <2>3 DEF Collected
  <2>5. \A s \in b.observations : s \in Collected(more)
    <3>1. n + 1 \in DOMAIN more
      BY <1>1
    <3> QED BY <1>1, <3>1 DEF Collected
  <2> QED BY <2>1, <2>4, <2>5
<1>7. \A i \in DOMAIN more : Truthful(more[i]) /\ more[i].upper <= b.upper
  BY <1>1, <1>2, <1>3, <1>5 DEF Parts
<1>8. \A i \in 1..n : buckets[i].observations \subseteq collected /\ buckets[i].upper <= b.lower
  BY <1>1, <1>3, <1>5 DEF Parts, Collected
<1>9. \A i, j \in DOMAIN more :
          /\ i # j => more[i].observations \cap more[j].observations = {}
          /\ i < j => more[i].upper <= more[j].lower
  <2> SUFFICES ASSUME NEW i \in DOMAIN more, NEW j \in DOMAIN more
               PROVE  /\ i # j => more[i].observations \cap more[j].observations = {}
                      /\ i < j => more[i].upper <= more[j].lower
    OBVIOUS
  <2>1. CASE i \in 1..n /\ j \in 1..n
    BY <1>1, <2>1 DEF Parts
  <2>2. CASE i \in 1..n /\ j = n + 1
    BY <1>1, <1>8, <2>2
  <2>3. CASE i = n + 1 /\ j \in 1..n
    BY <1>1, <1>8, <2>3
  <2>4. CASE i = n + 1 /\ j = n + 1
    BY <1>1, <2>4
  <2> QED BY <1>2, <2>1, <2>2, <2>3, <2>4
<1> QED BY <1>1, <1>3, <1>6, <1>7, <1>9 DEF Parts, more

\* Without its last one, a sequence of buckets parts the others.
LEMMA PartsFront ==
  ASSUME NEW scores, NEW buckets \in Seq(BucketsOf(scores)), NEW b \in BucketsOf(scores),
         NEW top, NEW collected, Parts(scores, Append(buckets, b), top, collected)
  PROVE  /\ Parts(scores, buckets, b.lower, collected \ b.observations)
         /\ Truthful(b) /\ b.observations \subseteq collected /\ b.upper <= top
<1> DEFINE more == Append(buckets, b)
           n == Len(buckets)
<1>1. /\ n \in Nat /\ DOMAIN buckets = 1..n /\ DOMAIN more = 1..(n + 1)
      /\ \A i \in 1..n : more[i] = buckets[i]
      /\ more[n + 1] = b /\ n + 1 \in DOMAIN more
  OBVIOUS
<1> HIDE DEF more, n
<1>2. \A i \in 1..n : i \in DOMAIN more /\ i # n + 1 /\ i < n + 1
  BY <1>1
<1>3. Parts(scores, more, top, collected)
  BY DEF more
<1>4. Truthful(b) /\ b.observations \subseteq collected /\ b.upper <= top
  BY <1>1, <1>3 DEF Parts, Collected
<1>5. \A i \in 1..n : /\ buckets[i].observations \cap b.observations = {}
                      /\ buckets[i].upper <= b.lower /\ Truthful(buckets[i])
                      /\ buckets[i].observations \subseteq collected
  BY <1>1, <1>2, <1>3 DEF Parts, Collected
<1>6. Collected(buckets) = collected \ b.observations
  <2>1. \A s \in Collected(buckets) : s \in collected \ b.observations
    BY <1>1, <1>5 DEF Collected
  <2>2. ASSUME NEW s \in collected, s \notin b.observations PROVE s \in Collected(buckets)
    <3>1. PICK i \in DOMAIN more : s \in more[i].observations
      BY <1>3 DEF Parts, Collected
    <3>2. i \in 1..n
      BY <1>1, <2>2, <3>1
    <3> QED BY <1>1, <3>1, <3>2 DEF Collected
  <2> QED BY <2>1, <2>2
<1>7. b.lower \in 0..5
  BY DEF BucketsOf
<1>8. \A i, j \in DOMAIN buckets :
          /\ i # j => buckets[i].observations \cap buckets[j].observations = {}
          /\ i < j => buckets[i].upper <= buckets[j].lower
  BY <1>1, <1>2, <1>3 DEF Parts
<1> QED BY <1>1, <1>4, <1>5, <1>6, <1>7, <1>8 DEF Parts

\* Two buckets, one above the other, make one.
LEMMA JoinedIsBucket ==
  ASSUME NEW scores, \A s \in scores : s.confidence \in Nat,
         NEW a \in BucketsOf(scores), NEW b \in BucketsOf(scores),
         Truthful(a), Truthful(b), a.upper <= b.lower
  PROVE  /\ Joined(a, b) \in BucketsOf(scores) /\ Truthful(Joined(a, b))
         /\ Joined(a, b).lower = a.lower /\ Joined(a, b).upper = b.upper
         /\ Joined(a, b).observations = a.observations \cup b.observations
<1>1. /\ a.lower \in 0..5 /\ a.upper \in 0..5 /\ b.lower \in 0..5 /\ b.upper \in 0..5
      /\ a.observations \subseteq scores /\ b.observations \subseteq scores
  BY DEF BucketsOf
<1>2. Joined(a, b) \in BucketsOf(scores)
  BY <1>1 DEF Joined, BucketsOf
<1>3. a.lower <= b.lower /\ a.upper <= b.upper /\ a.lower <= b.upper
  BY <1>1 DEF Truthful
<1>4. ASSUME NEW x \in 0..5, NEW y \in 0..5, x <= y
      PROVE  x * Whole <= y * Whole /\ x * Whole \in Nat /\ y * Whole \in Nat
  <2>1. x \in {0, 1, 2, 3, 4, 5} /\ y \in {0, 1, 2, 3, 4, 5}
    OBVIOUS
  <2>2. Whole \in Nat
    BY ScorecardAssumption
  <2> QED BY <1>4, <2>1, <2>2
<1>5. ASSUME NEW s \in a.observations \cup b.observations
      PROVE  a.lower * Whole <= 5 * s.confidence /\ 5 * s.confidence <= b.upper * Whole
  <2>1. s.confidence \in Nat /\ 5 * s.confidence \in Nat
    BY <1>1
  <2>2. CASE s \in a.observations
    <3>1. a.lower * Whole <= 5 * s.confidence /\ 5 * s.confidence <= a.upper * Whole
      BY <2>2 DEF Truthful
    <3>2. a.upper * Whole <= b.upper * Whole /\ a.upper * Whole \in Nat /\ b.upper * Whole \in Nat
      BY <1>1, <1>3, <1>4
    <3> DEFINE u == a.upper * Whole
               v == b.upper * Whole
    <3> HIDE DEF u, v
    <3>3. 5 * s.confidence <= v
      BY <2>1, <3>1, <3>2 DEF u, v
    <3> QED BY <3>1, <3>3 DEF v
  <2>3. CASE s \in b.observations
    <3>1. b.lower * Whole <= 5 * s.confidence /\ 5 * s.confidence <= b.upper * Whole
      BY <2>3 DEF Truthful
    <3>2. a.lower * Whole <= b.lower * Whole /\ a.lower * Whole \in Nat /\ b.lower * Whole \in Nat
      BY <1>1, <1>3, <1>4
    <3> DEFINE u == a.lower * Whole
               v == b.lower * Whole
    <3> HIDE DEF u, v
    <3>3. u <= 5 * s.confidence
      BY <2>1, <3>1, <3>2 DEF u, v
    <3> QED BY <3>1, <3>3 DEF u
  <2> QED BY <1>5, <2>2, <2>3
<1> QED BY <1>2, <1>3, <1>5 DEF Joined, Truthful

-----------------------------------------------------------------------------
(* The ranges, and what becomes of them *)

Ranges == INSTANCE FoldInduction WITH
             Op <- LAMBDA scores, buckets, k : AddRange(scores, buckets, k),
             Base <- LAMBDA scores : <<>>

Merging == INSTANCE FoldInduction WITH
              Op <- LAMBDA c, a, b : Merge(a, b),
              Base <- LAMBDA c : [done |-> <<>>, open |-> <<>>]

\* Scores with a confidence
Confident(scores) == \A s \in scores : s.confidence \in 0..Whole

\* What is in the first k ranges
UpTo(scores, k) == {s \in scores : \E j \in 1..k : InRange(j, s.confidence)}

\* A range is a bucket, and what is in it is in no lower one.
LEMMA RangeIsBucket ==
  ASSUME NEW scores, Confident(scores), NEW k \in 1..5
  PROVE  LET b == RangeOf(scores, k) IN
         /\ b \in BucketsOf(scores) /\ Truthful(b) /\ b.lower = k - 1 /\ b.upper = k
         /\ b.observations \cap UpTo(scores, k - 1) = {}
         /\ UpTo(scores, k) = UpTo(scores, k - 1) \cup b.observations
<1> DEFINE b == RangeOf(scores, k)
<1>1. /\ b.lower = k - 1 /\ b.upper = k
      /\ b.observations = {s \in scores : InRange(k, s.confidence)}
      /\ b \in BucketsOf(scores)
  BY DEF RangeOf, BucketsOf
<1> HIDE DEF b
<1>2. Truthful(b)
  <2>1. ASSUME NEW s \in b.observations
        PROVE  b.lower * Whole <= 5 * s.confidence /\ 5 * s.confidence <= b.upper * Whole
    <3>1. InRange(k, s.confidence) /\ s.confidence \in 0..Whole /\ Whole \in Nat
      BY <1>1, <2>1, ScorecardAssumption DEF Confident
    <3>2. k \in {1, 2, 3, 4, 5}
      OBVIOUS
    <3> QED BY <1>1, <3>1, <3>2 DEF InRange
  <2> QED BY <1>1, <2>1 DEF Truthful
<1>3. b.observations \cap UpTo(scores, k - 1) = {}
  <2> SUFFICES ASSUME NEW s \in b.observations, NEW j \in 1..(k - 1), InRange(j, s.confidence)
               PROVE  FALSE
    BY DEF UpTo
  <2>1. InRange(k, s.confidence) /\ s.confidence \in 0..Whole /\ j \in 1..5 /\ j # k
    BY <1>1 DEF Confident
  <2> QED BY <2>1, OneRange
<1>4. UpTo(scores, k) = UpTo(scores, k - 1) \cup b.observations
  <2>1. \A j : j \in 1..k <=> j \in 1..(k - 1) \/ j = k
    OBVIOUS
  <2> QED BY <1>1, <2>1 DEF UpTo
<1> QED BY <1>1, <1>2, <1>3, <1>4 DEF b

\* The ranges that are not empty part the scores.
LEMMA BasePartsScores ==
  ASSUME NEW scores, Confident(scores)
  PROVE  Parts(scores, BaseBuckets(scores), 5, scores)
<1> DEFINE S == 1..5
           t == <<1, 2, 3, 4, 5>>
           Below5(k) == {bs \in Seq(BucketsOf(scores)) : Parts(scores, bs, k, UpTo(scores, k))}
           A == [k \in 0..5 |-> Below5(k)]
<1>1. BaseBuckets(scores) = Ranges!Fold(scores, t)
  BY DEF BaseBuckets, Ranges!Fold, Ranges!FoldLeft, Ranges!MapThenFoldSet, Ranges!Max, FoldLeft,
     MapThenFoldSet, Max
<1>2. t \in Seq(S) /\ Len(t) = 5 /\ <<>> \in Seq(S) /\ <<>> \o t = t
  OBVIOUS
<1>3. \A j \in 0..4 : t[j + 1] = j + 1
  <2>1. \A j \in 0..4 : j \in {0, 1, 2, 3, 4}
    OBVIOUS
  <2>2. t[0 + 1] = 0 + 1 /\ t[1 + 1] = 1 + 1 /\ t[2 + 1] = 2 + 1 /\ t[3 + 1] = 3 + 1 /\ t[4 + 1] = 4 + 1
    OBVIOUS
  <2> QED BY <2>1, <2>2
<1> HIDE DEF t
<1>4. Ranges!Fold(scores, <<>>) \in A[0]
  <2>1. Ranges!Fold(scores, <<>>) = <<>>
    BY Ranges!FoldEmpty
  <2>2. UpTo(scores, 0) = {}
    BY DEF UpTo
  <2>3. Parts(scores, <<>>, 0, {})
    BY DEF Parts, Collected
  <2>4. <<>> \in Seq(BucketsOf(scores)) /\ 0 \in 0..5
    OBVIOUS
  <2>5. <<>> \in Below5(0)
    BY <2>2, <2>3, <2>4
  <2>6. A[0] = Below5(0)
    BY <2>4
  <2> QED BY <2>1, <2>5, <2>6
<1>5. \A j \in Nat : j < Len(t) => \A bs \in A[j] : AddRange(scores, bs, t[j + 1]) \in A[j + 1]
  <2> SUFFICES ASSUME NEW j \in Nat, j < 5, NEW bs \in A[j]
               PROVE  AddRange(scores, bs, t[j + 1]) \in A[j + 1]
    BY <1>2
  <2>1. j \in 0..4 /\ j \in 0..5 /\ j + 1 \in 0..5 /\ j + 1 \in 1..5 /\ (j + 1) - 1 = j
    OBVIOUS
  <2>2. bs \in Seq(BucketsOf(scores)) /\ Parts(scores, bs, j, UpTo(scores, j))
    BY <2>1
  <2> DEFINE b == RangeOf(scores, j + 1)
  <2>3. /\ b \in BucketsOf(scores) /\ Truthful(b) /\ b.lower = j /\ b.upper = j + 1
        /\ b.observations \cap UpTo(scores, j) = {}
        /\ UpTo(scores, j + 1) = UpTo(scores, j) \cup b.observations
    BY <2>1, RangeIsBucket
  <2>4. AddRange(scores, bs, t[j + 1]) = IF b.observations = {} THEN bs ELSE Append(bs, b)
    BY <1>3, <2>1 DEF AddRange
  <2> HIDE DEF b
  <2>5. CASE b.observations = {}
    <3>1. Parts(scores, bs, j + 1, UpTo(scores, j + 1))
      <4>1. \A i \in DOMAIN bs : bs[i].upper \in 0..5
        <5>1. \A i \in DOMAIN bs : bs[i] \in BucketsOf(scores)
          BY <2>2
        <5> QED BY <5>1 DEF BucketsOf
      <4>2. \A i \in DOMAIN bs : bs[i].upper <= j + 1
        BY <2>2, <4>1 DEF Parts
      <4>3. UpTo(scores, j + 1) = UpTo(scores, j)
        BY <2>3, <2>5
      <4> QED BY <2>1, <2>2, <4>2, <4>3 DEF Parts
    <3> QED BY <2>1, <2>2, <2>4, <2>5, <3>1
  <2>6. CASE b.observations # {}
    <3>1. Parts(scores, Append(bs, b), j + 1, UpTo(scores, j + 1))
      <4> DEFINE before == UpTo(scores, j)
      <4>1. Parts(scores, bs, j, before) /\ j <= b.lower /\ b.observations \cap before = {}
        BY <2>2, <2>3
      <4> HIDE DEF before
      <4>2. Parts(scores, Append(bs, b), b.upper, before \cup b.observations)
        BY <2>3, <4>1, PartsAppend
      <4> QED BY <2>3, <4>2 DEF before
    <3>2. Append(bs, b) \in Seq(BucketsOf(scores))
      BY <2>2, <2>3
    <3> QED BY <2>1, <2>4, <2>6, <3>1, <3>2
  <2> QED BY <2>5, <2>6
<1> HIDE DEF A, S
<1>6. Ranges!Fold(scores, <<>> \o t) \in A[Len(t)]
  BY <1>2, <1>4, <1>5, Ranges!FoldAlong
<1>7. A[5] = Below5(5)
  BY DEF A
<1>8. UpTo(scores, 5) = scores
  <2>1. \A s \in scores : \E k \in 1..5 : InRange(k, s.confidence)
    BY OneRange DEF Confident
  <2> QED BY <2>1 DEF UpTo
<1> QED BY <1>1, <1>2, <1>6, <1>7, <1>8

Full(buckets) == \A i \in DOMAIN buckets : Cardinality(buckets[i].observations) >= MinimumBucket

\* What merging goes through
MergedOf(scores) ==
    {m \in [done : Seq(BucketsOf(scores)), open : Seq(BucketsOf(scores))] :
        (m.open = <<>> \/ \E o \in BucketsOf(scores) : m.open = <<o>>) /\ Full(m.done)}

\* One more bucket, above all of those before
LEMMA MergeKeeps ==
  ASSUME NEW scores, Confident(scores), NEW m \in MergedOf(scores), NEW top, NEW collected,
         Parts(scores, m.done \o m.open, top, collected),
         NEW b \in BucketsOf(scores), Truthful(b), top <= b.lower,
         b.observations \cap collected = {}
  PROVE  LET n == Merge(m, b) IN
         /\ n \in MergedOf(scores)
         /\ Parts(scores, n.done \o n.open, b.upper, collected \cup b.observations)
<1> DEFINE c == IF m.open = <<>> THEN b ELSE Joined(m.open[1], b)
           B == BucketsOf(scores)
           n == Merge(m, b)
           more == Append(m.done, c)
<1>1. /\ m.done \in Seq(B) /\ Full(m.done) /\ m = [done |-> m.done, open |-> m.open]
      /\ m.open = <<>> \/ \E o \in B : m.open = <<o>>
  BY DEF MergedOf
<1>2. c \in B /\ Parts(scores, more, b.upper, collected \cup b.observations)
  <2>1. CASE m.open = <<>>
    <3>1. m.done \o m.open = m.done /\ c = b
      BY <1>1, <2>1
    <3> HIDE DEF c
    <3> QED BY <3>1, PartsAppend
  <2>2. CASE m.open # <<>>
    <3>1. PICK o \in B : m.open = <<o>>
      BY <1>1, <2>2
    <3>2. m.done \o m.open = Append(m.done, o) /\ c = Joined(o, b)
      BY <1>1, <3>1
    <3> HIDE DEF c
    <3>3. /\ Parts(scores, m.done, o.lower, collected \ o.observations)
          /\ Truthful(o) /\ o.observations \subseteq collected /\ o.upper <= top
      <4>1. Parts(scores, Append(m.done, o), top, collected)
        BY <3>2
      <4> QED BY <1>1, <4>1, PartsFront
    <3>4. o.upper <= b.lower
      <4>1. o.upper \in 0..5 /\ b.lower \in 0..5 /\ top \in 0..5
        BY DEF BucketsOf, Parts
      <4> QED BY <3>3, <4>1
    <3>5. \A s \in scores : s.confidence \in Nat
      BY ScorecardAssumption DEF Confident
    <3>6. /\ c \in B /\ Truthful(c) /\ c.lower = o.lower /\ c.upper = b.upper
          /\ c.observations = o.observations \cup b.observations
      BY <3>2, <3>3, <3>4, <3>5, JoinedIsBucket
    <3>7. o.lower <= c.lower
      <4>1. o.lower \in 0..5
        BY DEF BucketsOf
      <4> QED BY <3>6, <4>1
    <3> DEFINE rest == collected \ o.observations
    <3>8. Parts(scores, m.done, o.lower, rest) /\ c.observations \cap rest = {}
      BY <3>3, <3>6
    <3>9. rest \cup c.observations = collected \cup b.observations
      BY <3>3, <3>6
    <3> HIDE DEF rest
    <3>10. Parts(scores, more, c.upper, rest \cup c.observations)
      BY <3>6, <3>7, <3>8, PartsAppend
    <3> QED BY <3>6, <3>9, <3>10
  <2> QED BY <2>1, <2>2
<1>3. n = IF Cardinality(c.observations) >= MinimumBucket
          THEN [done |-> more, open |-> <<>>] ELSE [done |-> m.done, open |-> <<c>>]
  BY <1>1 DEF Merge
<1> HIDE DEF c, n
<1>4. more \in Seq(B) /\ more \o <<>> = more /\ m.done \o <<c>> = more
  BY <1>1, <1>2
<1>5. CASE Cardinality(c.observations) >= MinimumBucket
  <2>1. Full(more)
    <3>1. \A i \in DOMAIN more : more[i] = c \/ (i \in DOMAIN m.done /\ more[i] = m.done[i])
      BY <1>1, <1>2
    <3> HIDE DEF more
    <3> QED BY <1>1, <1>5, <3>1 DEF Full
  <2> HIDE DEF more
  <2> QED BY <1>2, <1>3, <1>4, <1>5, <2>1 DEF MergedOf, n
<1>6. CASE ~(Cardinality(c.observations) >= MinimumBucket)
  <2>1. <<c>> \in Seq(B) /\ n = [done |-> m.done, open |-> <<c>>]
    BY <1>2, <1>3, <1>6
  <2> HIDE DEF more
  <2>2. n \in MergedOf(scores)
    BY <1>1, <1>2, <2>1 DEF MergedOf
  <2>3. n.done \o n.open = more
    BY <1>4, <2>1
  <2>4. Parts(scores, n.done \o n.open, b.upper, collected \cup b.observations)
    BY <1>2, <2>3
  <2> QED BY <2>2, <2>4 DEF n
<1> QED BY <1>5, <1>6

\* What is left over goes into the last bucket, or is the only one.
LEMMA ClosedParts ==
  ASSUME NEW scores, Confident(scores), IsFiniteSet(scores), NEW m \in MergedOf(scores), NEW top,
         NEW collected, Parts(scores, m.done \o m.open, top, collected)
  PROVE  LET buckets == Closed(m) IN
         /\ \E t : Parts(scores, buckets, t, collected)
         /\ Len(buckets) > 1 => Full(buckets)
<1> DEFINE B == BucketsOf(scores)
<1>1. /\ m.done \in Seq(B) /\ Full(m.done)
      /\ m.open = <<>> \/ \E o \in B : m.open = <<o>>
  BY DEF MergedOf
<1>2. CASE m.open = <<>>
  <2>1. m.done \o m.open = m.done /\ Closed(m) = m.done
    BY <1>1, <1>2 DEF Closed
  <2> QED BY <1>1, <2>1
<1>3. ASSUME NEW o \in B, m.open = <<o>>, m.done = <<>>
      PROVE  /\ \E t : Parts(scores, Closed(m), t, collected)
             /\ Len(Closed(m)) > 1 => Full(Closed(m))
  <2> DEFINE b == [lower |-> 0, upper |-> 5, observations |-> o.observations]
  <2>1. Closed(m) = <<b>> /\ m.done \o m.open = Append(<<>>, o) /\ Append(<<>>, b) = <<b>>
    BY <1>3 DEF Closed
  <2>2. b \in B /\ b.lower = 0 /\ b.upper = 5 /\ b.observations = o.observations
    BY DEF BucketsOf
  <2> HIDE DEF b
  <2>3. Truthful(b)
    <3>1. \A s \in b.observations : s.confidence \in 0..Whole /\ Whole \in Nat
      BY <2>2, ScorecardAssumption DEF BucketsOf, Confident
    <3>2. ASSUME NEW s \in b.observations
          PROVE  b.lower * Whole <= 5 * s.confidence /\ 5 * s.confidence <= b.upper * Whole
      BY <2>2, <3>1
    <3> QED BY <2>2, <3>2 DEF Truthful
  <2>4. <<>> \in Seq(B)
    OBVIOUS
  <2>5. Parts(scores, <<>>, o.lower, collected \ o.observations) /\ o.observations \subseteq collected
    <3>1. Parts(scores, Append(<<>>, o), top, collected)
      BY <2>1
    <3> QED BY <2>4, <3>1, PartsFront
  <2>6. collected = o.observations
    <3>1. Collected(<<>>) = {}
      BY DEF Collected
    <3> QED BY <2>5, <3>1 DEF Parts
  <2>7. Parts(scores, <<>>, 0, {})
    BY DEF Parts, Collected
  <2>8. Parts(scores, Append(<<>>, b), b.upper, {} \cup b.observations)
    <3>1. 0 <= b.lower /\ b.observations \cap {} = {}
      BY <2>2
    <3> QED BY <2>2, <2>3, <2>7, <3>1, PartsAppend
  <2>9. Len(<<b>>) = 1
    OBVIOUS
  <2> QED BY <2>1, <2>2, <2>6, <2>8, <2>9
<1>4. ASSUME NEW o \in B, m.open = <<o>>, m.done # <<>>
      PROVE  /\ \E t : Parts(scores, Closed(m), t, collected)
             /\ Len(Closed(m)) > 1 => Full(Closed(m))
  <2> DEFINE front == Front(m.done)
             last == Last(m.done)
             b == Joined(last, o)
             more == Append(front, b)
  <2>1. Closed(m) = more /\ m.done \o m.open = Append(m.done, o)
    BY <1>1, <1>4 DEF Closed
  <2>2. front \in Seq(B) /\ last \in B /\ m.done = Append(front, last)
    <3>1. Len(m.done) \in Nat /\ Len(m.done) > 0
      BY <1>1, <1>4
    <3> QED BY <1>1, <3>1 DEF Front, Last
  <2> HIDE DEF front, last
  <2>3. /\ Parts(scores, m.done, o.lower, collected \ o.observations)
        /\ Truthful(o) /\ o.observations \subseteq collected
    <3>1. Parts(scores, Append(m.done, o), top, collected)
      BY <2>1
    <3> QED BY <1>1, <3>1, PartsFront
  <2> DEFINE below == collected \ o.observations
  <2>4. Parts(scores, m.done, o.lower, below) /\ below \cup o.observations = collected
    BY <2>3
  <2> HIDE DEF below
  <2>5. /\ Parts(scores, front, last.lower, below \ last.observations)
        /\ Truthful(last) /\ last.observations \subseteq below /\ last.upper <= o.lower
    <3>1. Parts(scores, Append(front, last), o.lower, below)
      BY <2>2, <2>4
    <3> QED BY <2>2, <3>1, PartsFront
  <2>6. \A s \in scores : s.confidence \in Nat
    BY ScorecardAssumption DEF Confident
  <2>7. /\ b \in B /\ Truthful(b) /\ b.lower = last.lower
        /\ b.observations = last.observations \cup o.observations
    BY <2>2, <2>3, <2>5, <2>6, JoinedIsBucket
  <2> HIDE DEF b
  <2>8. last.lower <= b.lower
    <3>1. last.lower \in 0..5
      BY <2>2 DEF BucketsOf
    <3> QED BY <2>7, <3>1
  <2> DEFINE rest == below \ last.observations
  <2>9. /\ Parts(scores, front, last.lower, rest) /\ rest \cup b.observations = collected
        /\ b.observations \cap rest = {}
    <3>1. o.observations \cap below = {}
      BY DEF below
    <3> QED BY <2>4, <2>5, <2>7, <3>1
  <2> HIDE DEF rest
  <2>10. Parts(scores, more, b.upper, rest \cup b.observations)
    BY <2>2, <2>7, <2>8, <2>9, PartsAppend
  <2>11. Full(more)
    <3>1. Cardinality(last.observations) >= MinimumBucket
      <4>1. m.done[Len(m.done)] = last /\ Len(m.done) \in DOMAIN m.done
        BY <2>2
      <4> QED BY <1>1, <4>1 DEF Full
    <3>2. \A i \in DOMAIN more : more[i] = b \/ (i \in DOMAIN m.done /\ more[i] = m.done[i])
      BY <2>2, <2>7
    <3>3. IsFiniteSet(b.observations)
      <4>1. b.observations \in SUBSET scores
        BY <2>7 DEF BucketsOf
      <4> QED BY <4>1, FS_Subset
    <3>4. last.observations \in SUBSET b.observations
      BY <2>7
    <3>5. Cardinality(last.observations) <= Cardinality(b.observations)
      BY <3>3, <3>4, FS_Subset
    <3>6. Cardinality(last.observations) \in Nat /\ Cardinality(b.observations) \in Nat
      BY <3>3, <3>4, FS_Subset, FS_CardinalityType
    <3>7. Cardinality(b.observations) >= MinimumBucket
      BY <3>1, <3>5, <3>6, ScorecardAssumption
    <3> HIDE DEF more
    <3> QED BY <1>1, <3>2, <3>7 DEF Full
  <2> QED BY <2>1, <2>9, <2>10, <2>11
<1> QED BY <1>1, <1>2, <1>3, <1>4

\* Every score is in exactly one bucket, of which the bounds tell the truth and
\* which has the minimum, unless there is but one (metrics.ts).
LEMMA ReliabilityParts ==
  ASSUME NEW scores, Confident(scores), IsFiniteSet(scores)
  PROVE  LET buckets == ReliabilityBuckets(scores) IN
         /\ \E t : Parts(scores, buckets, t, scores)
         /\ Len(buckets) > 1 => Full(buckets)
<1> DEFINE base == BaseBuckets(scores)
           B == BucketsOf(scores)
           n == Len(base)
           First(j) == UNION {base[i].observations : i \in 1..j}
           Reached(j) == {m \in MergedOf(scores) :
                             \E top : /\ Parts(scores, m.done \o m.open, top, First(j))
                                      /\ j < n => top <= base[j + 1].lower}
           A == [j \in 0..n |-> Reached(j)]
<1>1. ReliabilityBuckets(scores) = Closed(Merging!Fold(0, base))
  BY DEF ReliabilityBuckets, Merging!Fold, Merging!FoldLeft, Merging!MapThenFoldSet, Merging!Max,
     FoldLeft, MapThenFoldSet, Max
<1>2. Parts(scores, base, 5, scores)
  BY BasePartsScores
<1>3. base \in Seq(B) /\ n \in Nat /\ DOMAIN base = 1..n /\ <<>> \in Seq(B) /\ <<>> \o base = base
  <2> HIDE DEF base
  <2> QED BY <1>2 DEF Parts
<1>4. \A i \in 1..n : base[i] \in B /\ base[i].lower \in 0..5 /\ base[i].upper \in 0..5
  <2>1. \A i \in 1..n : base[i] \in B
    <3> HIDE DEF base
    <3> QED BY <1>3
  <2> HIDE DEF base
  <2> QED BY <2>1 DEF BucketsOf
<1>5. /\ \A i \in 1..n : Truthful(base[i])
      /\ \A i, j \in 1..n : /\ i # j => base[i].observations \cap base[j].observations = {}
                            /\ i < j => base[i].upper <= base[j].lower
      /\ First(n) = scores
  <2> HIDE DEF base, n
  <2> QED BY <1>2, <1>3 DEF Parts, Collected
<1> HIDE DEF base, n
<1>6. Merging!Fold(0, <<>>) \in A[0]
  <2> DEFINE m == [done |-> <<>>, open |-> <<>>]
  <2>1. Merging!Fold(0, <<>>) = m
    BY Merging!FoldEmpty
  <2>2. m \in MergedOf(scores)
    BY DEF MergedOf, Full
  <2>3. m.done \o m.open = <<>> /\ First(0) = {}
    OBVIOUS
  <2>4. Parts(scores, <<>>, 0, {})
    BY DEF Parts, Collected
  <2>5. 0 < n => 0 <= base[0 + 1].lower
    BY <1>3, <1>4
  <2> HIDE DEF m
  <2>6. Parts(scores, m.done \o m.open, 0, First(0))
    BY <2>3, <2>4
  <2> HIDE DEF First
  <2>7. m \in Reached(0)
    BY <2>2, <2>5, <2>6
  <2>8. A[0] = Reached(0)
    BY <1>3
  <2> QED BY <2>1, <2>7, <2>8
<1>7. \A j \in Nat : j < Len(base) => \A m \in A[j] : Merge(m, base[j + 1]) \in A[j + 1]
  <2> SUFFICES ASSUME NEW j \in Nat, j < n, NEW m \in A[j]
               PROVE  Merge(m, base[j + 1]) \in A[j + 1]
    BY DEF n
  <2>1. j \in 0..n /\ j + 1 \in 0..n /\ j + 1 \in 1..n
    BY <1>3
  <2>2. PICK top : /\ m \in MergedOf(scores) /\ Parts(scores, m.done \o m.open, top, First(j))
                   /\ top <= base[j + 1].lower
    BY <2>1
  <2> DEFINE b == base[j + 1]
             next == Merge(m, b)
  <2>3. b \in B /\ Truthful(b) /\ top <= b.lower
    BY <1>4, <1>5, <2>1, <2>2
  <2>4. b.observations \cap First(j) = {} /\ First(j + 1) = First(j) \cup b.observations
    <3>1. \A i : i \in 1..(j + 1) <=> i \in 1..j \/ i = j + 1
      OBVIOUS
    <3>2. \A i \in 1..j : i \in 1..n /\ i # j + 1
      BY <1>3
    <3> QED BY <1>5, <2>1, <3>1, <3>2
  <2>5. j + 1 < n => b.upper <= base[(j + 1) + 1].lower
    BY <1>3, <1>5, <2>1
  <2> HIDE DEF b, First
  <2>6. next \in MergedOf(scores) /\ Parts(scores, next.done \o next.open, b.upper, First(j + 1))
    <3>1. PICK collected : collected = First(j)
      OBVIOUS
    <3>2. Parts(scores, m.done \o m.open, top, collected) /\ b.observations \cap collected = {}
      BY <2>2, <2>4, <3>1
    <3>3. next \in MergedOf(scores)
          /\ Parts(scores, next.done \o next.open, b.upper, collected \cup b.observations)
      BY <2>2, <2>3, <3>2, MergeKeeps
    <3> QED BY <2>4, <3>1, <3>3
  <2> HIDE DEF next
  <2>7. next \in Reached(j + 1)
    BY <2>5, <2>6
  <2>8. A[j + 1] = Reached(j + 1)
    BY <2>1
  <2> QED BY <2>7, <2>8 DEF next, b
<1> HIDE DEF A
<1>8. Merging!Fold(0, <<>> \o base) \in A[Len(base)]
  BY <1>3, <1>6, <1>7, Merging!FoldAlong
<1> DEFINE m == Merging!Fold(0, base)
<1>9. m \in Reached(n)
  <2>1. A[n] = Reached(n)
    BY <1>3 DEF A
  <2> QED BY <1>3, <1>8, <2>1 DEF n
<1> HIDE DEF m
<1>10. PICK top : m \in MergedOf(scores) /\ Parts(scores, m.done \o m.open, top, scores)
  BY <1>5, <1>9
<1>11. /\ \E t : Parts(scores, Closed(m), t, scores)
       /\ Len(Closed(m)) > 1 => Full(Closed(m))
  BY <1>10, ClosedParts
<1> QED BY <1>1, <1>11 DEF m

-----------------------------------------------------------------------------
(* Records, headings and scores *)

\* Two sets that have nothing in common
LEMMA CountApart ==
  ASSUME NEW S, NEW T, IsFiniteSet(S), IsFiniteSet(T), S \cap T = {}
  PROVE  /\ IsFiniteSet(S \cup T) /\ Cardinality(S \cup T) = Cardinality(S) + Cardinality(T)
         /\ Cardinality(S) \in Nat /\ Cardinality(T) \in Nat
<1>1. Cardinality(S \cup T) = Cardinality(S) + Cardinality(T) - Cardinality(S \cap T)
  BY FS_Union
<1>2. Cardinality(S \cap T) = 0
  BY FS_EmptySet
<1>3. Cardinality(S) \in Nat /\ Cardinality(T) \in Nat
  BY FS_CardinalityType
<1>4. IsFiniteSet(S \cup T)
  BY FS_Union
<1> QED BY <1>1, <1>2, <1>3, <1>4

\* Each forecast that is scored has one score.
LEMMA OneScoreEach ==
  ASSUME NEW records, Complete(records)
  PROVE  LET scores == {ScoreForecast(r) : r \in Scoreable(records)} IN
         /\ IsFiniteSet(Scoreable(records)) /\ IsFiniteSet(scores)
         /\ Cardinality(scores) = Cardinality(Scoreable(records))
<1> DEFINE S == Scoreable(records)
           scores == {ScoreForecast(r) : r \in S}
           f == [r \in S |-> ScoreForecast(r)]
<1>1. S \in SUBSET records /\ IsFiniteSet(records)
  BY DEF Scoreable, Prospective, Complete
<1>2. IsFiniteSet(S)
  <2> HIDE DEF S
  <2> QED BY <1>1, FS_Subset
<1>3. \A r : ScoreForecast(r).forecast = r.id
  BY DEF ScoreForecast
<1>4. \A r, q \in S : ScoreForecast(r) = ScoreForecast(q) => r = q
  <2> HIDE DEF S
  <2> QED BY <1>1, <1>3 DEF Complete
<1> HIDE DEF S
<1>5. f \in Bijection(S, scores)
  <2>1. f \in [S -> scores]
    OBVIOUS
  <2>2. f \in Injection(S, scores)
    BY <1>4, <2>1 DEF Injection, IsInjective
  <2>3. f \in Surjection(S, scores)
    BY <2>1 DEF Surjection
  <2> QED BY <2>2, <2>3 DEF Bijection
<1>6. ExistsBijection(S, scores)
  BY <1>5 DEF ExistsBijection
<1> HIDE DEF scores
<1>7. IsFiniteSet(scores) /\ Cardinality(scores) = Cardinality(S)
  BY <1>2, <1>6, FS_Bijection
<1> QED BY <1>2, <1>7 DEF scores, S

\* Each record is scored or under exactly one heading.
LEMMA OneHeadingEach ==
  ASSUME NEW records, Complete(records)
  PROVE  LET x == Excluded(records) IN
         Cardinality(Scoreable(records)) + Cardinality(x.externallyUnverified)
           + Cardinality(x.failed) + Cardinality(x.fixtureOrRetrospective)
           + Cardinality(x.unresolved) + Cardinality(x.void) = Cardinality(records)
<1> DEFINE ours == Prospective(records)
           S == Scoreable(records)
           late == {r \in ours : r.lifecycle = "resolved" /\ r.attestation # "timely"}
           failed == {r \in ours : r.lifecycle = "failed"}
           others == records \ ours
           open == {r \in ours : r.lifecycle = "published"}
           void == {r \in ours : r.lifecycle = "void"}
<1>1. /\ Excluded(records).externallyUnverified = late /\ Excluded(records).failed = failed
      /\ Excluded(records).fixtureOrRetrospective = others
      /\ Excluded(records).unresolved = open /\ Excluded(records).void = void
  BY DEF Excluded
<1>2. ours \subseteq records
  BY DEF Prospective
<1>3. S = {r \in ours : r.lifecycle = "resolved" /\ r.attestation = "timely"}
  BY <1>2 DEF Scoreable, Complete
<1>4. \A r \in ours : r.lifecycle \in {"published", "resolved", "void", "failed"}
  BY <1>2 DEF Complete
<1> HIDE DEF ours, S
<1>5. records = ((((S \cup late) \cup failed) \cup others) \cup open) \cup void
  BY <1>2, <1>3, <1>4
<1>6. /\ S \cap late = {} /\ (S \cup late) \cap failed = {}
      /\ ((S \cup late) \cup failed) \cap others = {}
      /\ (((S \cup late) \cup failed) \cup others) \cap open = {}
      /\ ((((S \cup late) \cup failed) \cup others) \cup open) \cap void = {}
  BY <1>2, <1>3
<1>7. /\ S \in SUBSET records /\ late \in SUBSET records /\ failed \in SUBSET records
      /\ others \in SUBSET records /\ open \in SUBSET records /\ void \in SUBSET records
  BY <1>2, <1>3
<1> HIDE DEF late, failed, others, open, void
<1>8. /\ IsFiniteSet(S) /\ IsFiniteSet(late) /\ IsFiniteSet(failed) /\ IsFiniteSet(others)
      /\ IsFiniteSet(open) /\ IsFiniteSet(void)
  BY <1>7, FS_Subset DEF Complete
<1> DEFINE S1 == S \cup late
           S2 == S1 \cup failed
           S3 == S2 \cup others
           S4 == S3 \cup open
<1>9. IsFiniteSet(S1) /\ Cardinality(S1) = Cardinality(S) + Cardinality(late)
      /\ Cardinality(S) \in Nat /\ Cardinality(late) \in Nat
  BY <1>6, <1>8, CountApart
<1>10. S1 \cap failed = {} /\ S2 \cap others = {} /\ S3 \cap open = {} /\ S4 \cap void = {}
       /\ records = S4 \cup void
  BY <1>5, <1>6
<1> HIDE DEF S1
<1>11. IsFiniteSet(S2) /\ Cardinality(S2) = Cardinality(S1) + Cardinality(failed)
       /\ Cardinality(failed) \in Nat
  BY <1>8, <1>9, <1>10, CountApart
<1> HIDE DEF S2
<1>12. IsFiniteSet(S3) /\ Cardinality(S3) = Cardinality(S2) + Cardinality(others)
       /\ Cardinality(others) \in Nat
  BY <1>8, <1>10, <1>11, CountApart
<1> HIDE DEF S3
<1>13. IsFiniteSet(S4) /\ Cardinality(S4) = Cardinality(S3) + Cardinality(open)
       /\ Cardinality(open) \in Nat
  BY <1>8, <1>10, <1>12, CountApart
<1> HIDE DEF S4
<1>14. Cardinality(S4 \cup void) = Cardinality(S4) + Cardinality(void) /\ Cardinality(void) \in Nat
  BY <1>8, <1>10, <1>13, CountApart
<1> QED BY <1>1, <1>9, <1>10, <1>11, <1>12, <1>13, <1>14 DEF S

\* What the scorecard shows of complete records
LEMMA CardIsWhole ==
  ASSUME NEW records, Complete(records)
  PROVE  LET card == AggregateScorecard(records)
             x == card.excluded
             b == card.reliability
         IN  /\ ~Throws(records)
             /\ Cardinality(card.scores) + Cardinality(x.externallyUnverified)
                  + Cardinality(x.failed) + Cardinality(x.fixtureOrRetrospective)
                  + Cardinality(x.unresolved) + Cardinality(x.void) = Cardinality(records)
             /\ card.scores = {ScoreForecast(r) : r \in Scoreable(records)}
             /\ UNION {b[i].observations : i \in DOMAIN b} = card.scores
             /\ \A i, j \in DOMAIN b : i # j => b[i].observations \cap b[j].observations = {}
             /\ \A i \in DOMAIN b : \A s \in b[i].observations :
                   b[i].lower * Whole <= 5 * s.confidence /\ 5 * s.confidence <= b[i].upper * Whole
             /\ Len(b) > 1 => \A i \in DOMAIN b : Cardinality(b[i].observations) >= MinimumBucket
<1> DEFINE scores == {ScoreForecast(r) : r \in Scoreable(records)}
           b == ReliabilityBuckets(scores)
<1>1. /\ AggregateScorecard(records).scores = scores
      /\ AggregateScorecard(records).excluded = Excluded(records)
      /\ AggregateScorecard(records).reliability = b
  BY DEF AggregateScorecard
<1>2. ~Throws(records)
  BY DEF Throws, Prospective, Complete
<1>3. IsFiniteSet(scores) /\ Cardinality(scores) = Cardinality(Scoreable(records))
  BY OneScoreEach
<1>4. Confident(scores)
  BY ConfidenceIsPart DEF Confident, Complete, Scoreable, Prospective
<1> HIDE DEF scores
<1>5. (\E t : Parts(scores, b, t, scores)) /\ (Len(b) > 1 => Full(b))
  BY <1>3, <1>4, ReliabilityParts
<1> HIDE DEF b
<1>6. /\ UNION {b[i].observations : i \in DOMAIN b} = scores
      /\ \A i, j \in DOMAIN b : i # j => b[i].observations \cap b[j].observations = {}
      /\ \A i \in DOMAIN b : Truthful(b[i])
  BY <1>5 DEF Parts, Collected
<1>7. Cardinality(scores) + Cardinality(Excluded(records).externallyUnverified)
        + Cardinality(Excluded(records).failed)
        + Cardinality(Excluded(records).fixtureOrRetrospective)
        + Cardinality(Excluded(records).unresolved) + Cardinality(Excluded(records).void)
      = Cardinality(records)
  BY <1>3, OneHeadingEach
<1> QED BY <1>1, <1>2, <1>5, <1>6, <1>7 DEF Truthful, Full, scores

-----------------------------------------------------------------------------
(* The claim *)

\* A sample that is scored at least as far as another one, and published as far
CarriesOn(old, new) ==
    /\ IsFiniteSet(new)
    /\ \E g \in [old -> new] :
          /\ \A r, q \in old : g[r] = g[q] => r = q
          /\ \A r \in old : g[r].date = r.date /\ g[r].horizon = r.horizon
          /\ \A r \in Scoreable(old) : g[r] \in Scoreable(new)
    /\ {r.horizon : r \in PublishedRecords(new)} = {r.horizon : r \in PublishedRecords(old)}

\* The claim carries on to it (comparisonReady).
LEMMA ClaimCarriesOn ==
  ASSUME NEW old, NEW new, CarriesOn(old, new), ComparisonReady(old)
  PROVE  ComparisonReady(new)
<1>1. PICK g \in [old -> new] :
          /\ \A r, q \in old : g[r] = g[q] => r = q
          /\ \A r \in old : g[r].date = r.date /\ g[r].horizon = r.horizon
          /\ \A r \in Scoreable(old) : g[r] \in Scoreable(new)
  BY DEF CarriesOn
<1> DEFINE S == Scoreable(old)
           T == Scoreable(new)
<1>2. S \subseteq old /\ T \in SUBSET new /\ \A r \in S : g[r] \in T
  BY <1>1 DEF Scoreable, Prospective
<1>3. IsFiniteSet(T)
  <2>1. IsFiniteSet(new)
    BY DEF CarriesOn
  <2> HIDE DEF T
  <2> QED BY <1>2, <2>1, FS_Subset
<1>4. /\ {MinimumForecasts, MinimumDistinctDates, MinimumPerActiveHorizon} \subseteq Nat
      /\ Cardinality(S) >= MinimumForecasts
      /\ Cardinality({r.date : r \in S}) >= MinimumDistinctDates
      /\ {r.horizon : r \in PublishedRecords(old)} # {}
      /\ \A h \in {r.horizon : r \in PublishedRecords(old)} :
            Cardinality({r \in S : r.horizon = h}) >= MinimumPerActiveHorizon
  BY ScorecardAssumption DEF ComparisonReady
<1> HIDE DEF S, T
<1>5. ASSUME NEW A \in SUBSET S, NEW C \in SUBSET T, \A r \in A : g[r] \in C
      PROVE  Cardinality(A) <= Cardinality(C) /\ Cardinality(A) \in Nat /\ Cardinality(C) \in Nat
  <2> DEFINE f == [r \in A |-> g[r]]
  <2>1. IsFiniteSet(C)
    BY <1>3, FS_Subset
  <2>2. f \in [A -> C]
    BY <1>5
  <2>3. \A r, q \in A : f[r] = f[q] => r = q
    BY <1>1, <1>2
  <2> HIDE DEF f
  <2>4. f \in Injection(A, C)
    BY <2>2, <2>3 DEF Injection, IsInjective
  <2>5. IsFiniteSet(A) /\ Cardinality(A) <= Cardinality(C)
    BY <2>1, <2>4, FS_Injection
  <2> QED BY <2>1, <2>5, FS_CardinalityType
<1>6. Cardinality(T) >= MinimumForecasts
  <2>1. Cardinality(S) <= Cardinality(T) /\ Cardinality(S) \in Nat /\ Cardinality(T) \in Nat
    BY <1>2, <1>5
  <2> QED BY <1>4, <2>1
<1>7. Cardinality({r.date : r \in T}) >= MinimumDistinctDates
  <2> DEFINE D == {r.date : r \in S}
             E == {r.date : r \in T}
             f == [r \in T |-> r.date]
  <2>1. D \in SUBSET E
    BY <1>1, <1>2
  <2>2. IsFiniteSet(E)
    <3>1. f \in Surjection(T, E)
      BY DEF Surjection
    <3> HIDE DEF f, E
    <3> QED BY <1>3, <3>1, FS_Surjection
  <2> HIDE DEF D, E
  <2>3. IsFiniteSet(D) /\ Cardinality(D) <= Cardinality(E)
    BY <2>1, <2>2, FS_Subset
  <2>4. Cardinality(D) \in Nat /\ Cardinality(E) \in Nat
    BY <2>2, <2>3, FS_CardinalityType
  <2>5. Cardinality(D) >= MinimumDistinctDates
    BY <1>4 DEF D
  <2>6. Cardinality(E) >= MinimumDistinctDates
    BY <1>4, <2>3, <2>4, <2>5
  <2> QED BY <2>6 DEF E
<1>8. {r.horizon : r \in PublishedRecords(new)} = {r.horizon : r \in PublishedRecords(old)}
  BY DEF CarriesOn
<1>9. ASSUME NEW h \in {r.horizon : r \in PublishedRecords(new)}
      PROVE  Cardinality({r \in T : r.horizon = h}) >= MinimumPerActiveHorizon
  <2> DEFINE A == {r \in S : r.horizon = h}
             C == {r \in T : r.horizon = h}
  <2>1. A \in SUBSET S /\ C \in SUBSET T /\ \A r \in A : g[r] \in C
    BY <1>1, <1>2
  <2>2. Cardinality(A) >= MinimumPerActiveHorizon
    BY <1>4, <1>8, <1>9
  <2> HIDE DEF A, C
  <2>3. Cardinality(A) <= Cardinality(C) /\ Cardinality(A) \in Nat /\ Cardinality(C) \in Nat
    BY <1>5, <2>1
  <2>4. Cardinality(C) >= MinimumPerActiveHorizon
    BY <1>4, <2>2, <2>3
  <2> QED BY <2>4 DEF C
<1> QED BY <1>4, <1>6, <1>7, <1>8, <1>9 DEF ComparisonReady, T

-----------------------------------------------------------------------------
(* The ledger's records in the scorecard *)

\* A forecast is published, resolved or void, whatever its corrections.
StatusesOK == \A f \in Ids(forecasts) : StatusIn(events, f) \in {"published", "resolved", "void"}

\* What was published was judged as the publications say.
JudgedOK ==
    repertoire = Publications =>
        \A i \in DOMAIN judgments : judgments[i] \in Publications /\ judgments[i].op = "judgment"

CardInv == VerdictInv /\ StatusesOK /\ JudgedOK

LEMMA CallKeepsStatuses ==
  ASSUME LedgerInv, StatusesOK, NEW r, WellTyped(r), Call(r)
  PROVE  StatusesOK'
<1> USE DEF LedgerInv
<1>1. CASE Makes(r, "publish")
  <2>1. Ids(forecasts') = Ids(forecasts) \cup {r.id}
    BY <1>1, CallEffects, IdsAfter DEF LogsOK
  <2>2. \A f : StatusIn(events', f) = IF f = r.id THEN "published" ELSE StatusIn(events, f)
    BY <1>1, PublicationKeepsHistory
  <2> QED BY <2>1, <2>2 DEF StatusesOK
<1>2. CASE Settles(r)
  <2>1. forecasts' = forecasts
    BY <1>2, CallEffects DEF Settles, Makes
  <2>2. \A f : StatusIn(events', f) \in {"resolved", StatusIn(events, f)}
    BY <1>2, SettlementKeepsHistory
  <2> QED BY <2>1, <2>2 DEF StatusesOK, Ids
<1>3. CASE Makes(r, "void")
  <2>1. forecasts' = forecasts
    BY <1>3, CallEffects DEF Makes
  <2>2. \A f : StatusIn(events', f) \in {"void", StatusIn(events, f)}
    BY <1>3, VoidKeepsHistory
  <2> QED BY <2>1, <2>2 DEF StatusesOK, Ids
<1>4. CASE ~Makes(r, "publish") /\ ~Settles(r) /\ ~Makes(r, "void")
  <2>1. forecasts' = forecasts /\ events' = events
    BY <1>4, CallEffects
  <2> QED BY <2>1 DEF StatusesOK, Ids
<1> QED BY <1>1, <1>2, <1>3, <1>4

\* What a resolver records in a behaviour that lives on is no judgment.
LEMMA RecordIsJustified ==
  ASSUME VerdictInv, NEW w \in Resolvers, Record(w)
  PROVE  \E r : /\ Alive /\ Justified(r) /\ WellTyped(r) /\ Call(r)
                /\ r.op \in {"resolve", "correct", "void"}
<1> USE DEF VerdictInv, HistoryInv, LifeInv
<1>1. Alive /\ resolver[w] # <<>>
  BY DEF Record, NothingBefore
<1>2. PICK r : resolver[w] = <<r>> /\ Justified(r)
  BY <1>1 DEF AllJustified
<1>3. resolver[w][1] = r
  BY <1>2
<1>4. Call(r) /\ WellTyped(r)
  BY <1>1, <1>3 DEF Record, ResolversOK
<1> QED BY <1>1, <1>2, <1>4 DEF Justified

\* Who writes to the ledger: callers, a purge, and resolvers.
LEMMA WriterSteps ==
  ASSUME VerdictInv, [Next]_vars
  PROVE  \/ Calls \/ Housekeeping \/ UNCHANGED ledgerVars
         \/ \E r : WellTyped(r) /\ Call(r) /\ r.op \in {"resolve", "correct", "void"}
<1>1. ASSUME NEW w \in Resolvers, Record(w)
      PROVE  \E r : WellTyped(r) /\ Call(r) /\ r.op \in {"resolve", "correct", "void"}
  BY <1>1, RecordIsJustified
<1>2. CASE SessionCloses \/ EnqueueDueOutcomeResolutions \/ UNCHANGED vars
  BY <1>2 DEF SessionCloses, EnqueueDueOutcomeResolutions, vars
<1>3. ASSUME NEW f \in ForecastIds,
             \/ \E v \in Values[f] : BarArrives(f, v)
             \/ \E l \in Lifecycles[f] : HaltsOrDelists(f, l)
             \/ GivesUp(f)
             \/ \E w \in Resolvers : Read(w, f) \/ ReadsInVain(w, f) \/ ReadAgain(w, f)
      PROVE  UNCHANGED ledgerVars
  BY <1>3 DEF BarArrives, HaltsOrDelists, GivesUp, Read, ReadsInVain, ReadAgain
<1>4. ASSUME NEW w \in Resolvers, Dies(w) PROVE UNCHANGED ledgerVars
  BY <1>4 DEF Dies
<1> QED BY <1>1, <1>2, <1>3, <1>4 DEF Next

LEMMA JudgedStays ==
  ASSUME VerdictInv, JudgedOK, [Next]_vars
  PROVE  JudgedOK'
<1> USE DEF VerdictInv, HistoryInv, LifeInv, LedgerInv
<1>1. ASSUME NEW r, WellTyped(r), Call(r), r.op # "judgment" \/ r \in repertoire
      PROVE  JudgedOK'
  <2>1. repertoire' = repertoire
    BY <1>1 DEF Call
  <2>2. judgments' = IF Makes(r, "judgment") THEN Append(judgments, r) ELSE judgments
    BY <1>1, CallEffects
  <2>3. CASE Makes(r, "judgment")
    <3>1. r \in repertoire /\ r.op = "judgment"
      BY <1>1, <2>3 DEF Makes
    <3>2. \A i \in DOMAIN judgments' :
              judgments'[i] = r \/ (i \in DOMAIN judgments /\ judgments'[i] = judgments[i])
      BY <2>2, <2>3, Added DEF LogsOK
    <3> QED BY <2>1, <3>1, <3>2 DEF JudgedOK
  <2>4. CASE ~Makes(r, "judgment")
    BY <2>1, <2>2, <2>4 DEF JudgedOK
  <2> QED BY <2>3, <2>4
<1>2. CASE Calls
  <2>1. PICK r \in repertoire : Call(r)
    BY <1>2 DEF Calls
  <2> QED BY <1>1, <2>1, RequestAssumption
<1>3. CASE ~Calls /\ ~Housekeeping
  <2>1. \/ UNCHANGED ledgerVars
        \/ \E r : WellTyped(r) /\ Call(r) /\ r.op \in {"resolve", "correct", "void"}
    BY <1>3, WriterSteps
  <2>2. CASE UNCHANGED ledgerVars
    BY <2>2 DEF ledgerVars, JudgedOK
  <2> QED BY <1>1, <2>1, <2>2
<1>4. CASE Housekeeping
  BY <1>4 DEF Housekeeping, PurgeExpiredIdentifiers, TimePasses, JudgedOK
<1> QED BY <1>2, <1>3, <1>4

\* Always: what the scorecard is told of a forecast has an end and a distribution.
LEMMA CardInvariance == Spec => []CardInv
<1>1. Init => StatusesOK /\ JudgedOK
  <2>1. DOMAIN <<>> = {}
    BY EmptySeq
  <2> QED BY <2>1 DEF Init, LedgerInit, StatusesOK, JudgedOK, Ids
<1>2. VerdictInv /\ StatusesOK /\ JudgedOK /\ [Next]_vars => (StatusesOK /\ JudgedOK)'
  <2> SUFFICES ASSUME VerdictInv, StatusesOK, JudgedOK, [Next]_vars
               PROVE  StatusesOK' /\ JudgedOK'
    OBVIOUS
  <2>1. StatusesOK'
    <3> USE DEF VerdictInv, HistoryInv, LifeInv
    <3>1. ASSUME NEW r, WellTyped(r), Call(r) PROVE StatusesOK'
      BY <3>1, CallKeepsStatuses
    <3>2. CASE forecasts' = forecasts /\ events' = events
      BY <3>2 DEF StatusesOK, Ids
    <3> QED BY <3>1, <3>2, LifeSteps
  <2> QED BY <2>1, JudgedStays
<1> QED BY <1>1, <1>2, VerdictInvariance, PTL DEF Spec, CardInv

\* The record of a forecast is one the scorecard can take.
RecordFits(f) ==
    LET r == ScoreRecord(f) IN
    /\ r.lifecycle \in {"published", "resolved", "void"}
    /\ IsDistribution(r.probabilities)
    /\ r.lifecycle = "resolved" =>
          /\ r.date # {} /\ ~Ambiguous(r) /\ ActiveOutcome(r) # NoLabel
          /\ ActiveOutcome(r) = ActiveIn(outcomes, f)[1].label

RecordsOK ==
    /\ IsFiniteSet(Ids(forecasts)) /\ Ids(forecasts) \subseteq ForecastIds
    /\ Alive => \A f \in Ids(forecasts) : RecordFits(f)

\* Of the versions of an outcome exactly one is active, the last one.
LEMMA OneIsActive ==
  ASSUME CardInv, Alive, NEW f \in Ids(forecasts), StatusIn(events, f) = "resolved"
  PROVE  /\ ~Ambiguous(ScoreRecord(f)) /\ ActiveOutcome(ScoreRecord(f)) # NoLabel
         /\ ActiveOutcome(ScoreRecord(f)) = ActiveIn(outcomes, f)[1].label
<1> USE DEF CardInv, VerdictInv, HistoryInv, LifeInv, LedgerInv
<1>1. PICK k \in DOMAIN outcomes : outcomes[k].forecast = f /\ ActiveIn(outcomes, f) = <<outcomes[k]>>
  <2>1. ActiveIn(outcomes, f) # <<>>
    BY DEF HistoryOK, ResolvedHaveOutcomes
  <2> QED BY <2>1, ActiveIsRecorded DEF LogsOK
<1>2. PICK o : o = outcomes[k] /\ Grounded(o)
  BY DEF AllGrounded
<1>3. o.label # NoLabel
  BY <1>2 DEF Grounded, ResolveDirectionOutcome, NoLabel
<1> DEFINE Version(x) == [id |-> x.id, label |-> x.label, active |-> <<x>> = ActiveIn(outcomes, f),
                          corrects |-> x.corrects # None]
           history == {Version(x) : x \in {outcomes[i] : i \in OwnRows(outcomes, f)}}
<1>4. ScoreRecord(f).history = history
  BY DEF ScoreRecord
<1>5. \A x : Version(x).active <=> x = o
  <2>1. \A x : Version(x).active = (<<x>> = ActiveIn(outcomes, f))
    OBVIOUS
  <2>2. ActiveIn(outcomes, f) = <<o>>
    BY <1>1, <1>2
  <2>3. \A x : <<x>> = <<o>> <=> x = o
    <3>1. \A x : <<x>>[1] = x
      OBVIOUS
    <3> QED BY <3>1
  <2> HIDE DEF Version
  <2> QED BY <2>1, <2>2, <2>3
<1>6. Version(o) \in history /\ Version(o).label = o.label
  BY <1>1, <1>2 DEF OwnRows
<1>7. {h \in history : h.active} = {Version(o)}
  <2>1. \A h \in history : \E x : h = Version(x)
    OBVIOUS
  <2> HIDE DEF history, Version
  <2>2. \A h \in history : h.active => h = Version(o)
    BY <1>5, <2>1
  <2> QED BY <1>5, <1>6, <2>2
<1>8. history # {}
  BY <1>6
<1> HIDE DEF history, Version
<1>9. (CHOOSE h \in history : h.active) = Version(o)
  <2>1. \E h \in history : h.active
    BY <1>7
  <2>2. \A h \in history : h.active => h = Version(o)
    BY <1>7
  <2> QED BY <2>1, <2>2
<1>10. ~Ambiguous(ScoreRecord(f))
  BY <1>4, <1>7, FS_Singleton DEF Ambiguous
<1>11. ActiveOutcome(ScoreRecord(f)) = o.label
  BY <1>4, <1>6, <1>8, <1>9 DEF ActiveOutcome
<1>12. ActiveIn(outcomes, f)[1] = o
  BY <1>1, <1>2
<1> QED BY <1>3, <1>10, <1>11, <1>12

LEMMA RecordsFit == CardInv => RecordsOK
<1> SUFFICES ASSUME CardInv PROVE RecordsOK
  OBVIOUS
<1> USE DEF CardInv, VerdictInv, HistoryInv, LifeInv, LedgerInv
<1>1. Ids(forecasts) \subseteq ForecastIds
  BY DEF IdsFit
<1>2. IsFiniteSet(Ids(forecasts))
  <2> DEFINE all == 1..Len(forecasts)
             ids == Ids(forecasts)
             f == [i \in all |-> forecasts[i].id]
  <2>1. DOMAIN forecasts = all /\ Len(forecasts) \in Nat
    BY LogIsSequence DEF LogsOK
  <2>2. IsFiniteSet(all)
    BY <2>1, FS_Interval
  <2>3. f \in Surjection(all, ids)
    BY <2>1 DEF Surjection, Ids
  <2> HIDE DEF all, ids, f
  <2>4. IsFiniteSet(ids)
    BY <2>2, <2>3, FS_Surjection
  <2> QED BY <2>4 DEF ids
<1>3. ASSUME Alive, NEW f \in Ids(forecasts) PROVE RecordFits(f)
  <2>1. ScoreRecord(f).lifecycle = StatusIn(events, f)
    BY DEF ScoreRecord
  <2>2. IsDistribution(ScoreRecord(f).probabilities)
    <3>1. PICK k \in DOMAIN forecasts : Named(forecasts, f) = <<forecasts[k]>>
      BY NamedOrNot DEF LogsOK
    <3>2. PICK row : row = forecasts[k] /\ Head(Named(forecasts, f)) = row
      BY <3>1
    <3>3. row.judgment \in Ids(judgments)
      BY <3>2 DEF EvidenceIsExclusive, Chained
    <3>4. PICK i \in DOMAIN judgments : Named(judgments, row.judgment) = <<judgments[i]>>
      BY <3>3, NamedOrNot DEF LogsOK
    <3>5. PICK j : j = judgments[i] /\ Head(Named(judgments, row.judgment)) = j
      BY <3>4
    <3>6. j \in Publications /\ j.op = "judgment"
      BY <1>3, <3>4, <3>5 DEF JudgedOK, Alive
    <3>7. ScoreRecord(f).probabilities = j.probabilities
      BY <3>2, <3>5 DEF ScoreRecord
    <3> QED BY <3>6, <3>7, EvidenceAssumption
  <2>3. ScoreRecord(f).lifecycle = "resolved" => ScoreRecord(f).date # {}
    BY <1>3, <2>1 DEF ScoreRecord, AllGrounded, Passed
  <2> QED BY <1>3, <2>1, <2>2, <2>3, OneIsActive DEF RecordFits, StatusesOK
<1> QED BY <1>1, <1>2, <1>3 DEF RecordsOK

\* The records of the ledger beside the others are complete.
LEMMA RecordsAreComplete ==
  ASSUME RecordsOK, Alive
  PROVE  /\ Complete(Records)
         /\ \A r \in Records : r.id \in ForecastIds => r.id \in Ids(forecasts) /\ r = ScoreRecord(r.id)
<1> DEFINE own == {ScoreRecord(f) : f \in Ids(forecasts)}
<1>1. Records = own \cup Others
  BY DEF Records
<1>2. \A f : ScoreRecord(f).id = f /\ ScoreRecord(f).forecast
  BY DEF ScoreRecord
<1>3. IsFiniteSet(own)
  <2> DEFINE ids == Ids(forecasts)
             g == [f \in ids |-> ScoreRecord(f)]
  <2>1. g \in Surjection(ids, own)
    BY DEF Surjection
  <2> HIDE DEF g, ids, own
  <2> QED BY <2>1, FS_Surjection DEF RecordsOK, ids
<1>4. \A r \in own : r.id \in Ids(forecasts) /\ r = ScoreRecord(r.id) /\ RecordFits(r.id) /\ r.forecast
  BY <1>2 DEF RecordsOK
<1> HIDE DEF own
<1>5. \A r \in own : /\ r.lifecycle \in {"published", "resolved", "void", "failed"}
                     /\ IsDistribution(r.probabilities)
                     /\ r.lifecycle = "resolved" =>
                            r.date # {} /\ ~Ambiguous(r) /\ ActiveOutcome(r) # NoLabel
  BY <1>4 DEF RecordFits
<1>6. IsFiniteSet(own \cup Others)
  BY <1>3, OthersAssumption, FS_Union DEF Complete
<1>7. \A r \in own : r.id \in ForecastIds
  BY <1>4 DEF RecordsOK
<1>8. \A r, q \in own \cup Others : r.id = q.id => r = q
  BY <1>4, <1>7, OthersAssumption DEF Complete
<1>9. \A r \in own \cup Others :
          /\ r.lifecycle \in {"published", "resolved", "void", "failed"}
          /\ IsDistribution(r.probabilities)
          /\ r.lifecycle = "resolved" =>
                r.forecast /\ r.date # {} /\ ~Ambiguous(r) /\ ActiveOutcome(r) # NoLabel
  BY <1>4, <1>5, OthersAssumption DEF Complete
<1>10. Complete(Records)
  BY <1>1, <1>6, <1>8, <1>9 DEF Complete
<1> QED BY <1>1, <1>4, <1>10, OthersAssumption

\* The scorecard throws at no record of the ledger, has each of them under one
\* heading, scores the outcome that is active after any correction, and puts each
\* score into one bucket that has the minimum and whose bounds tell the truth:
\* for any minimums, any forecasts and any records of other cohorts.
THEOREM ScorecardIsTheLedgersHolds == Spec => []ScorecardIsTheLedgers
<1>1. RecordsOK => ScorecardIsTheLedgers
  <2> SUFFICES ASSUME RecordsOK, Alive PROVE ScorecardIsTheLedgers
    BY DEF ScorecardIsTheLedgers
  <2>1. Complete(Records)
    BY RecordsAreComplete
  <2>2. AggregateScorecard(Records).scores = {ScoreForecast(r) : r \in Scoreable(Records)}
    BY <2>1, CardIsWhole
  <2>3. ASSUME NEW s \in AggregateScorecard(Records).scores, s.forecast \in ForecastIds
        PROVE  s.outcome = ActiveIn(outcomes, s.forecast)[1].label
    <3>1. PICK r \in Scoreable(Records) : s = ScoreForecast(r)
      BY <2>2, <2>3
    <3>2. s.forecast = r.id /\ s.outcome = ActiveOutcome(r)
      BY <3>1 DEF ScoreForecast
    <3>3. r \in Records /\ r.lifecycle = "resolved"
      BY <3>1 DEF Scoreable, Prospective
    <3>4. r.id \in Ids(forecasts) /\ r = ScoreRecord(r.id)
      BY <2>3, <3>2, <3>3, RecordsAreComplete
    <3>5. RecordFits(r.id)
      BY <3>4 DEF RecordsOK
    <3>6. ActiveOutcome(r) = ActiveIn(outcomes, r.id)[1].label
      <4>1. PICK f, q : f = r.id /\ q = r /\ q = ScoreRecord(f)
        BY <3>4
      <4>2. q.lifecycle = "resolved" => ActiveOutcome(q) = ActiveIn(outcomes, f)[1].label
        BY <3>5, <4>1 DEF RecordFits
      <4> QED BY <3>3, <4>1, <4>2
    <3> QED BY <3>2, <3>6
  <2> QED BY <2>1, <2>3, CardIsWhole DEF ScorecardIsTheLedgers
<1> QED BY <1>1, RecordsFit, CardInvariance, PTL

-----------------------------------------------------------------------------
(* The claim is kept *)

\* A step of a behaviour that lives on changes nothing of a published forecast but
\* how it ended, and a resolution is for good.
LEMMA ResolvedForGood ==
  ASSUME VerdictInv, Alive, [Next]_vars
  PROVE  /\ UNCHANGED <<snapshots, judgments, decisions, forecasts>> /\ Alive'
         /\ \A f : StatusIn(events, f) = "resolved" => StatusIn(events', f) = "resolved"
<1> USE DEF VerdictInv, HistoryInv, LifeInv, LedgerInv
<1>1. CASE UNCHANGED ledgerVars
  BY <1>1 DEF ledgerVars, Alive
<1>2. ASSUME NEW r, WellTyped(r), Call(r), r.op \in {"resolve", "correct", "void"}
      PROVE  /\ UNCHANGED <<snapshots, judgments, decisions, forecasts>> /\ Alive'
             /\ \A f : StatusIn(events, f) = "resolved" => StatusIn(events', f) = "resolved"
  <2>1. UNCHANGED <<snapshots, judgments, decisions, forecasts, repertoire>>
    <3>1. \A op \in {"snapshot", "judgment", "decision", "publish"} : ~Makes(r, op)
      BY <1>2 DEF Makes
    <3>2. repertoire' = repertoire
      BY <1>2 DEF Call
    <3> QED BY <1>2, <3>1, <3>2, CallEffects
  <2>2. Alive'
    BY <2>1 DEF Alive
  <2>3. ASSUME NEW f, StatusIn(events, f) = "resolved" PROVE StatusIn(events', f) = "resolved"
    <3>1. CASE Settles(r)
      <4>1. StatusIn(events', f) \in {"resolved", StatusIn(events, f)}
        BY <1>2, <3>1, SettlementKeepsHistory
      <4> QED BY <2>3, <4>1
    <3>2. CASE Makes(r, "void")
      <4>1. StatusIn(events, r.event.forecast) = "published"
        BY <1>2, <3>2, VoidKeepsHistory
      <4>2. StatusIn(events', f) = IF f = r.event.forecast THEN "void" ELSE StatusIn(events, f)
        BY <1>2, <3>2, VoidKeepsHistory
      <4> QED BY <2>3, <4>1, <4>2
    <3>3. CASE ~Settles(r) /\ ~Makes(r, "void")
      <4>1. ~Makes(r, "publish")
        BY <1>2 DEF Makes
      <4>2. events' = events
        BY <1>2, <3>3, <4>1, CallEffects
      <4> QED BY <2>3, <4>2
    <3> QED BY <3>1, <3>2, <3>3
  <2> QED BY <2>1, <2>2, <2>3
<1>3. ~Calls /\ ~Housekeeping
  BY DEF Calls, Housekeeping, Alive
<1> QED BY <1>1, <1>2, <1>3, WriterSteps

\* The next sample carries on the present one.
LEMMA RecordsCarryOn ==
  ASSUME VerdictInv, RecordsOK, RecordsOK', Alive, [Next]_vars
  PROVE  CarriesOn(Records, Records')
<1> DEFINE ids == Ids(forecasts)
<1>1. /\ UNCHANGED <<snapshots, judgments, decisions, forecasts>> /\ Alive'
      /\ \A f : StatusIn(events, f) = "resolved" => StatusIn(events', f) = "resolved"
  BY ResolvedForGood
<1>2. Ids(forecasts') = ids
  BY <1>1
<1>3. PICK p, q : /\ p = [f \in ids |-> ScoreRecord(f)] /\ q = [f \in ids |-> ScoreRecord(f)']
  OBVIOUS
<1>4. PICK old, new : old = Records /\ new = Records'
  OBVIOUS
<1>5. old = {p[f] : f \in ids} \cup Others
  BY <1>3, <1>4 DEF Records
<1>6. new = {q[f] : f \in ids} \cup Others
  BY <1>2, <1>3, <1>4 DEF Records
<1>7. \A f \in ids : /\ p[f].id = f /\ q[f].id = f /\ f \in ForecastIds
                     /\ p[f].cohort = "prospective" /\ q[f].cohort = "prospective"
                     /\ p[f].attestation = q[f].attestation /\ q[f].forecast
                     /\ p[f].lifecycle \in {"published", "resolved", "void"}
                     /\ q[f].lifecycle \in {"published", "resolved", "void"}
                     /\ p[f].lifecycle = "resolved" => q[f].lifecycle = "resolved"
                     /\ q[f].lifecycle = "resolved" => ActiveOutcome(q[f]) # NoLabel
                     /\ p[f].date = q[f].date /\ p[f].horizon = q[f].horizon
  <2> SUFFICES ASSUME NEW f \in ids
               PROVE  /\ p[f].id = f /\ q[f].id = f /\ f \in ForecastIds
                      /\ p[f].cohort = "prospective" /\ q[f].cohort = "prospective"
                      /\ p[f].attestation = q[f].attestation /\ q[f].forecast
                      /\ p[f].lifecycle \in {"published", "resolved", "void"}
                      /\ q[f].lifecycle \in {"published", "resolved", "void"}
                      /\ p[f].lifecycle = "resolved" => q[f].lifecycle = "resolved"
                      /\ q[f].lifecycle = "resolved" => ActiveOutcome(q[f]) # NoLabel
                      /\ p[f].date = q[f].date /\ p[f].horizon = q[f].horizon
    OBVIOUS
  <2>1. p[f] = ScoreRecord(f) /\ q[f] = ScoreRecord(f)'
    BY <1>3
  <2>2. RecordFits(f) /\ RecordFits(f)' /\ f \in ForecastIds
    BY <1>1, <1>2 DEF RecordsOK
  <2>3. /\ p[f].id = f /\ p[f].cohort = "prospective" /\ p[f].lifecycle = StatusIn(events, f)
        /\ p[f].attestation = (IF f \in Timely THEN "timely" ELSE "late")
        /\ p[f].date = Target(f) /\ p[f].horizon = Head(Named(forecasts, f)).horizon
    BY <2>1 DEF ScoreRecord
  <2>4. /\ q[f].id = f /\ q[f].cohort = "prospective" /\ q[f].lifecycle = StatusIn(events', f)
        /\ q[f].attestation = (IF f \in Timely THEN "timely" ELSE "late") /\ q[f].forecast
        /\ q[f].date = Target(f)' /\ q[f].horizon = Head(Named(forecasts', f)).horizon
    BY <2>1 DEF ScoreRecord
  <2>5. Target(f)' = Target(f)
    BY <1>1 DEF Target, Terms
  <2>6. q[f].lifecycle = "resolved" => ActiveOutcome(q[f]) # NoLabel
    BY <2>1, <2>2 DEF RecordFits
  <2>7. p[f].lifecycle \in {"published", "resolved", "void"}
        /\ q[f].lifecycle \in {"published", "resolved", "void"}
    BY <2>1, <2>2 DEF RecordFits
  <2> QED BY <1>1, <2>2, <2>3, <2>4, <2>5, <2>6, <2>7
<1>8. IsFiniteSet(new)
  <2>1. IsFiniteSet(ids) /\ IsFiniteSet(Others)
    BY OthersAssumption DEF RecordsOK, Complete
  <2>2. q \in [ids -> {q[f] : f \in ids}] /\ \A y \in {q[f] : f \in ids} : \E f \in ids : q[f] = y
    BY <1>3
  <2>3. IsFiniteSet({q[f] : f \in ids})
    BY <2>1, <2>2, FS_Surjection, Zenon DEF Surjection
  <2> QED BY <1>6, <2>1, <2>3, FS_Union
<1> HIDE DEF ids
<1> DEFINE g == [r \in old |-> IF r \in Others THEN r ELSE q[r.id]]
<1>9. \A f \in ids : p[f] \in old /\ p[f] \notin Others /\ q[f] \notin Others /\ q[f] \in new
  BY <1>5, <1>6, <1>7, OthersAssumption
<1>10. \A r \in old : \/ r \in Others /\ g[r] = r
                      \/ \E f \in ids : r = p[f] /\ g[r] = q[f]
  BY <1>5, <1>7, <1>9
<1>11. g \in [old -> new]
  BY <1>5, <1>6, <1>9, <1>10
<1> HIDE DEF g
<1>12. \A r, s \in old : g[r] = g[s] => r = s
  BY <1>7, <1>9, <1>10
<1>13. \A r \in old : g[r].date = r.date /\ g[r].horizon = r.horizon
  BY <1>7, <1>10
<1>14. \A r \in Scoreable(old) : g[r] \in Scoreable(new)
  <2> SUFFICES ASSUME NEW r \in Scoreable(old) PROVE g[r] \in Scoreable(new)
    OBVIOUS
  <2>1. r \in old /\ r.lifecycle = "resolved" /\ r.attestation = "timely"
        /\ r.cohort = "prospective" /\ r.forecast /\ ActiveOutcome(r) # NoLabel
    BY DEF Scoreable, Prospective
  <2>2. g[r] \in new
    BY <1>11, <2>1
  <2>3. CASE r \in Others /\ g[r] = r
    BY <2>1, <2>2, <2>3 DEF Scoreable, Prospective
  <2>4. ASSUME NEW f \in ids, r = p[f], g[r] = q[f] PROVE g[r] \in Scoreable(new)
    BY <1>7, <2>1, <2>2, <2>4 DEF Scoreable, Prospective
  <2> QED BY <1>10, <2>1, <2>3, <2>4
<1>15. {r.horizon : r \in PublishedRecords(new)} = {r.horizon : r \in PublishedRecords(old)}
  <2>1. \A f \in ids : p[f] \in PublishedRecords(old) /\ q[f] \in PublishedRecords(new)
    BY <1>7, <1>9 DEF PublishedRecords, Prospective
  <2>2. \A r \in PublishedRecords(old) :
            \/ r \in Others /\ r \in PublishedRecords(new)
            \/ \E f \in ids : r = p[f]
    BY <1>5, <1>6 DEF PublishedRecords, Prospective
  <2>3. \A r \in PublishedRecords(new) :
            \/ r \in Others /\ r \in PublishedRecords(old)
            \/ \E f \in ids : r = q[f]
    BY <1>5, <1>6 DEF PublishedRecords, Prospective
  <2>4. \A r \in PublishedRecords(old) : \E s \in PublishedRecords(new) : s.horizon = r.horizon
    BY <1>7, <2>1, <2>2
  <2>5. \A r \in PublishedRecords(new) : \E s \in PublishedRecords(old) : s.horizon = r.horizon
    BY <1>7, <2>1, <2>3
  <2> QED BY <2>4, <2>5
<1>16. CarriesOn(old, new)
  BY <1>8, <1>11, <1>12, <1>13, <1>14, <1>15 DEF CarriesOn
<1> QED BY <1>4, <1>16

\* Once the sample carries a claim it carries it for good while nothing new is
\* published, whatever is resolved, given up or corrected (comparisonReady).
THEOREM ClaimIsKeptHolds == Spec => ClaimIsKept
<1>1. VerdictInv /\ RecordsOK /\ RecordsOK' /\ [Next]_vars
        => [Alive /\ ComparisonReady(Records) => ComparisonReady(Records)']_vars
  <2> SUFFICES ASSUME VerdictInv, RecordsOK, RecordsOK', [Next]_vars, Alive,
                      ComparisonReady(Records)
               PROVE  ComparisonReady(Records)'
    OBVIOUS
  <2>1. PICK old, new : old = Records /\ new = Records'
    OBVIOUS
  <2>2. CarriesOn(old, new) /\ ComparisonReady(old)
    BY <2>1, RecordsCarryOn
  <2>3. ComparisonReady(new)
    BY <2>2, ClaimCarriesOn
  <2> QED BY <2>1, <2>3
<1>2. CardInv => VerdictInv /\ RecordsOK
  BY RecordsFit DEF CardInv
<1> QED BY <1>1, <1>2, CardInvariance, PTL DEF Spec, ClaimIsKept
=============================================================================
