---------------------------- MODULE EvidenceProofs ---------------------------
(***************************************************************************)
(* Proofs about the way from the market to a decision, for every calendar, *)
(* every price, revision, action and event a provider may publish, every   *)
(* length of the windows, every reply and any number of answers.           *)
(*                                                                         *)
(* The invariant EvidenceInv says where everything came from: what is      *)
(* published is material with an instant put in, with an id of its own; an *)
(* answer is Answer of what was known at some instant that has passed; the *)
(* evaluation is one of such an answer.  Later publications have later     *)
(* instants (AddsLater), so what an answer was made of never changes.      *)
(*                                                                         *)
(* The rest is about one answer and pure operators.  Those that work       *)
(* through a sequence are folds, and FoldInduction has their induction:    *)
(* a filter keeps its order (AmongKeeps), a total and Wilder's average     *)
(* stay within bounds of what they add up (TotalWithin, AverageWithin).    *)
(*                                                                         *)
(* Two hypotheses appear: VolatilityIsANumber, of the one feature the      *)
(* model leaves open, and EntryIsStricter, of the thresholds of a policy,  *)
(* which PolicyV1IsStricter shows of the policy the program has.           *)
(***************************************************************************)
EXTENDS Evidence, FiniteSetTheorems, SequenceTheorems, TLAPS

-----------------------------------------------------------------------------
(* Bars in the order of their sessions *)

\* A later place has a later session.
Rising(s) == \A i, j \in DOMAIN s : i < j => s[i].session < s[j].session

\* Up to which place the sessions of a rising sequence are.
LEMMA PlaceInRising ==
  ASSUME NEW T, \A x \in T : x.session \in Nat, NEW s \in Seq(T), Rising(s), NEW n \in DOMAIN s
  PROVE  Cardinality({x \in ToSet(s) : x.session <= s[n].session}) = n
<1> DEFINE R == {x \in ToSet(s) : x.session <= s[n].session}
           f == [k \in 1..n |-> s[k]]
<1>1. \A k \in 1..n : k \in DOMAIN s
  OBVIOUS
<1>2. f \in Bijection(1..n, R)
  <2>1. \A k \in DOMAIN s : s[k] \in T /\ s[k].session \in Nat
    OBVIOUS
  <2>2. \A k \in 1..n : s[k] \in R
    <3> SUFFICES ASSUME NEW k \in 1..n PROVE s[k].session <= s[n].session /\ s[k] \in ToSet(s)
      OBVIOUS
    <3>1. CASE k = n
      BY <2>1, <3>1, <1>1 DEF ToSet
    <3>2. CASE k < n
      BY <2>1, <3>2, <1>1 DEF ToSet, Rising
    <3> QED BY <3>1, <3>2
  <2>3. \A k, m \in 1..n : s[k] = s[m] => k = m
    <3> SUFFICES ASSUME NEW k \in 1..n, NEW m \in 1..n, k < m PROVE s[k] # s[m]
      OBVIOUS
    <3> QED BY <1>1, <2>1 DEF Rising
  <2>4. ASSUME NEW x \in R PROVE \E k \in 1..n : f[k] = x
    <3>1. PICK k \in DOMAIN s : x = s[k]
      BY DEF ToSet
    <3>2. k <= n
      BY <3>1, <2>1 DEF Rising
    <3> QED BY <3>1, <3>2
  <2>5. f \in [1..n -> R]
    BY <2>2
  <2>6. \A k, m \in 1..n : f[k] = f[m] => k = m
    BY <2>3
  <2> HIDE DEF f, R
  <2>7. f \in Injection(1..n, R)
    BY <2>5, <2>6 DEF Injection, IsInjective
  <2>8. f \in Surjection(1..n, R)
    BY <2>5, <2>4 DEF Surjection
  <2> QED BY <2>7, <2>8 DEF Bijection
<1> HIDE DEF f, R
<1>3. IsFiniteSet(1..n) /\ Cardinality(1..n) = n
  BY FS_Interval
<1> QED BY <1>2, <1>3, FS_Bijection DEF ExistsBijection, R

\* There is but one way to put bars in order.
LEMMA RisingIsUnique ==
  ASSUME NEW T, \A x \in T : x.session \in Nat, NEW s \in Seq(T), NEW t \in Seq(T),
         Rising(s), Rising(t), ToSet(s) = ToSet(t)
  PROVE  s = t
<1>1. \A i \in DOMAIN s : Cardinality({x \in ToSet(s) : x.session <= s[i].session}) = i
  BY PlaceInRising
<1>2. \A i \in DOMAIN t : Cardinality({x \in ToSet(t) : x.session <= t[i].session}) = i
  BY PlaceInRising
<1>3. \A i \in DOMAIN s : i \in DOMAIN t /\ s[i] = t[i]
  <2> SUFFICES ASSUME NEW i \in DOMAIN s PROVE i \in DOMAIN t /\ s[i] = t[i]
    OBVIOUS
  <2>1. PICK j \in DOMAIN t : s[i] = t[j]
    BY DEF ToSet
  <2> QED BY <1>1, <1>2, <2>1
<1>4. \A i \in DOMAIN t : i \in DOMAIN s
  <2> SUFFICES ASSUME NEW i \in DOMAIN t PROVE i \in DOMAIN s
    OBVIOUS
  <2>1. PICK j \in DOMAIN s : t[i] = s[j]
    BY DEF ToSet
  <2> QED BY <1>1, <1>2, <2>1
<1>5. DOMAIN s = DOMAIN t
  BY <1>3, <1>4
<1>6. s = [i \in DOMAIN s |-> s[i]] /\ t = [i \in DOMAIN t |-> t[i]]
  OBVIOUS
<1> QED BY <1>3, <1>5, <1>6

\* Among, a filter, as a fold
Keeping == INSTANCE FoldInduction WITH
              Op <- LAMBDA S, kept, x : IF x \in S THEN Append(kept, x) ELSE kept,
              Base <- LAMBDA S : <<>>

\* The induction of FoldInduction is about Among.
LEMMA AmongIsFold == \A S, seq : Among(S, seq) = Keeping!Fold(S, seq)
BY DEF Among, Keeping!Fold, Keeping!FoldLeft, Keeping!MapThenFoldSet, Keeping!Max, FoldLeft,
   MapThenFoldSet, Max

\* A filter keeps what it is to keep, and the order.
LEMMA AmongKeeps ==
  ASSUME NEW T, NEW S, NEW seq \in Seq(T)
  PROVE  /\ Among(S, seq) \in Seq(T)
         /\ ToSet(Among(S, seq)) = ToSet(seq) \cap S
         /\ Rising(seq) => Rising(Among(S, seq))
<1> DEFINE P == {s \in Seq(T) : /\ Among(S, s) \in Seq(T)
                                /\ ToSet(Among(S, s)) = ToSet(s) \cap S
                                /\ Rising(s) => Rising(Among(S, s))}
<1>1. <<>> \in P
  <2>1. Among(S, <<>>) = <<>>
    BY AmongIsFold, Keeping!FoldEmpty
  <2>2. <<>> \in Seq(T) /\ DOMAIN <<>> = {}
    OBVIOUS
  <2>3. ToSet(<<>>) = {} /\ Rising(<<>>)
    BY <2>2 DEF ToSet, Rising
  <2> QED BY <2>1, <2>2, <2>3
<1>2. ASSUME NEW s \in Seq(T), NEW e \in T, s \in P PROVE Append(s, e) \in P
  <2>1. Among(S, Append(s, e)) = IF e \in S THEN Append(Among(S, s), e) ELSE Among(S, s)
    BY AmongIsFold, Keeping!FoldAppend
  <2>2. PICK kept : kept = Among(S, s)
    OBVIOUS
  <2>3. kept \in Seq(T) /\ ToSet(kept) = ToSet(s) \cap S /\ (Rising(s) => Rising(kept))
    BY <1>2, <2>2
  <2>4. ToSet(Append(s, e)) = ToSet(s) \cup {e} /\ ToSet(Append(kept, e)) = ToSet(kept) \cup {e}
    <3>1. \A u \in Seq(T) : ToSet(Append(u, e)) = ToSet(u) \cup {e}
      <4> SUFFICES ASSUME NEW u \in Seq(T) PROVE ToSet(Append(u, e)) = ToSet(u) \cup {e}
        OBVIOUS
      <4>1. DOMAIN Append(u, e) = DOMAIN u \cup {Len(u) + 1}
        OBVIOUS
      <4>2. \A i \in DOMAIN u : Append(u, e)[i] = u[i]
        OBVIOUS
      <4>3. Append(u, e)[Len(u) + 1] = e
        OBVIOUS
      <4> QED BY <4>1, <4>2, <4>3 DEF ToSet
    <3> QED BY <2>3, <3>1
  <2>5. ASSUME Rising(Append(s, e))
        PROVE  Rising(s) /\ \A x \in ToSet(s) : x.session < e.session
    <3>1. \A i \in DOMAIN s : Append(s, e)[i] = s[i] /\ i < Len(s) + 1 /\ i \in DOMAIN Append(s, e)
      OBVIOUS
    <3>2. Append(s, e)[Len(s) + 1] = e /\ Len(s) + 1 \in DOMAIN Append(s, e)
      OBVIOUS
    <3> QED BY <2>5, <3>1, <3>2 DEF Rising, ToSet
  <2>6. ASSUME Rising(Append(s, e)) PROVE Rising(Append(kept, e)) /\ Rising(kept)
    <3>1. Rising(kept) /\ \A i \in DOMAIN kept : kept[i].session < e.session
      BY <2>3, <2>5, <2>6 DEF ToSet
    <3> QED BY <2>3, <3>1 DEF Rising
  <2>7. CASE e \in S
    <3>1. Among(S, Append(s, e)) = Append(kept, e)
      BY <2>1, <2>2, <2>7
    <3>2. ToSet(Append(kept, e)) = ToSet(Append(s, e)) \cap S
      BY <2>3, <2>4, <2>7
    <3>3. Append(kept, e) \in Seq(T) /\ Append(s, e) \in Seq(T)
      BY <2>3
    <3> QED BY <2>6, <3>1, <3>2, <3>3
  <2>8. CASE e \notin S
    <3>1. Among(S, Append(s, e)) = kept
      BY <2>1, <2>2, <2>8
    <3>2. ToSet(kept) = ToSet(Append(s, e)) \cap S
      BY <2>3, <2>4, <2>8
    <3> QED BY <2>3, <2>6, <3>1, <3>2
  <2> QED BY <2>7, <2>8
<1>3. \A s \in Seq(T) : s \in P
  <2> HIDE DEF P
  <2> QED BY <1>1, <1>2, Keeping!SeqSetInduction
<1> QED BY <1>3

\* InOrder puts bars in order, each of which has a session of its own.
LEMMA InOrderRises ==
  ASSUME NEW R, IsFiniteSet(R), \A x \in R : x.session \in Nat,
         \A x, y \in R : x.session = y.session => x = y
  PROVE  InOrder(R) \in Seq(R) /\ Rising(InOrder(R)) /\ ToSet(InOrder(R)) = R
<1> DEFINE Place(b) == Cardinality({x \in R : x.session <= b.session})
           p == [b \in R |-> Place(b)]
<1>1. PICK n \in Nat : n = Cardinality(R)
  BY FS_CardinalityType
<1>2. \A b \in R : IsFiniteSet({x \in R : x.session <= b.session})
  BY FS_Subset
<1>3. ASSUME NEW b \in R PROVE Place(b) \in 1..n
  <2>1. Place(b) \in Nat /\ Place(b) <= n
    BY <1>1, <1>2, FS_Subset, FS_CardinalityType
  <2>2. Place(b) # 0
    <3>1. b \in {x \in R : x.session <= b.session}
      OBVIOUS
    <3> QED BY <3>1, <1>2, FS_EmptySet
  <2> QED BY <2>1, <2>2
<1>4. ASSUME NEW b \in R, NEW c \in R, b.session < c.session PROVE Place(b) < Place(c)
  <2> DEFINE B == {x \in R : x.session <= b.session}
             C == {x \in R : x.session <= c.session}
  <2>1. B \in SUBSET C /\ c \in C /\ c \notin B
    BY <1>4
  <2>2. IsFiniteSet(C)
    BY <1>2
  <2> HIDE DEF B, C
  <2>3. Cardinality(B) <= Cardinality(C) /\ Cardinality(B) # Cardinality(C)
    BY <2>1, <2>2, FS_Subset
  <2>4. Cardinality(B) \in Nat /\ Cardinality(C) \in Nat
    BY <2>1, <2>2, FS_Subset, FS_CardinalityType
  <2>5. Cardinality(B) < Cardinality(C)
    BY <2>3, <2>4
  <2> QED BY <2>5 DEF B, C
<1>5. \A b, c \in R : p[b] = p[c] => b = c
  <2> SUFFICES ASSUME NEW b \in R, NEW c \in R, p[b] = p[c], b # c PROVE FALSE
    OBVIOUS
  <2>1. b.session < c.session \/ c.session < b.session
    OBVIOUS
  <2>2. p[b] < p[c] \/ p[c] < p[b]
    BY <2>1, <1>4
  <2>3. p[b] \in Nat /\ p[c] \in Nat
    BY <1>3
  <2> QED BY <2>2, <2>3
<1>6. \A i \in 1..n : \E b \in R : p[b] = i
  <2>1. p \in Injection(R, 1..n)
    <3>1. p \in [R -> 1..n]
      BY <1>3
    <3> HIDE DEF p
    <3> QED BY <3>1, <1>5 DEF Injection, IsInjective
  <2>2. IsFiniteSet(1..n) /\ Cardinality(1..n) = n
    BY FS_Interval
  <2> HIDE DEF p
  <2>3. p \in Surjection(R, 1..n)
    BY <1>1, <2>1, <2>2, FS_Injection
  <2> QED BY <2>3 DEF Surjection
<1> DEFINE s == InOrder(R)
<1>7. s = [i \in 1..n |-> CHOOSE b \in R : Place(b) = i]
  BY <1>1 DEF InOrder
<1>8. \A i \in 1..n : s[i] \in R /\ p[s[i]] = i
  <2> SUFFICES ASSUME NEW i \in 1..n PROVE s[i] \in R /\ p[s[i]] = i
    OBVIOUS
  <2>1. \E b \in R : Place(b) = i
    BY <1>6
  <2>2. s[i] = CHOOSE b \in R : Place(b) = i
    BY <1>7
  <2> HIDE DEF Place, s
  <2>3. s[i] \in R /\ Place(s[i]) = i
    BY <2>1, <2>2
  <2> QED BY <2>3
<1>9. DOMAIN s = 1..n
  BY <1>7
<1>10. s \in Seq(R)
  <2>1. s = [i \in 1..n |-> s[i]]
    BY <1>7
  <2>2. \A i \in 1..n : s[i] \in R
    BY <1>8
  <2> HIDE DEF Place, s
  <2> QED BY <2>1, <2>2
<1>11. \A b, c \in R : p[b] < p[c] => b.session < c.session
  <2> SUFFICES ASSUME NEW b \in R, NEW c \in R, p[b] < p[c], ~(b.session < c.session) PROVE FALSE
    OBVIOUS
  <2>1. b = c \/ c.session < b.session
    OBVIOUS
  <2>2. p[b] \in Nat /\ p[c] \in Nat
    BY <1>3
  <2>3. c.session < b.session => p[c] < p[b]
    BY <1>4
  <2> QED BY <2>1, <2>2, <2>3
<1> HIDE DEF p, s
<1>12. Rising(s)
  BY <1>8, <1>9, <1>11 DEF Rising
<1>13. ToSet(s) = R
  <2>1. \A b \in R : p[b] \in 1..n
    BY <1>3 DEF p
  <2>2. \A b \in R : s[p[b]] = b
    BY <1>5, <1>8, <2>1
  <2> QED BY <1>8, <1>9, <2>1, <2>2 DEF ToSet
<1> QED BY <1>10, <1>12, <1>13 DEF s

\* The bars of an answer up to a cutoff, in order
LEMMA BarsInOrder ==
  ASSUME NEW R, IsFiniteSet(R), \A x \in R : x.session \in Nat,
         \A x, y \in R : x.session = y.session => x = y, NEW c
  PROVE  /\ BarsUntil(InOrder(R), c) \in Seq(R)
         /\ Rising(BarsUntil(InOrder(R), c))
         /\ ToSet(BarsUntil(InOrder(R), c)) = {b \in R : b.session <= c}
<1>1. InOrder(R) \in Seq(R) /\ Rising(InOrder(R)) /\ ToSet(InOrder(R)) = R
  BY InOrderRises
<1>2. BarsUntil(InOrder(R), c) = Among({b \in R : b.session <= c}, InOrder(R))
  BY <1>1 DEF BarsUntil
<1> QED BY <1>1, <1>2, AmongKeeps

-----------------------------------------------------------------------------
(* What was published, answered and evaluated *)

\* What was published up to an instant
KnownAt(t) == {f \in published : f.available <= t}

\* What is published is material, with an instant that has passed; no bar was
\* there before its session, and an id names one thing.
PublishedInv ==
    /\ now \in 0..LastInstant /\ 2 * FirstDay <= now
    /\ IsFiniteSet(published)
    /\ \A f \in published : \E x \in Material, t \in 0..now : f = At(x, t)
    /\ \A f \in published : f.kind = "bar" => 2 * f.session <= f.available
    /\ \A f, g \in published : f.id = g.id => f = g

\* An answer shows what was known at an instant that has passed.
AnswersInv == \A p \in answers : \E r \in Requests, t \in 0..now : p = Answer(KnownAt(t), r, t)

\* The evaluation is of an answer there is, at this instant.
EvaluationInv ==
    evaluation # <<>> =>
        \E p \in answers : \E s \in BuildMarketSnapshot(p, p.cutoff, now), c \in Contracts,
                              reply \in Replies :
            LET judgment == IF ReplyAccepted(reply, {Requested}) THEN AnswersOf(reply) ELSE NoJudgment
            IN  evaluation = <<[state |-> s.state, judgment |-> judgment, mode |-> c.mode,
                                action |-> Decision(c.mode, s.state, judgment)]>>

\* Where everything came from
EvidenceInv == PublishedInv /\ AnswersInv /\ EvaluationInv

\* Publication puts the instant in and leaves the rest.
LEMMA AtFields ==
  ASSUME NEW x \in Material, NEW t \in Nat
  PROVE  /\ At(x, t) \in Bars \cup Actions \cup Events
         /\ At(x, t).available = t /\ At(x, t).id = x.id /\ At(x, t).kind = x.kind
         /\ At(x, t).of = x.of
         /\ x.kind = "bar" => /\ x \in Bars /\ At(x, t) \in Bars
                              /\ At(x, t).session = x.session /\ At(x, t).revision = x.revision
         /\ x.kind = "action" => At(x, t) \in Actions
         /\ x.kind = "event" => At(x, t) \in Events
<1>1. x \in Bars \cup Actions \cup Events
  BY MaterialAssumption
<1>2. CASE x \in Bars
  <2>1. At(x, t) \in Bars
    BY <1>2 DEF At, Bars
  <2> QED BY <1>2, <2>1 DEF At, Bars
<1>3. CASE x \in Actions
  <2>1. At(x, t) \in Actions
    BY <1>3 DEF At, Actions
  <2> QED BY <1>3, <2>1 DEF At, Actions
<1>4. CASE x \in Events
  <2>1. At(x, t) \in Events
    BY <1>4 DEF At, Events
  <2> QED BY <1>4, <2>1 DEF At, Events
<1> QED BY <1>1, <1>2, <1>3, <1>4

\* The bars of a session are published at its first instant.
LEMMA RegularBarsAre ==
  ASSUME NEW d \in SessionDays
  PROVE  /\ d \in Nat /\ IsFiniteSet(RegularBars(d))
         /\ \A f \in RegularBars(d) :
               /\ \E x \in Material : f = At(x, 2 * d) /\ x.kind = "bar" /\ x.session = d
               /\ f.kind = "bar" /\ f.session = d /\ f.available = 2 * d
         /\ \A f, g \in RegularBars(d) : f.id = g.id => f = g
<1>1. d \in Nat
  BY InstantAssumption DEF SessionDays, ToSet
<1>2. RegularBars(d) = {At(BaseBar("symbol", d), 2 * d), At(BaseBar("benchmark", d), 2 * d)}
  BY DEF RegularBars, Named
<1>3. IsFiniteSet(RegularBars(d))
  <2>1. \A x, y : IsFiniteSet({x, y})
    <3> SUFFICES ASSUME NEW x, NEW y PROVE IsFiniteSet({x, y})
      OBVIOUS
    <3>1. IsFiniteSet({x}) /\ IsFiniteSet({y})
      BY FS_Singleton
    <3>2. {x, y} = {x} \cup {y}
      OBVIOUS
    <3> QED BY <3>1, <3>2, FS_Union
  <2> QED BY <1>2, <2>1
<1>4. ASSUME NEW f \in RegularBars(d)
      PROVE  \E x \in Material : /\ f = At(x, 2 * d) /\ x.kind = "bar" /\ x.session = d
                                 /\ f.kind = "bar" /\ f.session = d /\ f.available = 2 * d
                                 /\ f.id = x.id
  <2>1. PICK of \in Named : f = At(BaseBar(of, d), 2 * d)
    BY DEF RegularBars
  <2>2. BaseBar(of, d) \in Material /\ BaseBar(of, d).kind = "bar" /\ BaseBar(of, d).session = d
    BY MaterialAssumption DEF Material
  <2>3. 2 * d \in Nat
    BY <1>1
  <2> QED BY <2>1, <2>2, <2>3, AtFields
<1>5. ASSUME NEW f \in RegularBars(d), NEW g \in RegularBars(d), f.id = g.id PROVE f = g
  <2>1. PICK x \in Material : f = At(x, 2 * d) /\ f.id = x.id
    BY <1>4
  <2>2. PICK y \in Material : g = At(y, 2 * d) /\ g.id = y.id
    BY <1>4
  <2>3. x = y
    BY <1>5, <2>1, <2>2, MaterialAssumption
  <2> QED BY <2>1, <2>2, <2>3
<1> QED BY <1>1, <1>3, <1>4, <1>5

\* The bars of the days up to the first are there, each once.
LEMMA InitPublished == Init => EvidenceInv
<1> SUFFICES ASSUME Init PROVE EvidenceInv
  OBVIOUS
<1> USE DEF Init
<1>1. FirstDay \in Nat /\ now \in 0..LastInstant /\ 2 * FirstDay <= now
  BY InstantAssumption
<1> DEFINE days == {d \in SessionDays : d <= FirstDay}
           bars == {RegularBars(d) : d \in days}
<1>2. \A f \in published : \E d \in days : f \in RegularBars(d)
  OBVIOUS
<1>3. IsFiniteSet(published)
  <2>1. \A d \in days : d \in 0..FirstDay
    BY <1>1, RegularBarsAre
  <2>2. IsFiniteSet(days)
    <3>1. days \in SUBSET (0..FirstDay) /\ IsFiniteSet(0..FirstDay)
      BY <1>1, <2>1, FS_Interval
    <3> QED BY <3>1, FS_Subset
  <2>3. IsFiniteSet(bars)
    <3> DEFINE g == [d \in days |-> RegularBars(d)]
    <3>1. g \in Surjection(days, bars)
      BY DEF Surjection
    <3> HIDE DEF g, bars, days
    <3> QED BY <2>2, <3>1, FS_Surjection
  <2>4. \A B \in bars : IsFiniteSet(B)
    BY RegularBarsAre
  <2>5. published = UNION bars
    OBVIOUS
  <2> HIDE DEF bars
  <2> QED BY <2>3, <2>4, <2>5, FS_UNION
<1>4. ASSUME NEW f \in published
      PROVE  /\ \E x \in Material, t \in 0..now : f = At(x, t)
             /\ f.kind = "bar" => 2 * f.session <= f.available
  <2>1. PICK d \in days : f \in RegularBars(d)
    BY <1>2
  <2>2. d \in Nat /\ 2 * d \in 0..now
    BY <1>1, RegularBarsAre
  <2> QED BY <2>1, <2>2, RegularBarsAre
<1>5. ASSUME NEW f \in published, NEW g \in published, f.id = g.id PROVE f = g
  <2>1. PICK d \in days : f \in RegularBars(d)
    BY <1>2
  <2>2. PICK e \in days : g \in RegularBars(e)
    BY <1>2
  <2>3. PICK x \in Material : f = At(x, 2 * d) /\ x.session = d
    BY <2>1, RegularBarsAre
  <2>4. PICK y \in Material : g = At(y, 2 * e) /\ y.session = e
    BY <2>2, RegularBarsAre
  <2>5. 2 * d \in Nat /\ 2 * e \in Nat
    BY RegularBarsAre
  <2>6. x = y
    BY <1>5, <2>3, <2>4, <2>5, AtFields, MaterialAssumption
  <2> QED BY <2>3, <2>4, <2>6
<1>6. PublishedInv
  BY <1>1, <1>3, <1>4, <1>5 DEF PublishedInv
<1>7. AnswersInv /\ EvaluationInv
  BY DEF AnswersInv, EvaluationInv
<1> QED BY <1>6, <1>7 DEF EvidenceInv

\* Whatever is published has the shape of one of the materials, and an instant.
LEMMA PublishedAre ==
  ASSUME PublishedInv, NEW f \in published
  PROVE  /\ f \in Bars \cup Actions \cup Events
         /\ f.kind = "bar" => f \in Bars
         /\ f.kind = "action" => f \in Actions
         /\ f.kind = "event" => f \in Events
         /\ f.available \in 0..now
         /\ \E x \in Material : /\ f.id = x.id /\ f.kind = x.kind /\ f = At(x, f.available)
                                /\ f.of = x.of
                                /\ f.kind = "bar" => /\ f.session = x.session
                                                     /\ f.revision = x.revision
<1>1. PICK x \in Material, t \in 0..now : f = At(x, t)
  BY DEF PublishedInv
<1>2. t \in Nat
  OBVIOUS
<1> QED BY <1>1, <1>2, AtFields

\* What is published later changes nothing that was known before.
LEMMA AddsLater ==
  ASSUME PublishedInv, NEW B, published' = published \cup B, IsFiniteSet(B),
         now' \in now..LastInstant,
         \A f \in B : \E x \in Material : f = At(x, now'),
         \A f \in B : f.kind = "bar" => 2 * f.session <= now',
         \A f, g \in B : f.id = g.id => f = g,
         \A f \in published, g \in B : f.id # g.id
  PROVE  PublishedInv' /\ \A t \in 0..(now' - 1) : KnownAt(t)' = KnownAt(t)
<1>1. now \in Nat /\ now' \in Nat /\ now <= now' /\ now' \in 0..LastInstant /\ 2 * FirstDay <= now'
  BY InstantAssumption DEF PublishedInv
<1>2. \A f \in B : f.available = now'
  BY <1>1, AtFields
<1>3. IsFiniteSet(published')
  BY FS_Union DEF PublishedInv
<1>4. \A f \in published' : \E x \in Material, t \in 0..now' : f = At(x, t)
  <2> SUFFICES ASSUME NEW f \in published' PROVE \E x \in Material, t \in 0..now' : f = At(x, t)
    OBVIOUS
  <2>1. CASE f \in published
    <3>1. PICK x \in Material, t \in 0..now : f = At(x, t)
      BY <2>1 DEF PublishedInv
    <3>2. t \in 0..now'
      BY <1>1
    <3> QED BY <3>1, <3>2
  <2>2. CASE f \in B
    <3>1. now' \in 0..now'
      BY <1>1
    <3> QED BY <2>2, <3>1
  <2> QED BY <2>1, <2>2
<1>5. \A f \in published' : f.kind = "bar" => 2 * f.session <= f.available
  BY <1>2 DEF PublishedInv
<1>6. \A f, g \in published' : f.id = g.id => f = g
  BY DEF PublishedInv
<1>7. PublishedInv'
  BY <1>1, <1>3, <1>4, <1>5, <1>6 DEF PublishedInv
<1>8. PICK n \in Nat : n = now'
  BY <1>1
<1>9. ASSUME NEW t \in 0..(n - 1) PROVE KnownAt(t)' = KnownAt(t)
  <2>1. t \in Nat /\ t < n
    OBVIOUS
  <2>2. \A f \in B : f.available = n
    BY <1>2, <1>8
  <2>3. \A f \in B : ~(f.available <= t)
    BY <2>1, <2>2
  <2> QED BY <2>3 DEF KnownAt
<1> QED BY <1>7, <1>8, <1>9

\* A new day adds bars that were not there.
LEMMA TicksKeeps == ASSUME EvidenceInv, Ticks PROVE EvidenceInv'
<1>0. PublishedInv /\ AnswersInv /\ EvaluationInv
  BY DEF EvidenceInv
<1>1. now \in Nat /\ now' = now + 1 /\ now' \in now..LastInstant /\ now' \in 0..LastInstant
      /\ now' \in Nat
  BY <1>0, InstantAssumption DEF Ticks, PublishedInv
<1> DEFINE d == DayOf(now')
           B == IF now' % 2 = 0 /\ d \in SessionDays THEN RegularBars(d) ELSE {}
<1>2. published' = published \cup B
  BY DEF Ticks
<1>3. d = now' \div 2
  BY <1>1, InstantAssumption
<1>4. B # {} => 2 * d = now' /\ d \in SessionDays /\ d \in Nat /\ B = RegularBars(d)
  <2> SUFFICES ASSUME now' % 2 = 0, d \in SessionDays PROVE 2 * d = now' /\ d \in Nat
    OBVIOUS
  <2>1. PICK n \in Nat : n = now'
    BY <1>1
  <2>2. n % 2 = 0 => 2 * (n \div 2) = n
    OBVIOUS
  <2>3. n \div 2 \in Nat
    OBVIOUS
  <2> QED BY <1>3, <2>1, <2>2, <2>3
<1> HIDE DEF d
<1>5. IsFiniteSet(B) /\ \A f, g \in B : f.id = g.id => f = g
  BY <1>4, RegularBarsAre, FS_EmptySet
<1>6. \A f \in B : /\ f.kind = "bar" /\ f.session = d /\ 2 * d = now' /\ d \in Nat
                   /\ \E x \in Material : f = At(x, now') /\ x.kind = "bar" /\ x.session = d
  BY <1>4, RegularBarsAre
<1>7. ASSUME NEW f \in published, NEW g \in B, f.id = g.id PROVE FALSE
  <2>1. PICK y \in Material : g = At(y, now') /\ y.kind = "bar" /\ y.session = d
    BY <1>6
  <2>2. PICK x \in Material : /\ f.id = x.id /\ f.kind = x.kind
                              /\ f.kind = "bar" => f.session = x.session
    <3>1. PICK x \in Material : /\ f.id = x.id /\ f.kind = x.kind /\ f = At(x, f.available)
                                /\ f.of = x.of
                                /\ f.kind = "bar" => /\ f.session = x.session
                                                     /\ f.revision = x.revision
      BY <1>0, PublishedAre
    <3> QED
      BY <3>1
  <2>3. x = y
    BY <1>1, <1>7, <2>1, <2>2, AtFields, MaterialAssumption
  <2>4. f.kind = "bar" /\ f.session = d
    BY <2>1, <2>2, <2>3
  <2>5. 2 * d <= f.available /\ f.available \in 0..now
    BY <1>0, <2>4, PublishedAre DEF PublishedInv
  <2> QED BY <1>1, <1>6, <2>5
<1>8. \A f \in B : f.kind = "bar" => 2 * f.session <= now'
  BY <1>1, <1>6
<1> HIDE DEF B
<1>9. PublishedInv' /\ \A t \in 0..(now' - 1) : KnownAt(t)' = KnownAt(t)
  BY <1>0, <1>1, <1>2, <1>5, <1>6, <1>7, <1>8, AddsLater
<1>10. AnswersInv'
  <2> SUFFICES ASSUME NEW p \in answers
               PROVE  \E r \in Requests, t \in 0..now' : p = Answer(KnownAt(t)', r, t)
    BY DEF AnswersInv, Ticks
  <2>1. PICK r \in Requests, t \in 0..now : p = Answer(KnownAt(t), r, t)
    BY <1>0 DEF AnswersInv
  <2>2. t \in 0..(now' - 1) /\ t \in 0..now'
    BY <1>1
  <2> QED BY <1>9, <2>1, <2>2
<1>11. EvaluationInv'
  BY DEF Ticks, EvaluationInv
<1> QED BY <1>9, <1>10, <1>11 DEF EvidenceInv

\* A surprise is published with an id of its own, after the last answer.
LEMMA PublishesKeeps ==
  ASSUME EvidenceInv, NEW fact \in Surprises, Publishes(fact)
  PROVE  EvidenceInv'
<1>0. PublishedInv /\ AnswersInv /\ EvaluationInv
  BY DEF EvidenceInv
<1> DEFINE B == {At(fact, now)}
<1>1. published' = published \cup B /\ now' = now /\ answers' = answers
  BY DEF Publishes
<1>2. fact \in Material /\ now \in Nat /\ now' \in now..LastInstant
  BY <1>0, <1>1, InstantAssumption DEF Material, PublishedInv
<1>3. /\ At(fact, now).id = fact.id /\ At(fact, now).kind = fact.kind
      /\ fact.kind = "bar" => fact \in Bars /\ At(fact, now).session = fact.session
  BY <1>2, AtFields
<1>4. IsFiniteSet(B)
  BY FS_Singleton
<1>5. \A f \in B : \E x \in Material : f = At(x, now')
  BY <1>1, <1>2
<1>6. ASSUME fact.kind = "bar" PROVE 2 * fact.session <= now
  <2>1. fact.session <= DayOf(now) /\ DayOf(now) = now \div 2
    BY <1>0, <1>6, InstantAssumption DEF Publishes, PublishedInv
  <2>2. fact.session \in Nat
    BY <1>3, <1>6 DEF Bars
  <2> QED BY <1>2, <2>1, <2>2
<1>7. \A f \in B : f.kind = "bar" => 2 * f.session <= now'
  BY <1>1, <1>3, <1>6
<1>8. \A f \in published, g \in B : f.id # g.id
  BY <1>3 DEF Publishes
<1>9. \A f, g \in B : f.id = g.id => f = g
  OBVIOUS
<1> HIDE DEF B
<1>10. PublishedInv' /\ \A t \in 0..(now' - 1) : KnownAt(t)' = KnownAt(t)
  BY <1>0, <1>1, <1>2, <1>4, <1>5, <1>7, <1>8, <1>9, AddsLater
<1>11. AnswersInv'
  <2> SUFFICES ASSUME NEW p \in answers
               PROVE  \E r \in Requests, t \in 0..now' : p = Answer(KnownAt(t)', r, t)
    BY <1>1 DEF AnswersInv
  <2>1. PICK r \in Requests, t \in 0..now : p = Answer(KnownAt(t), r, t)
    BY <1>0 DEF AnswersInv
  <2>2. p.fetched < now /\ p.fetched = t
    BY <2>1 DEF Publishes, Answer
  <2>3. t \in 0..(now' - 1) /\ t \in 0..now'
    BY <1>1, <1>2, <2>2
  <2> QED BY <1>10, <2>1, <2>3
<1>12. EvaluationInv'
  BY DEF Publishes, EvaluationInv
<1> QED BY <1>10, <1>11, <1>12 DEF EvidenceInv

\* Whatever is published and revised meanwhile, an answer shows what was known at
\* one instant, and the evaluation is of such an answer (contracts.ts,
\* MarketDataProvider.fetchMarketData).
THEOREM EvidenceInvariance == Spec => []EvidenceInv
<1>1. ASSUME EvidenceInv, [Next]_vars PROVE EvidenceInv'
  <2>0. PublishedInv /\ AnswersInv /\ EvaluationInv
    BY <1>1 DEF EvidenceInv
  <2>1. CASE Ticks
    BY <1>1, <2>1, TicksKeeps
  <2>2. ASSUME NEW fact \in Surprises, Publishes(fact) PROVE EvidenceInv'
    BY <1>1, <2>2, PublishesKeeps
  <2>3. ASSUME NEW r \in Requests, Fetch(r) PROVE EvidenceInv'
    <3>1. now' = now /\ published' = published /\ evaluation' = <<>>
          /\ answers' = answers \cup {Answer(published, r, now)}
      BY <2>3 DEF Fetch
    <3>2. PublishedInv' /\ EvaluationInv'
      BY <2>0, <3>1 DEF PublishedInv, EvaluationInv
    <3>3. KnownAt(now) = published /\ now \in 0..now
      <4>1. \A f \in published : f.available \in 0..now
        BY <2>0, PublishedAre
      <4>2. now \in Nat
        BY <2>0, InstantAssumption DEF PublishedInv
      <4> QED BY <4>1, <4>2 DEF KnownAt
    <3>4. \A t : KnownAt(t)' = KnownAt(t)
      BY <3>1 DEF KnownAt
    <3>5. AnswersInv'
      <4> SUFFICES ASSUME NEW p \in answers'
                   PROVE  \E x \in Requests, t \in 0..now' : p = Answer(KnownAt(t)', x, t)
        BY DEF AnswersInv
      <4>1. CASE p \in answers
        BY <2>0, <3>1, <3>4, <4>1 DEF AnswersInv
      <4>2. CASE p = Answer(published, r, now)
        BY <3>1, <3>3, <3>4, <4>2
      <4> QED BY <3>1, <4>1, <4>2
    <3> QED BY <3>2, <3>5 DEF EvidenceInv
  <2>4. ASSUME NEW p \in answers, Evaluate(p) PROVE EvidenceInv'
    <3>1. UNCHANGED <<now, published, answers>>
      BY <2>4 DEF Evaluate
    <3>2. PublishedInv' /\ AnswersInv'
      BY <2>0, <3>1 DEF PublishedInv, AnswersInv, KnownAt
    <3>3. EvaluationInv'
      BY <2>4, <3>1 DEF Evaluate, EvaluationInv
    <3> QED BY <3>2, <3>3 DEF EvidenceInv
  <2>5. CASE UNCHANGED vars
    BY <2>0, <2>5 DEF vars, EvidenceInv, PublishedInv, AnswersInv, EvaluationInv, KnownAt
  <2> QED BY <1>1, <2>1, <2>2, <2>3, <2>4, <2>5 DEF Next
<1> QED BY <1>1, InitPublished, PTL DEF Spec

-----------------------------------------------------------------------------
(* The same knowledge *)

\* KnownTo of an answer at an instant for a cutoff
Known(t, c) ==
    {f \in KnownAt(t) : /\ f.kind = "bar" => f.session <= c
                        /\ f.kind = "action" => f.effective <= c}

\* Of what is published, the latest bars have a session each.
LEMMA LatestBars ==
  ASSUME PublishedInv, NEW K, K \subseteq published, NEW of
  PROVE  /\ IsFiniteSet(Latest(K, of)) /\ Latest(K, of) \subseteq Bars
         /\ \A x \in Latest(K, of) : x.session \in Nat
         /\ \A x, y \in Latest(K, of) : x.session = y.session => x = y
<1> DEFINE R == Latest(K, of)
<1>1. R \subseteq K /\ R \subseteq published /\ \A x \in R : x.kind = "bar" /\ x.of = of
  BY DEF Latest, Facts
<1>2. IsFiniteSet(R)
  BY <1>1, FS_Subset DEF PublishedInv
<1>3. \A x \in R : x \in Bars /\ x.session \in Nat /\ x.revision \in Nat
  <2>1. \A x \in R : x \in Bars
    BY <1>1, PublishedAre
  <2> QED BY <2>1 DEF Bars
<1>4. ASSUME NEW x \in R, NEW y \in R, x.session = y.session PROVE x = y
  <2>1. x.revision = y.revision
    <3>1. x.revision <= y.revision /\ y.revision <= x.revision
      BY <1>4 DEF Latest, Facts
    <3> QED BY <3>1, <1>3
  <2>2. PICK a \in Material : /\ x.id = a.id /\ x.kind = a.kind /\ x = At(a, x.available)
                              /\ x.of = a.of
                              /\ x.kind = "bar" => /\ x.session = a.session
                                                   /\ x.revision = a.revision
    BY <1>1, PublishedAre
  <2>3. PICK b \in Material : /\ y.id = b.id /\ y.kind = b.kind /\ y = At(b, y.available)
                              /\ y.of = b.of
                              /\ y.kind = "bar" => /\ y.session = b.session
                                                   /\ y.revision = b.revision
    BY <1>1, PublishedAre
  <2>4. a = b
    BY <1>1, <1>4, <2>1, <2>2, <2>3, MaterialAssumption
  <2> QED BY <1>1, <2>2, <2>3, <2>4 DEF PublishedInv
<1> QED BY <1>2, <1>3, <1>4

\* The bars, actions and events of an answer that are validated are those of what
\* was known up to the cutoff.
LEMMA AnswerShows ==
  ASSUME PublishedInv, NEW t \in Nat, NEW c \in Nat, NEW of
  PROVE  /\ BarsUntil(InOrder(Latest(KnownAt(t), of)), c) \in Seq(Bars)
         /\ Rising(BarsUntil(InOrder(Latest(KnownAt(t), of)), c))
         /\ ToSet(BarsUntil(InOrder(Latest(KnownAt(t), of)), c)) = Latest(Known(t, c), of)
         /\ ActionsUntil(Facts(KnownAt(t), "action", of), c) = Facts(Known(t, c), "action", of)
         /\ Facts(KnownAt(t), "event", of) = Facts(Known(t, c), "event", of)
<1> DEFINE R == Latest(KnownAt(t), of)
<1>1. KnownAt(t) \subseteq published
  BY DEF KnownAt
<1>2. /\ IsFiniteSet(R) /\ R \subseteq Bars
      /\ \A x \in R : x.session \in Nat
      /\ \A x, y \in R : x.session = y.session => x = y
  BY <1>1, LatestBars
<1>3. {b \in R : b.session <= c} = Latest(Known(t, c), of)
  BY DEF Latest, Facts, Known
<1>4. /\ BarsUntil(InOrder(R), c) \in Seq(R) /\ Rising(BarsUntil(InOrder(R), c))
      /\ ToSet(BarsUntil(InOrder(R), c)) = {b \in R : b.session <= c}
  <2> HIDE DEF R
  <2> QED BY <1>2, BarsInOrder
<1>5. BarsUntil(InOrder(R), c) \in Seq(Bars)
  BY <1>2, <1>4
<1>6. /\ ActionsUntil(Facts(KnownAt(t), "action", of), c) = Facts(Known(t, c), "action", of)
      /\ Facts(KnownAt(t), "event", of) = Facts(Known(t, c), "event", of)
  BY DEF ActionsUntil, Facts, Known
<1> QED BY <1>3, <1>4, <1>5, <1>6

\* What is shown of the same knowledge is the same.
LEMMA ShowsTheSame ==
  ASSUME PublishedInv, NEW t \in Nat, NEW u \in Nat, NEW c \in Nat, Known(t, c) = Known(u, c), NEW of
  PROVE  /\ BarsUntil(InOrder(Latest(KnownAt(t), of)), c)
              = BarsUntil(InOrder(Latest(KnownAt(u), of)), c)
         /\ ActionsUntil(Facts(KnownAt(t), "action", of), c)
              = ActionsUntil(Facts(KnownAt(u), "action", of), c)
         /\ Facts(KnownAt(t), "event", of) = Facts(KnownAt(u), "event", of)
<1> DEFINE a == BarsUntil(InOrder(Latest(KnownAt(t), of)), c)
           b == BarsUntil(InOrder(Latest(KnownAt(u), of)), c)
<1>1. /\ a \in Seq(Bars) /\ Rising(a) /\ ToSet(a) = Latest(Known(t, c), of)
      /\ ActionsUntil(Facts(KnownAt(t), "action", of), c) = Facts(Known(t, c), "action", of)
      /\ Facts(KnownAt(t), "event", of) = Facts(Known(t, c), "event", of)
  BY AnswerShows
<1>2. /\ b \in Seq(Bars) /\ Rising(b) /\ ToSet(b) = Latest(Known(u, c), of)
      /\ ActionsUntil(Facts(KnownAt(u), "action", of), c) = Facts(Known(u, c), "action", of)
      /\ Facts(KnownAt(u), "event", of) = Facts(Known(u, c), "event", of)
  BY AnswerShows
<1> HIDE DEF a, b
<1>3. a = b
  <2>1. \A x \in Bars : x.session \in Nat
    BY DEF Bars
  <2>2. ToSet(a) = ToSet(b)
    BY <1>1, <1>2
  <2> QED BY <1>1, <1>2, <2>1, <2>2, RisingIsUnique
<1> QED BY <1>1, <1>2, <1>3 DEF a, b

\* What is shown was published by then, and has a name of its own.
LEMMA ShownIsPublished ==
  ASSUME PublishedInv, NEW t \in 0..now, NEW c \in Nat, NEW of
  PROVE  /\ \A x \in ToSet(BarsUntil(InOrder(Latest(KnownAt(t), of)), c)) :
               x \in published /\ x \in Bars /\ x.available <= t /\ x.available \in Nat /\ x.name \in Nat
         /\ \A x \in ActionsUntil(Facts(KnownAt(t), "action", of), c) :
               x \in published /\ x \in Actions /\ x.available <= t /\ x.available \in Nat
                 /\ x.name \in Nat
<1>1. t \in Nat
  OBVIOUS
<1>2. \A x \in KnownAt(t) : x \in published /\ x.available <= t
  BY DEF KnownAt
<1>3. ASSUME NEW x \in ToSet(BarsUntil(InOrder(Latest(KnownAt(t), of)), c))
      PROVE  x \in published /\ x \in Bars /\ x.available <= t
  <2>1. x \in Latest(Known(t, c), of)
    BY <1>1, AnswerShows
  <2>2. x \in KnownAt(t) /\ x.kind = "bar"
    BY <2>1 DEF Latest, Facts, Known
  <2> QED BY <1>2, <2>2, PublishedAre
<1>4. ASSUME NEW x \in ActionsUntil(Facts(KnownAt(t), "action", of), c)
      PROVE  x \in published /\ x \in Actions /\ x.available <= t
  <2>1. x \in KnownAt(t) /\ x.kind = "action"
    BY DEF ActionsUntil, Facts
  <2> QED BY <1>2, <2>1, PublishedAre
<1> QED BY <1>3, <1>4 DEF Bars, Actions

\* An answer to the same knowledge is validated as well, and gives the same state.
LEMMA SameKnowledge ==
  ASSUME PublishedInv, NEW t \in 0..now, NEW u \in 0..now, NEW c \in Nat,
         NEW r, r.cutoff = c, NEW v, v.cutoff = c, r.symbol = v.symbol, r.benchmark = v.benchmark,
         Known(t, c) = Known(u, c), Validates(Answer(KnownAt(t), r, t), c, now)
  PROVE  /\ Validates(Answer(KnownAt(u), v, u), c, now)
         /\ CompactState(Answer(KnownAt(t), r, t), c) = CompactState(Answer(KnownAt(u), v, u), c)
<1>0. t \in Nat /\ u \in Nat /\ now \in 0..LastInstant /\ t <= now /\ u <= now /\ now \in Nat
      /\ LastInstant \in Nat
  BY InstantAssumption DEF PublishedInv
<1>1. PICK p : p = Answer(KnownAt(t), r, t)
  OBVIOUS
<1>2. PICK q : q = Answer(KnownAt(u), v, u)
  OBVIOUS
<1>3. /\ p.name = AnswerName /\ p.revision = t /\ p.hash = 0 /\ p.available = t
      /\ p.cutoff = c /\ p.fetched = t /\ p.updated = t
      /\ q.name = AnswerName /\ q.revision = u /\ q.hash = 0 /\ q.available = u
      /\ q.cutoff = c /\ q.fetched = u /\ q.updated = u
      /\ p.instrument = q.instrument /\ p.benchmark = q.benchmark
  BY <1>1, <1>2 DEF Answer
<1>4. /\ p.calendar = [name |-> CalendarName, revision |-> 1, hash |-> 0, available |-> 0,
                       sessions |-> Sessions]
      /\ q.calendar = p.calendar
  BY <1>1, <1>2 DEF Answer
<1>a. /\ p.bars = InOrder(Latest(KnownAt(t), "symbol"))
      /\ p.benchmarkBars = InOrder(Latest(KnownAt(t), "benchmark"))
      /\ p.actions = Facts(KnownAt(t), "action", "symbol")
      /\ p.benchmarkActions = Facts(KnownAt(t), "action", "benchmark")
  BY <1>1 DEF Answer
<1>b. /\ q.bars = InOrder(Latest(KnownAt(u), "symbol"))
      /\ q.benchmarkBars = InOrder(Latest(KnownAt(u), "benchmark"))
      /\ q.actions = Facts(KnownAt(u), "action", "symbol")
      /\ q.benchmarkActions = Facts(KnownAt(u), "action", "benchmark")
  BY <1>2 DEF Answer
<1>5. /\ p.events = [name |-> EventsName, revision |-> t, hash |-> 0, available |-> t,
                     asOf |-> c, through |-> Newest(Sessions),
                     events |-> Facts(KnownAt(t), "event", "symbol")]
      /\ q.events = [name |-> EventsName, revision |-> u, hash |-> 0, available |-> u,
                     asOf |-> c, through |-> Newest(Sessions),
                     events |-> Facts(KnownAt(u), "event", "symbol")]
      /\ Facts(KnownAt(t), "event", "symbol") = Facts(KnownAt(u), "event", "symbol")
  <2>1. Facts(KnownAt(t), "event", "symbol") = Facts(KnownAt(u), "event", "symbol")
    BY <1>0, ShowsTheSame
  <2> QED BY <1>1, <1>2, <2>1 DEF Answer
<1>6. /\ BarsUntil(p.bars, c) = BarsUntil(q.bars, c)
      /\ BarsUntil(p.benchmarkBars, c) = BarsUntil(q.benchmarkBars, c)
      /\ ActionsUntil(p.actions, c) = ActionsUntil(q.actions, c)
      /\ ActionsUntil(p.benchmarkActions, c) = ActionsUntil(q.benchmarkActions, c)
  BY <1>0, <1>a, <1>b, ShowsTheSame
<1>7. /\ \A x \in ToSet(BarsUntil(q.bars, c)) \cup ToSet(BarsUntil(q.benchmarkBars, c)) :
            x \in published /\ x \in Bars /\ x.available <= u /\ x.available \in Nat /\ x.name \in Nat
      /\ \A x \in ActionsUntil(q.actions, c) \cup ActionsUntil(q.benchmarkActions, c) :
            x.available <= u /\ x.available \in Nat /\ x.name \in Nat
  BY <1>b, ShownIsPublished
<1>8. \A x : x.available \in Nat /\ x.available <= u => Available(x, now, u)
  BY <1>0 DEF Available
<1>9. Validates(p, c, now)
  BY <1>1
<1> DEFINE kept == BarsUntil(q.bars, c)
<1>10. /\ p.instrument # p.benchmark
       /\ InTime(p, c, now) /\ ValidCalendar(p.calendar, c)
       /\ ValidBars(p.bars, p.calendar, c, now, t)
       /\ ValidBars(p.benchmarkBars, p.calendar, c, now, t)
       /\ SessionsOf(kept) = SessionsOf(BarsUntil(q.benchmarkBars, c))
       /\ ValidActions(p.actions, SessionsOf(kept), RecentSplitWindow, c, now, t)
       /\ ValidActions(p.benchmarkActions, SessionsOf(kept), 0, c, now, t)
       /\ ValidEvents(p.events, p.calendar, c, now, t)
       /\ FiniteFeatures(kept)
       /\ OneVersion(SourceManifest(p, c))
  BY <1>3, <1>6, <1>9 DEF Validates
<1>11. ValidBars(q.bars, q.calendar, c, now, u) /\ ValidBars(q.benchmarkBars, q.calendar, c, now, u)
  <2>1. \A i \in DOMAIN BarsUntil(q.bars, c) : Available(BarsUntil(q.bars, c)[i], now, u)
    BY <1>7, <1>8 DEF ToSet
  <2>2. \A i \in DOMAIN BarsUntil(q.benchmarkBars, c) :
          Available(BarsUntil(q.benchmarkBars, c)[i], now, u)
    BY <1>7, <1>8 DEF ToSet
  <2> QED BY <1>4, <1>6, <1>10, <2>1, <2>2 DEF ValidBars
<1>12. /\ ValidActions(q.actions, SessionsOf(kept), RecentSplitWindow, c, now, u)
       /\ ValidActions(q.benchmarkActions, SessionsOf(kept), 0, c, now, u)
  BY <1>6, <1>7, <1>8, <1>10 DEF ValidActions
<1>13. ValidEvents(q.events, q.calendar, c, now, u)
  <2>1. Available(q.events, now, u)
    BY <1>0, <1>5, <1>8
  <2> QED BY <1>4, <1>5, <1>10, <2>1 DEF ValidEvents
<1>14. InTime(q, c, now)
  <2>1. DayOf(u) >= c
    <3>1. kept \in Seq(Bars) /\ kept # <<>> /\ Newest(kept).session = c
      <4>1. kept \in Seq(Bars)
        BY <1>0, <1>b, AnswerShows
      <4> QED BY <1>11, <4>1 DEF ValidBars
    <3>2. Newest(kept) \in ToSet(kept)
      BY <3>1 DEF Newest, ToSet
    <3>3. PICK b \in published : b = Newest(kept) /\ b \in Bars /\ b.available <= u /\ b.session = c
      BY <1>7, <3>1, <3>2
    <3>4. b.kind = "bar" /\ b.available \in Nat
      BY <3>3 DEF Bars
    <3>5. 2 * c <= u
      <4>1. 2 * b.session <= b.available
        BY <3>4 DEF PublishedInv
      <4> QED BY <1>0, <3>3, <3>4, <4>1
    <3>6. DayOf(u) = u \div 2
      <4>1. u \in 0..LastInstant
        BY <1>0
      <4> QED BY <4>1, InstantAssumption
    <3> QED BY <1>0, <3>5, <3>6
  <2>2. Available(q, now, u) /\ Available(q.calendar, now, u)
    BY <1>0, <1>3, <1>4, <1>8
  <2> QED BY <1>0, <1>3, <1>10, <2>1, <2>2 DEF InTime
<1>15. OneVersion(SourceManifest(q, c))
  <2> DEFINE S == {Reference(b) : b \in ToSet(BarsUntil(q.bars, c))
                                          \cup ToSet(BarsUntil(q.benchmarkBars, c))}
                    \cup {Reference(a) : a \in ActionsUntil(q.actions, c)
                                                \cup ActionsUntil(q.benchmarkActions, c)}
  <2>1. /\ SourceManifest(p, c) = {Reference(x) : x \in {p, p.calendar, p.events}} \cup S
        /\ SourceManifest(q, c) = {Reference(x) : x \in {q, q.calendar, q.events}} \cup S
    BY <1>6 DEF SourceManifest
  <2>2. \A x \in S : x.name \in Nat
    BY <1>7 DEF Reference
  <2>3. Reference(q).name = -1 /\ Reference(q.calendar).name = -2 /\ Reference(q.events).name = -3
    BY <1>3, <1>4, <1>5 DEF Reference, AnswerName, CalendarName, EventsName
  <2>4. SourceManifest(q, c) = {Reference(q), Reference(q.calendar), Reference(q.events)} \cup S
    BY <2>1
  <2>5. \A x, y \in S : x.name = y.name /\ x.revision = y.revision => x = y
    BY <1>10, <2>1 DEF OneVersion
  <2> HIDE DEF S
  <2> SUFFICES ASSUME NEW x \in SourceManifest(q, c), NEW y \in SourceManifest(q, c),
                      x.name = y.name, x.revision = y.revision
               PROVE  x = y
    BY DEF OneVersion
  <2>6. x \in S \/ x = Reference(q) \/ x = Reference(q.calendar) \/ x = Reference(q.events)
    BY <2>4
  <2>7. y \in S \/ y = Reference(q) \/ y = Reference(q.calendar) \/ y = Reference(q.events)
    BY <2>4
  <2> QED BY <2>2, <2>3, <2>5, <2>6, <2>7
<1>16. Validates(q, c, now)
  BY <1>3, <1>4, <1>6, <1>10, <1>11, <1>12, <1>13, <1>14, <1>15 DEF Validates, ValidCalendar
<1>17. CompactState(p, c) = CompactState(q, c)
  <2>1. UpcomingEvents(p.events, p.calendar, c) = UpcomingEvents(q.events, q.calendar, c)
    BY <1>4, <1>5 DEF UpcomingEvents
  <2> QED BY <1>3, <1>6, <2>1 DEF CompactState
<1> QED BY <1>1, <1>2, <1>16, <1>17

\* The future does not leak into a snapshot, whatever the later sessions, actions
\* and revisions were when the answer was made: the state is a function of what was
\* known up to the cutoff (snapshot.ts, buildMarketSnapshot).
THEOREM SameKnowledgeSameSnapshotHolds == Spec => []SameKnowledgeSameSnapshot
<1>1. ASSUME EvidenceInv PROVE SameKnowledgeSameSnapshot
  <2>0. PublishedInv /\ AnswersInv
    BY <1>1 DEF EvidenceInv
  <2> SUFFICES ASSUME NEW p \in answers, NEW q \in answers,
                      SameRequest(p, q), KnownTo(p) = KnownTo(q)
               PROVE  {s.state : s \in BuildMarketSnapshot(p, p.cutoff, now)}
                        = {s.state : s \in BuildMarketSnapshot(q, q.cutoff, now)}
    BY DEF SameKnowledgeSameSnapshot
  <2>1. PICK r \in Requests, t \in 0..now : p = Answer(KnownAt(t), r, t)
    BY <2>0 DEF AnswersInv
  <2>2. PICK v \in Requests, u \in 0..now : q = Answer(KnownAt(u), v, u)
    BY <2>0 DEF AnswersInv
  <2>a. PICK c : c = p.cutoff
    OBVIOUS
  <2>3. /\ p.cutoff = c /\ r.cutoff = c /\ p.fetched = t
        /\ q.cutoff = c /\ v.cutoff = c /\ q.fetched = u
        /\ r.symbol = v.symbol /\ r.benchmark = v.benchmark
    BY <2>1, <2>2, <2>a DEF Answer, SameRequest
  <2>4. c \in Nat
    BY <2>3, InstantAssumption
  <2>5. Known(t, c) = Known(u, c)
    BY <2>3, <2>4 DEF KnownTo, Known, KnownAt
  <2>6. Validates(p, c, now) = Validates(q, c, now) /\ (Validates(p, c, now) =>
          CompactState(p, c) = CompactState(q, c))
    <3>1. Validates(p, c, now) => /\ Validates(q, c, now)
                                  /\ CompactState(p, c) = CompactState(q, c)
      BY <2>0, <2>1, <2>2, <2>3, <2>4, <2>5, SameKnowledge
    <3>2. Validates(q, c, now) => /\ Validates(p, c, now)
                                  /\ CompactState(q, c) = CompactState(p, c)
      BY <2>0, <2>1, <2>2, <2>3, <2>4, <2>5, SameKnowledge
    <3>3. Validates(p, c, now) \in BOOLEAN /\ Validates(q, c, now) \in BOOLEAN
      BY DEF Validates
    <3> QED BY <3>1, <3>2, <3>3
  <2>7. CASE Validates(p, c, now)
    <3>1. {s.state : s \in BuildMarketSnapshot(p, c, now)} = {CompactState(p, c)}
      BY <2>7 DEF BuildMarketSnapshot
    <3>2. {s.state : s \in BuildMarketSnapshot(q, c, now)} = {CompactState(q, c)}
      BY <2>6, <2>7 DEF BuildMarketSnapshot
    <3> QED BY <2>3, <2>4, <2>6, <2>7, <3>1, <3>2
  <2>8. CASE ~Validates(p, c, now)
    <3>1. BuildMarketSnapshot(p, c, now) = {} /\ BuildMarketSnapshot(q, c, now) = {}
      BY <2>6, <2>8 DEF BuildMarketSnapshot
    <3> QED BY <2>3, <2>4, <3>1
  <2> QED BY <2>7, <2>8
<1> QED BY <1>1, EvidenceInvariance, PTL

-----------------------------------------------------------------------------
(* Greatest values and averages *)

\* Of the values of a sequence that is not empty one is the greatest.
LEMMA GreatestOfSequence ==
  ASSUME NEW n \in Nat \ {0}, NEW v, \A i \in 1..n : v[i] \in Int
  PROVE  \E i \in 1..n : \A k \in 1..n : v[k] <= v[i]
<1> DEFINE P == {m \in Nat : m \in 1..n => \E i \in 1..m : \A k \in 1..m : v[k] <= v[i]}
<1>1. 0 \in P
  OBVIOUS
<1>2. ASSUME NEW m \in Nat, m \in P PROVE m + 1 \in P
  <2> SUFFICES ASSUME m + 1 \in 1..n
               PROVE  \E i \in 1..(m + 1) : \A k \in 1..(m + 1) : v[k] <= v[i]
    OBVIOUS
  <2>1. CASE m = 0
    <3>1. 1..(m + 1) = {1}
      BY <2>1
    <3> QED BY <3>1
  <2>2. CASE m # 0
    <3>1. PICK i \in 1..m : \A k \in 1..m : v[k] <= v[i]
      BY <1>2, <2>2
    <3>2. \A k \in 1..(m + 1) : k \in 1..m \/ k = m + 1
      OBVIOUS
    <3>3. v[i] \in Int /\ v[m + 1] \in Int /\ \A k \in 1..m : v[k] \in Int
      OBVIOUS
    <3>4. CASE v[m + 1] <= v[i]
      <4>1. \A k \in 1..(m + 1) : v[k] <= v[i]
        BY <3>1, <3>2, <3>4
      <4> QED BY <4>1
    <3>5. CASE v[i] <= v[m + 1]
      <4>1. \A k \in 1..(m + 1) : v[k] <= v[m + 1]
        BY <3>1, <3>2, <3>3, <3>5
      <4> QED BY <4>1
    <3> QED BY <3>3, <3>4, <3>5
  <2> QED BY <2>1, <2>2
<1>3. n \in P
  <2> HIDE DEF P
  <2> QED BY <1>1, <1>2, Keeping!NatSetInduction
<1> QED BY <1>3

\* The values of a sequence that is not empty lie between two of them, and the
\* greatest is Max.
LEMMA WithinSequence ==
  ASSUME NEW n \in Nat \ {0}, NEW v, \A i \in 1..n : v[i] \in Int
  PROVE  /\ \E i, j \in 1..n : \A k \in 1..n : v[j] <= v[k] /\ v[k] <= v[i]
         /\ \E i \in 1..n : Max({v[k] : k \in 1..n}) = v[i] /\ \A k \in 1..n : v[k] <= v[i]
<1>1. PICK i \in 1..n : \A k \in 1..n : v[k] <= v[i]
  BY GreatestOfSequence
<1>2. PICK j \in 1..n : \A k \in 1..n : v[j] <= v[k]
  <2> DEFINE w == [k \in 1..n |-> -v[k]]
  <2>1. \A k \in 1..n : w[k] \in Int
    OBVIOUS
  <2>2. PICK j \in 1..n : \A k \in 1..n : w[k] <= w[j]
    <3> HIDE DEF w
    <3> QED BY <2>1, GreatestOfSequence
  <2> QED BY <2>2
<1>3. Max({v[k] : k \in 1..n}) = v[i]
  <2> DEFINE S == {v[k] : k \in 1..n}
  <2>1. v[i] \in S /\ \A y \in S : v[i] >= y
    BY <1>1
  <2>2. \A x \in S : (\A y \in S : x >= y) => x = v[i]
    BY <1>1
  <2> HIDE DEF S
  <2>3. Max(S) = v[i]
    BY <2>1, <2>2 DEF Max
  <2> QED BY <2>3 DEF S
<1> QED BY <1>1, <1>2, <1>3

\* Total as a fold
Summing == INSTANCE FoldInduction WITH
             Op <- LAMBDA c, sum, x : sum + x,
             Base <- LAMBDA c : 0

\* The induction of FoldInduction is about Total.
LEMMA TotalIsFold == \A seq : Total(seq) = Summing!Fold(0, seq)
BY DEF Total, Summing!Fold, Summing!FoldLeft, Summing!MapThenFoldSet, Summing!Max, FoldLeft,
   MapThenFoldSet, Max

\* A factor that is not negative keeps an order.
LEMMA Scaled ==
  ASSUME NEW x \in Int, NEW y \in Int, x <= y, NEW f \in Nat
  PROVE  x * f <= y * f
<1> DEFINE P == {n \in Nat : x * n <= y * n}
<1>1. 0 \in P
  OBVIOUS
<1>2. ASSUME NEW n \in Nat, n \in P PROVE n + 1 \in P
  <2>1. x * (n + 1) = x * n + x /\ y * (n + 1) = y * n + y
    OBVIOUS
  <2>2. x * n \in Int /\ y * n \in Int /\ x * n <= y * n
    BY <1>2
  <2> QED BY <2>1, <2>2
<1>3. f \in P
  <2> HIDE DEF P
  <2> QED BY <1>1, <1>2, Keeping!NatSetInduction
<1> QED BY <1>3

\* A total is between as many of the least and of the greatest.
LEMMA TotalWithin ==
  ASSUME NEW lo \in Int, NEW hi \in Int, NEW seq \in Seq(lo..hi)
  PROVE  Total(seq) \in Int /\ lo * Len(seq) <= Total(seq) /\ Total(seq) <= hi * Len(seq)
<1> DEFINE P == {s \in Seq(lo..hi) : /\ Total(s) \in Int
                                     /\ lo * Len(s) <= Total(s) /\ Total(s) <= hi * Len(s)}
<1>1. <<>> \in P
  <2>1. Total(<<>>) = 0
    BY TotalIsFold, Summing!FoldEmpty
  <2> QED BY <2>1
<1>2. ASSUME NEW s \in Seq(lo..hi), NEW e \in lo..hi, s \in P PROVE Append(s, e) \in P
  <2>1. Total(Append(s, e)) = Total(s) + e
    BY TotalIsFold, Summing!FoldAppend
  <2>2. PICK n \in Nat, x \in Int : n = Len(s) /\ x = Total(s) /\ lo * n <= x /\ x <= hi * n
    BY <1>2
  <2>3. Len(Append(s, e)) = n + 1 /\ Total(Append(s, e)) = x + e
    BY <2>1, <2>2
  <2>4. lo * (n + 1) = lo * n + lo /\ hi * (n + 1) = hi * n + hi /\ lo * n \in Int /\ hi * n \in Int
    OBVIOUS
  <2>5. lo * (n + 1) <= x + e /\ x + e <= hi * (n + 1)
    BY <2>2, <2>4
  <2>6. Append(s, e) \in Seq(lo..hi)
    OBVIOUS
  <2>7. Total(Append(s, e)) \in Int
    BY <2>3
  <2>8. /\ lo * Len(Append(s, e)) <= Total(Append(s, e))
        /\ Total(Append(s, e)) <= hi * Len(Append(s, e))
    BY <2>3, <2>5
  <2> QED BY <2>6, <2>7, <2>8
<1>3. \A s \in Seq(lo..hi) : s \in P
  <2> HIDE DEF P
  <2> QED BY <1>1, <1>2, Keeping!SeqSetInduction
<1> QED BY <1>3

\* Wilder's average as a fold over the values after the first Period of them
Wilder == INSTANCE FoldInduction WITH
            Op <- LAMBDA c, a, x : [n |-> a.n * (Period - 1) + x * a.d, d |-> a.d * Period],
            Base <- LAMBDA c : [n |-> Total(c), d |-> Period]

\* The induction of FoldInduction is about WilderAverage.
LEMMA AverageIsFold ==
  \A values : WilderAverage(values) = Wilder!Fold(SubSeq(values, 1, Period),
                                                  SubSeq(values, Period + 1, Len(values)))
BY DEF WilderAverage, Wilder!Fold, Wilder!FoldLeft, Wilder!MapThenFoldSet, Wilder!Max, FoldLeft,
   MapThenFoldSet, Max

\* One step of the average stays within the bounds.
LEMMA AverageStep ==
  ASSUME NEW lo \in Int, NEW hi \in Int, NEW n \in Int, NEW d \in Nat \ {0}, NEW x \in lo..hi,
         lo * d <= n, n <= hi * d, NEW k \in Nat
  PROVE  lo * (d * (k + 1)) <= n * k + x * d /\ n * k + x * d <= hi * (d * (k + 1))
<1>1. (lo * d) * k <= n * k /\ n * k <= (hi * d) * k
  BY Scaled
<1>2. lo * d <= x * d /\ x * d <= hi * d
  BY Scaled
<1>3. lo * (d * (k + 1)) = (lo * d) * k + lo * d /\ hi * (d * (k + 1)) = (hi * d) * k + hi * d
  OBVIOUS
<1>4. PICK a \in Int, b \in Int, e \in Int, f \in Int, g \in Int, h \in Int :
         /\ a = (lo * d) * k /\ b = (hi * d) * k /\ e = lo * d /\ f = hi * d /\ g = n * k /\ h = x * d
  OBVIOUS
<1> QED BY <1>1, <1>2, <1>3, <1>4

\* Wilder's average of values is within any bounds the values are within.
LEMMA AverageWithin ==
  ASSUME NEW lo \in Int, NEW hi \in Int, NEW values \in Seq(lo..hi), Len(values) >= Period
  PROVE  /\ WilderAverage(values).n \in Int /\ WilderAverage(values).d \in Nat \ {0}
         /\ lo * WilderAverage(values).d <= WilderAverage(values).n
         /\ WilderAverage(values).n <= hi * WilderAverage(values).d
<1> DEFINE A == {a \in [n : Int, d : Nat \ {0}] : lo * a.d <= a.n /\ a.n <= hi * a.d}
           first == SubSeq(values, 1, Period)
           rest == SubSeq(values, Period + 1, Len(values))
<1>1. Period \in Nat \ {0}
  BY IndicatorAssumption
<1>2. first \in Seq(lo..hi) /\ Len(first) = Period /\ rest \in Seq(lo..hi)
  BY <1>1
<1>3. [n |-> Total(first), d |-> Period] \in A
  <2> HIDE DEF first
  <2>1. Total(first) \in Int /\ lo * Period <= Total(first) /\ Total(first) <= hi * Period
    BY <1>2, TotalWithin
  <2> QED BY <1>1, <2>1
<1>4. ASSUME NEW a \in A, NEW x \in lo..hi
      PROVE  [n |-> a.n * (Period - 1) + x * a.d, d |-> a.d * Period] \in A
  <2>1. PICK k \in Nat : Period = k + 1
    <3>1. Period - 1 \in Nat /\ Period = (Period - 1) + 1
      BY <1>1
    <3> QED BY <3>1
  <2>2. PICK n \in Int, d \in Nat \ {0} : n = a.n /\ d = a.d /\ lo * d <= n /\ n <= hi * d
    OBVIOUS
  <2>3. lo * (d * (k + 1)) <= n * k + x * d /\ n * k + x * d <= hi * (d * (k + 1))
    BY <2>2, AverageStep
  <2>4. Period - 1 = k
    BY <2>1
  <2>5. n * k + x * d \in Int /\ d * (k + 1) \in Nat \ {0}
    OBVIOUS
  <2>6. PICK num \in Int, den \in Nat \ {0} : /\ num = n * k + x * d /\ den = d * (k + 1)
                                              /\ lo * den <= num /\ num <= hi * den
    BY <2>3, <2>5
  <2>7. [n |-> num, d |-> den] \in A
    BY <2>6
  <2> QED BY <2>1, <2>2, <2>4, <2>6, <2>7
<1> HIDE DEF A, first, rest
<1>5. Wilder!Fold(first, rest) \in A
  BY <1>2, <1>3, <1>4, Wilder!FoldStaysIn
<1>6. WilderAverage(values) \in A
  BY <1>5, AverageIsFold DEF first, rest
<1> QED BY <1>6 DEF A

-----------------------------------------------------------------------------
(* The features of bars that are valid, and that are enough *)

\* What the validation of an answer leaves of its bars
GoodBars(s) ==
    /\ s \in Seq(Bars) /\ Len(s) >= Annual + Window
    /\ \A i \in DOMAIN s : ValidOhlcv(s[i])

\* The lengths of the windows are numbers, and bars are enough for each.
LEMMA WindowsTyped ==
  /\ Annual \in Nat \ {0} /\ Window \in Nat \ {0} /\ Period \in Nat \ {0} /\ Trailing \in Nat \ {0}
  /\ Period < Annual + Window /\ FlatBand \in Nat
BY IndicatorAssumption

\* The greatest of three numbers is one of them.
LEMMA GreatestOfThree ==
  ASSUME NEW a \in Int, NEW b \in Int, NEW c \in Int
  PROVE  Max({a, b, c}) \in {a, b, c} /\ Max({a, b, c}) >= a
<1> DEFINE S == {a, b, c}
<1>1. PICK x \in S : \A y \in S : x >= y
  <2>1. CASE a >= b /\ a >= c
    BY <2>1
  <2>2. CASE b >= a /\ b >= c
    BY <2>2
  <2>3. CASE c >= a /\ c >= b
    BY <2>3
  <2> QED BY <2>1, <2>2, <2>3
<1> HIDE DEF S
<1>2. Max(S) \in S /\ \A y \in S : Max(S) >= y
  BY <1>1 DEF Max
<1> QED BY <1>2 DEF S

\* A true range is not negative.
LEMMA TrueRangeTyped ==
  ASSUME NEW x \in Bars, NEW y \in Bars, ValidOhlcv(y)
  PROVE  TrueRange(x, y) \in Nat
<1>1. PICK a \in Int, b \in Int, c \in Int :
         /\ a = y.high - y.low /\ b = Size(y.high - x.close) /\ c = Size(y.low - x.close)
         /\ a >= 0 /\ b >= 0 /\ c >= 0
  BY DEF Bars, ValidOhlcv, Size
<1>2. TrueRange(x, y) = Max({a, b, c})
  BY <1>1 DEF TrueRange
<1>3. Max({a, b, c}) \in {a, b, c}
  BY GreatestOfThree
<1> QED BY <1>1, <1>2, <1>3

\* The average true range is a fraction between two of the true ranges.
LEMMA AtrWithin ==
  ASSUME NEW s, GoodBars(s)
  PROVE  LET ranges == Between(s, TrueRange)
             atr == WilderAtr(s)
         IN  /\ atr.n \in Nat /\ atr.d \in Nat \ {0}
             /\ \E i \in DOMAIN ranges : atr.n <= ranges[i] * atr.d
             /\ \E i \in DOMAIN ranges : atr.n >= ranges[i] * atr.d
<1>1. PICK n \in Nat \ {0} : n = Len(s) - 1 /\ n >= Period
  BY WindowsTyped DEF GoodBars
<1>2. PICK ranges : ranges = Between(s, TrueRange)
  OBVIOUS
<1>3. ranges = [i \in 1..n |-> TrueRange(s[i], s[i + 1])]
  BY <1>1, <1>2 DEF Between
<1>4. \A i \in 1..n : ranges[i] \in Nat
  <2> SUFFICES ASSUME NEW i \in 1..n PROVE TrueRange(s[i], s[i + 1]) \in Nat
    BY <1>3
  <2>1. s \in Seq(Bars) /\ i \in DOMAIN s /\ i + 1 \in DOMAIN s
    BY <1>1 DEF GoodBars
  <2>2. s[i] \in Bars /\ s[i + 1] \in Bars /\ ValidOhlcv(s[i + 1])
    BY <2>1 DEF GoodBars
  <2> QED BY <2>2, TrueRangeTyped
<1>5. PICK i \in 1..n, j \in 1..n : \A k \in 1..n : ranges[j] <= ranges[k] /\ ranges[k] <= ranges[i]
  <2>1. \A k \in 1..n : ranges[k] \in Int
    BY <1>4
  <2> QED BY <2>1, WithinSequence
<1>6. PICK lo \in Nat, hi \in Nat : lo = ranges[j] /\ hi = ranges[i]
  BY <1>4
<1>7. ranges \in Seq(lo..hi) /\ Len(ranges) = n
  <2>1. \A k \in 1..n : ranges[k] \in lo..hi
    BY <1>4, <1>5, <1>6
  <2>2. ranges = [k \in 1..n |-> ranges[k]]
    BY <1>3
  <2> QED BY <2>1, <2>2
<1>8. PICK a : a = WilderAtr(s) /\ a = WilderAverage(ranges)
  BY <1>2 DEF WilderAtr
<1>9. a.n \in Int /\ a.d \in Nat \ {0} /\ lo * a.d <= a.n /\ a.n <= hi * a.d
  <2>1. lo \in Int /\ hi \in Int /\ Len(ranges) >= Period
    BY <1>1, <1>7
  <2> QED BY <1>7, <1>8, <2>1, AverageWithin
<1>10. a.n \in Nat
  <2>1. lo * a.d >= 0
    BY <1>9
  <2> QED BY <1>9, <2>1
<1>11. DOMAIN ranges = 1..n
  BY <1>3
<1>12. a.n <= ranges[i] * a.d /\ a.n >= ranges[j] * a.d
  BY <1>6, <1>9
<1> QED BY <1>2, <1>8, <1>9, <1>10, <1>11, <1>12

\* A part of a total that is not negative is a percentage.
LEMMA PercentageTyped ==
  ASSUME NEW g \in Nat, NEW l \in Nat, l # 0
  PROVE  (100 * g) \div (g + l) \in 0..100
<1>1. PICK m \in Nat \ {0}, x \in Nat : m = g + l /\ x = 100 * g /\ x <= 100 * m
  OBVIOUS
<1>2. PICK q \in Int : q = x \div m
  BY <1>1
<1>3. m * q <= x /\ x < m * q + m
  BY <1>2
<1>4. q >= 0
  <2> SUFFICES ASSUME q <= -1 PROVE FALSE
    BY <1>2
  <2>1. m * q <= m * (-1)
    <3>1. q * m <= (-1) * m
      BY Scaled
    <3> QED BY <3>1
  <2> QED BY <1>3, <2>1
<1>5. q <= 100
  <2> SUFFICES ASSUME q >= 101 PROVE FALSE
    BY <1>2
  <2>1. 101 * m <= m * q
    <3>1. 101 * m <= q * m
      BY Scaled
    <3> QED BY <3>1
  <2> QED BY <1>1, <1>3, <2>1
<1> QED BY <1>1, <1>2, <1>4, <1>5

\* The average of values that are not negative is not negative.
LEMMA AverageTyped ==
  ASSUME NEW n \in Nat \ {0}, n >= Period, NEW v \in [1..n -> Nat]
  PROVE  WilderAverage(v).n \in Nat
<1>1. \A k \in 1..n : v[k] \in Int /\ v[k] \in Nat
  OBVIOUS
<1>2. PICK i \in 1..n : \A k \in 1..n : v[k] <= v[i]
  BY <1>1, GreatestOfSequence
<1>3. PICK hi \in Nat : hi = v[i]
  BY <1>1
<1>4. v \in Seq(0..hi) /\ Len(v) >= Period
  <2>1. \A k \in 1..n : v[k] \in 0..hi
    BY <1>1, <1>2, <1>3
  <2>2. v = [k \in 1..n |-> v[k]]
    OBVIOUS
  <2> QED BY <2>1, <2>2
<1>5. 0 \in Int /\ hi \in Int
  OBVIOUS
<1>6. PICK a : a = WilderAverage(v)
  OBVIOUS
<1>7. a.n \in Int /\ a.d \in Nat \ {0} /\ 0 * a.d <= a.n
  BY <1>4, <1>5, <1>6, AverageWithin
<1> QED BY <1>6, <1>7

\* The relative strength index is a percentage.
LEMMA RsiWithin ==
  ASSUME NEW closes \in Seq(Int), Len(closes) > Period
  PROVE  WilderRsi(closes) \in 0..100
<1>1. PICK n \in Nat \ {0} : n = Len(closes) - 1 /\ n >= Period
  BY WindowsTyped
<1>2. \A i \in 1..n : closes[i] \in Int /\ closes[i + 1] \in Int
  BY <1>1
<1>3. PICK gains, losses : /\ gains = [i \in 1..n |-> Over0(closes[i + 1] - closes[i])]
                           /\ losses = [i \in 1..n |-> Over0(closes[i] - closes[i + 1])]
  OBVIOUS
<1>4. gains \in [1..n -> Nat] /\ losses \in [1..n -> Nat]
  BY <1>2, <1>3 DEF Over0
<1>5. PICK gain \in Nat, loss \in Nat : gain = WilderAverage(gains).n /\ loss = WilderAverage(losses).n
  BY <1>1, <1>4, AverageTyped
<1>6. WilderRsi(closes) = IF loss = 0 THEN IF gain = 0 THEN 50 ELSE 100
                          ELSE (100 * gain) \div (gain + loss)
  BY <1>1, <1>3, <1>5 DEF WilderRsi, Between
<1> QED BY <1>6, PercentageTyped

\* Among the latest year of at least as many observations, the newest ranks from
\* the first place, its own, to the last.
LEMMA RankFull ==
  ASSUME NEW n \in Nat, n >= Annual, NEW obs \in [1..n -> Int]
  PROVE  RankLately(obs).d = Annual /\ RankLately(obs).n \in 1..Annual
<1>1. Annual \in Nat \ {0}
  BY WindowsTyped
<1>2. obs \in Seq(Int) /\ Len(obs) = n
  OBVIOUS
<1> DEFINE first == IF Annual < Len(obs) THEN Len(obs) - Annual + 1 ELSE 1
<1>3. first \in 1..n /\ n - first + 1 = Annual
  BY <1>1, <1>2
<1>4. PICK a \in 1..n : a = first /\ n - a + 1 = Annual
  BY <1>3
<1>5. Lately(obs, Annual) = SubSeq(obs, a, n)
  BY <1>2, <1>4 DEF Lately
<1>6. PICK y : y = SubSeq(obs, a, n)
  OBVIOUS
<1>7. y \in Seq(Int) /\ Len(y) = Annual /\ DOMAIN y = 1..Annual /\ y[Annual] = obs[n]
  BY <1>1, <1>2, <1>4, <1>6
<1>8. Newest(obs) = obs[n] /\ obs[n] \in Int
  BY <1>1, <1>2 DEF Newest
<1> DEFINE R == {i \in 1..Annual : y[i] <= obs[n]}
<1>9. RankLately(obs) = [n |-> Cardinality(R), d |-> Annual]
  BY <1>5, <1>6, <1>7, <1>8 DEF RankLately, PercentileRank
<1>10. Annual \in R
  BY <1>1, <1>7, <1>8
<1>11. R \in SUBSET (1..Annual)
  OBVIOUS
<1> HIDE DEF R
<1>12. IsFiniteSet(1..Annual) /\ Cardinality(1..Annual) = Annual
  BY <1>1, FS_Interval
<1>13. IsFiniteSet(R) /\ Cardinality(R) \in Nat /\ Cardinality(R) <= Annual
  BY <1>11, <1>12, FS_Subset, FS_CardinalityType
<1>14. Cardinality(R) # 0
  BY <1>10, <1>13, FS_EmptySet
<1> QED BY <1>1, <1>9, <1>13, <1>14

\* The volatility of a window of prices is a number: prices are positive, so the
\* logarithms of their returns are finite, and so is the root of their variance
\* (indicators.ts, rollingRealizedVolatility).
VolatilityIsANumber ==
    \A w \in Seq(Nat \ {0}) : Len(w) = Window + 1 => RealizedVolatility(w) \in Int

\* There is a year of observations of the volatility.
LEMMA VolatilityRank ==
  ASSUME VolatilityIsANumber, NEW closes \in Seq(Int),
         Len(closes) >= Annual + Window, \A i \in DOMAIN closes : closes[i] > 0
  PROVE  /\ RankLately(Volatilities(closes)).d = Annual
         /\ RankLately(Volatilities(closes)).n \in 1..Annual
<1>1. PICK n \in Nat : n = Len(closes) - (Window + 1) + 1 /\ n >= Annual
  BY WindowsTyped
<1>2. PICK obs : obs = Volatilities(closes)
  OBVIOUS
<1>3. obs = [k \in 1..n |-> RealizedVolatility(SubSeq(closes, k, k + (Window + 1) - 1))]
  BY <1>1, <1>2 DEF Volatilities, Rolling
<1>4. closes \in Seq(Nat \ {0})
  OBVIOUS
<1>5. \A k \in 1..n : RealizedVolatility(SubSeq(closes, k, k + (Window + 1) - 1)) \in Int
  <2> SUFFICES ASSUME NEW k \in 1..n
               PROVE  RealizedVolatility(SubSeq(closes, k, k + (Window + 1) - 1)) \in Int
    OBVIOUS
  <2>1. PICK w : w = SubSeq(closes, k, k + (Window + 1) - 1)
    OBVIOUS
  <2>2. w \in Seq(Nat \ {0}) /\ Len(w) = Window + 1
    BY <1>1, <1>4, <2>1, WindowsTyped
  <2> QED BY <2>1, <2>2 DEF VolatilityIsANumber
<1>6. obs \in [1..n -> Int]
  BY <1>3, <1>5
<1> QED BY <1>1, <1>2, <1>6, RankFull

\* A change of price is a number.
LEMMA ChangeTyped ==
  ASSUME NEW x \in Int, NEW y \in Int, y > 0
  PROVE  Change(x, y) \in Int
BY DEF Change

\* There is a year of observations of the gaps.
LEMMA GapRank ==
  ASSUME NEW s, GoodBars(s)
  PROVE  /\ RankLately(GapMaxima(s)).d = Annual
         /\ RankLately(GapMaxima(s)).n \in 1..Annual
<1>1. PICK m \in Nat : m = Len(s) - 1 /\ m - Window + 1 >= Annual /\ m - Window + 1 \in Nat
  BY WindowsTyped DEF GoodBars
<1>2. PICK gaps : gaps = Gaps(s)
  OBVIOUS
<1>3. gaps = [i \in 1..m |-> Change(s[i + 1].rawOpen, s[i].rawClose)]
  BY <1>1, <1>2 DEF Gaps, Between
<1>4. gaps \in Seq(Int) /\ Len(gaps) = m
  <2>1. \A i \in 1..m : Change(s[i + 1].rawOpen, s[i].rawClose) \in Int
    <3> SUFFICES ASSUME NEW i \in 1..m PROVE Change(s[i + 1].rawOpen, s[i].rawClose) \in Int
      OBVIOUS
    <3>1. s \in Seq(Bars) /\ i \in DOMAIN s /\ i + 1 \in DOMAIN s
      BY <1>1 DEF GoodBars
    <3>2. s[i] \in Bars /\ s[i + 1] \in Bars /\ ValidOhlcv(s[i])
      BY <3>1 DEF GoodBars
    <3>3. s[i + 1].rawOpen \in Int /\ s[i].rawClose \in Int /\ s[i].rawClose > 0
      BY <3>2 DEF Bars, ValidOhlcv
    <3> QED BY <3>3, ChangeTyped
  <2> QED BY <1>3, <2>1
<1>5. PICK n \in Nat : n = m - Window + 1 /\ n >= Annual
  BY <1>1
<1>6. PICK obs : obs = GapMaxima(s)
  OBVIOUS
<1> DEFINE part(k) == SubSeq(gaps, k, k + Window - 1)
<1>7. obs = [k \in 1..n |-> Max({Size(part(k)[i]) : i \in DOMAIN part(k)})]
  BY <1>2, <1>4, <1>5, <1>6 DEF GapMaxima, Rolling
<1>8. ASSUME NEW k \in 1..n PROVE Max({Size(part(k)[i]) : i \in DOMAIN part(k)}) \in Int
  <2>1. PICK w : w = part(k)
    OBVIOUS
  <2>2. w \in Seq(Int) /\ Len(w) = Window
    BY <1>4, <1>5, <2>1, WindowsTyped
  <2> DEFINE v == [i \in 1..Window |-> Size(w[i])]
  <2>3. DOMAIN w = 1..Window /\ \A i \in 1..Window : w[i] \in Int
    BY <2>2
  <2>4. \A i \in 1..Window : v[i] \in Int
    BY <2>3 DEF Size
  <2>5. {Size(w[i]) : i \in DOMAIN w} = {v[i] : i \in 1..Window}
    BY <2>3
  <2>6. Window \in Nat \ {0}
    BY WindowsTyped
  <2> HIDE DEF v
  <2>7. \E i \in 1..Window : Max({v[j] : j \in 1..Window}) = v[i]
    BY <2>4, <2>6, WithinSequence
  <2>8. Max({Size(w[i]) : i \in DOMAIN w}) \in Int
    BY <2>4, <2>5, <2>7
  <2> QED BY <2>1, <2>8
<1>9. obs \in [1..n -> Int]
  <2> HIDE DEF part
  <2> QED BY <1>7, <1>8
<1> QED BY <1>5, <1>6, <1>9, RankFull

\* What the validation of an answer says of its bars
LEMMA ValidatedBars ==
  ASSUME EvidenceInv, NEW p \in answers, Validates(p, p.cutoff, now)
  PROVE  /\ p.cutoff \in Nat /\ GoodBars(BarsUntil(p.bars, p.cutoff))
         /\ GoodBars(BarsUntil(p.benchmarkBars, p.cutoff))
<1>1. PublishedInv /\ AnswersInv
  BY DEF EvidenceInv
<1>2. PICK r \in Requests, t \in 0..now : p = Answer(KnownAt(t), r, t)
  BY <1>1 DEF AnswersInv
<1>a. PICK c : c = p.cutoff
  OBVIOUS
<1>3. p.cutoff = c /\ c \in Nat /\ t \in Nat
  BY <1>2, <1>a, InstantAssumption DEF Answer
<1>4. /\ p.bars = InOrder(Latest(KnownAt(t), "symbol"))
      /\ p.benchmarkBars = InOrder(Latest(KnownAt(t), "benchmark"))
  BY <1>2 DEF Answer
<1>5. BarsUntil(p.bars, c) \in Seq(Bars) /\ BarsUntil(p.benchmarkBars, c) \in Seq(Bars)
  BY <1>1, <1>3, <1>4, AnswerShows
<1>6. /\ ValidBars(p.bars, p.calendar, c, now, p.fetched)
      /\ ValidBars(p.benchmarkBars, p.calendar, c, now, p.fetched)
  BY <1>3 DEF Validates
<1> QED BY <1>3, <1>5, <1>6 DEF GoodBars, ValidBars, MinimumSessions

\* The features of an answer that is validated
LEMMA FeaturesOf ==
  ASSUME NEW p, NEW c
  PROVE  LET f == CompactState(p, c).features
             bars == BarsUntil(p.bars, c)
             closes == Each(bars, LAMBDA b : b.close)
         IN  /\ f.rsi = WilderRsi(closes)
             /\ f.atr = WilderAtr(bars)
             /\ f.volatilityPercentile = RankLately(Volatilities(closes))
             /\ f.gapRiskPercentile = RankLately(GapMaxima(bars))
             /\ f.drawdown = Change(Newest(closes), Max(ToSet(Lately(closes, Trailing))))
BY DEF CompactState, CalculateMarketFeatures

\* The closes of valid bars are prices.
LEMMA ClosesTyped ==
  ASSUME NEW s, GoodBars(s)
  PROVE  LET closes == Each(s, LAMBDA b : b.close)
         IN  /\ closes \in Seq(Int) /\ Len(closes) = Len(s)
             /\ \A i \in DOMAIN closes : closes[i] > 0
<1>1. s \in Seq(Bars)
  BY DEF GoodBars
<1>2. \A i \in DOMAIN s : s[i] \in Bars /\ s[i].close \in Int /\ s[i].close > 0
  <2> SUFFICES ASSUME NEW i \in DOMAIN s
               PROVE  s[i] \in Bars /\ s[i].close \in Int /\ s[i].close > 0
    OBVIOUS
  <2>1. s[i] \in Bars
    BY <1>1
  <2>2. s[i].close \in Int
    BY <2>1 DEF Bars
  <2>3. s[i].close > 0
    BY DEF GoodBars, ValidOhlcv
  <2> QED BY <2>1, <2>2, <2>3
<1>3. PICK closes : closes = [i \in DOMAIN s |-> s[i].close]
  OBVIOUS
<1>4. Each(s, LAMBDA b : b.close) = closes
  BY <1>3 DEF Each
<1>5. DOMAIN s = 1..Len(s) /\ Len(s) \in Nat
  BY <1>1
<1>6. closes \in Seq(Int) /\ Len(closes) = Len(s) /\ \A i \in DOMAIN closes : closes[i] > 0
  BY <1>2, <1>3, <1>5
<1> QED BY <1>4, <1>6

\* The state of a snapshot is that of an answer that was validated.
LEMMA SnapshotOf ==
  ASSUME NEW p, NEW c, NEW k, NEW s \in BuildMarketSnapshot(p, c, k)
  PROVE  /\ Validates(p, c, k)
         /\ s = [cutoff |-> c, knowledge |-> k, fetched |-> p.fetched, updated |-> p.updated,
                 sources |-> SourceManifest(p, c), state |-> CompactState(p, c)]
BY DEF BuildMarketSnapshot

\* The windows are full: no rank is one of fewer observations than a year, and no
\* average leaves what it is an average of, with any prices and any number of bars
\* that was accepted (snapshot.ts, the minimum of 272; indicators.ts).
THEOREM WindowsAreFullHolds ==
  ASSUME VolatilityIsANumber
  PROVE  Spec => []WindowsAreFull
<1>1. ASSUME EvidenceInv PROVE WindowsAreFull
  <2> SUFFICES ASSUME NEW p \in answers, NEW s \in BuildMarketSnapshot(p, p.cutoff, now)
               PROVE  LET bars == BarsUntil(p.bars, p.cutoff)
                          ranges == Between(bars, TrueRange)
                          f == s.state.features
                      IN  /\ \A r \in {f.volatilityPercentile, f.gapRiskPercentile} :
                                r.d = Annual /\ r.n \in 1..Annual
                          /\ \E i \in DOMAIN ranges : f.atr.n <= ranges[i] * f.atr.d
                          /\ \E i \in DOMAIN ranges : f.atr.n >= ranges[i] * f.atr.d
                          /\ f.rsi \in 0..100
    BY DEF WindowsAreFull
  <2>1. PICK c : c = p.cutoff
    OBVIOUS
  <2>2. Validates(p, p.cutoff, now) /\ s.state = CompactState(p, p.cutoff)
    BY SnapshotOf
  <2>3. PICK bars : bars = BarsUntil(p.bars, p.cutoff) /\ GoodBars(bars)
    BY <1>1, <2>2, ValidatedBars
  <2>4. PICK closes : closes = Each(bars, LAMBDA b : b.close)
    OBVIOUS
  <2>5. closes \in Seq(Int) /\ Len(closes) = Len(bars) /\ Len(closes) >= Annual + Window
        /\ \A i \in DOMAIN closes : closes[i] > 0
    BY <2>3, <2>4, ClosesTyped DEF GoodBars
  <2>6. PICK f : f = s.state.features
    OBVIOUS
  <2>7. /\ f.rsi = WilderRsi(closes)
        /\ f.atr = WilderAtr(bars)
        /\ f.volatilityPercentile = RankLately(Volatilities(closes))
        /\ f.gapRiskPercentile = RankLately(GapMaxima(bars))
    BY <2>2, <2>3, <2>4, <2>6, FeaturesOf
  <2>8. f.rsi \in 0..100
    <3>1. Len(closes) > Period
      BY <2>5, WindowsTyped
    <3> QED BY <2>5, <2>7, <3>1, RsiWithin
  <2>9. f.volatilityPercentile.d = Annual /\ f.volatilityPercentile.n \in 1..Annual
    BY <2>5, <2>7, VolatilityRank
  <2>10. f.gapRiskPercentile.d = Annual /\ f.gapRiskPercentile.n \in 1..Annual
    BY <2>3, <2>7, GapRank
  <2>11. PICK ranges : ranges = Between(bars, TrueRange)
    OBVIOUS
  <2>12. /\ \E i \in DOMAIN ranges : f.atr.n <= ranges[i] * f.atr.d
         /\ \E i \in DOMAIN ranges : f.atr.n >= ranges[i] * f.atr.d
    BY <2>3, <2>7, <2>11, AtrWithin
  <2> QED BY <2>3, <2>6, <2>8, <2>9, <2>10, <2>11, <2>12
<1> QED BY <1>1, EvidenceInvariance, PTL

-----------------------------------------------------------------------------
(* One judgment, one view *)

\* The price and the average true range of a snapshot
LEMMA PriceTyped ==
  ASSUME EvidenceInv, NEW p \in answers, NEW s \in BuildMarketSnapshot(p, p.cutoff, now)
  PROVE  /\ s.state.latestAdjustedClose \in Nat \ {0}
         /\ s.state.features.atr.n \in Nat /\ s.state.features.atr.d \in Nat \ {0}
<1>1. Validates(p, p.cutoff, now) /\ s.state = CompactState(p, p.cutoff)
  BY SnapshotOf
<1>2. PICK bars : bars = BarsUntil(p.bars, p.cutoff) /\ GoodBars(bars)
  BY <1>1, ValidatedBars
<1>3. s.state.latestAdjustedClose = Newest(bars).close /\ s.state.features.atr = WilderAtr(bars)
  <2>1. s.state.latestAdjustedClose = Newest(bars).close
    BY <1>1, <1>2 DEF CompactState
  <2>2. s.state.features.atr = WilderAtr(bars)
    <3>1. PICK f : f = s.state.features
      OBVIOUS
    <3>2. f.atr = WilderAtr(bars)
      <4>1. CompactState(p, p.cutoff).features.atr = WilderAtr(BarsUntil(p.bars, p.cutoff))
        BY DEF CompactState, CalculateMarketFeatures
      <4> QED BY <1>1, <1>2, <3>1, <4>1
    <3> QED BY <3>1, <3>2
  <2> QED BY <2>1, <2>2
<1>4. Newest(bars).close \in Nat \ {0}
  <2>1. bars \in Seq(Bars) /\ Len(bars) \in DOMAIN bars
    BY <1>2, WindowsTyped DEF GoodBars
  <2>2. bars[Len(bars)] \in Bars /\ bars[Len(bars)].close > 0
    BY <1>2, <2>1 DEF GoodBars, ValidOhlcv
  <2>3. bars[Len(bars)].close \in Int
    BY <2>2 DEF Bars
  <2> QED BY <2>2, <2>3 DEF Newest
<1> QED BY <1>2, <1>3, <1>4, AtrWithin

\* A size that is valid has a stop above nothing.
LEMMA StopTyped ==
  ASSUME NEW price \in Nat, NEW atr \in Nat, NEW c, SizeLongPosition(price, atr, c).valid
  PROVE  SizeLongPosition(price, atr, c).stop \in Nat \ {0}
<1>1. ~SizingRefused(price, atr, c)
  BY DEF SizeLongPosition, NoSize
<1>2. StopDistance(price, atr) \in Int /\ price * Mills \in Int
  BY DEF StopDistance, AtLeast, Mills
<1>3. StopDistance(price, atr) < price * Mills
  BY <1>1, <1>2 DEF SizingRefused
<1>4. SizeLongPosition(price, atr, c).stop = price * Mills - StopDistance(price, atr)
  BY <1>1 DEF SizeLongPosition
<1> QED BY <1>2, <1>3, <1>4

\* No threshold to enter is below the one to hold, or to be an UP in sprint.
\* Nothing in the code compares them.
EntryIsStricter ==
    /\ Entry.directionConfidence >= Hold.directionConfidence
    /\ Entry.scoreConfidence >= Hold.scoreConfidence
    /\ Entry.upProbability >= Sprint.selectedProbability
    /\ Entry.directionConfidence >= Sprint.directionConfidence
    /\ Entry.evidenceScore >= Sprint.evidenceScore
    /\ Entry.scoreConfidence >= Sprint.evidenceConfidence

\* The policy of the program is such a policy.
LEMMA PolicyV1IsStricter == Policy = PolicyV1 => EntryIsStricter
<1> SUFFICES ASSUME Policy = PolicyV1 PROVE EntryIsStricter
  OBVIOUS
<1>1. Unit \in Nat
  BY PolicyAssumption
<1>2. (6 * Unit) \div 10 >= (55 * Unit) \div 100 /\ (5 * Unit) \div 10 >= (5 * Unit) \div 10
      /\ 2 * Unit >= 2 * Unit
  BY <1>1
<1> QED BY <1>2 DEF EntryIsStricter, Entry, Hold, Sprint, PolicyV1

\* The thresholds are numbers, and what may be entered on is not to be left.
LEMMA ThresholdsTyped ==
  /\ Entry.upProbability \in Int /\ Entry.directionConfidence \in Int
  /\ Entry.scoreConfidence \in Int /\ Entry.evidenceScore \in Int
  /\ Entry.maximumDownsideScore \in Int
  /\ Hold.directionConfidence \in Int /\ Hold.scoreConfidence \in Int
  /\ Hold.maximumDownsideScoreExclusive \in Int /\ Hold.hazardExitScore \in Int
  /\ Sprint.selectedProbability \in Int /\ Sprint.directionConfidence \in Int
  /\ Sprint.evidenceConfidence \in Int /\ Sprint.evidenceScore \in Int
  /\ Entry.maximumDownsideScore < Hold.maximumDownsideScoreExclusive
  /\ Hold.maximumDownsideScoreExclusive <= Hold.hazardExitScore
<1>1. \A x : IsUnit(x) \/ IsScore(x) => x \in Int
  BY PolicyAssumption DEF IsUnit, IsScore
<1>2. ValidPolicy
  BY PolicyAssumption
<1> QED BY <1>1, <1>2 DEF ValidPolicy

\* What a judgment says is in numbers.
LEMMA JudgmentTyped ==
  ASSUME NEW j, IsPolicyJudgmentValid(j)
  PROVE  /\ j.direction.choice \in Directions
         /\ j.direction.confidence \in Int
         /\ \A d \in Directions : j.direction.probabilities[d] \in Int
         /\ j.downside_hazard.score \in Int /\ j.downside_hazard.confidence \in Int
         /\ j.evidence_sufficiency.score \in Int /\ j.evidence_sufficiency.confidence \in Int
<1>1. \A x : IsUnit(x) \/ IsScore(x) => x \in Int
  BY PolicyAssumption DEF IsUnit, IsScore
<1>2. ValidDirection(j.direction) /\ ValidScore(j.downside_hazard)
      /\ ValidScore(j.evidence_sufficiency)
  BY DEF IsPolicyJudgmentValid
<1> QED BY <1>1, <1>2 DEF ValidDirection, ValidScore, ValidDistribution

\* What may be entered on would be held, and is an UP in sprint.
LEMMA EnteredIsHeld ==
  ASSUME EntryIsStricter, NEW j, IsPolicyJudgmentValid(j), JudgedFitToEnter(j)
  PROVE  /\ HoldGatesPass(j) /\ EvaluateSprint(j, Fresh) = "up"
         /\ j.direction.choice # "down" /\ ~(j.downside_hazard.score >= Hold.hazardExitScore)
<1>1. /\ j.direction.choice = "up"
      /\ j.direction.confidence \in Int
      /\ j.direction.probabilities["up"] \in Int
      /\ j.downside_hazard.score \in Int /\ j.downside_hazard.confidence \in Int
      /\ j.evidence_sufficiency.score \in Int /\ j.evidence_sufficiency.confidence \in Int
  BY JudgmentTyped DEF JudgedFitToEnter, Directions
<1>2. /\ j.direction.confidence >= Hold.directionConfidence
      /\ j.downside_hazard.score < Hold.maximumDownsideScoreExclusive
      /\ j.downside_hazard.confidence >= Hold.scoreConfidence
      /\ ~(j.downside_hazard.score >= Hold.hazardExitScore)
  BY <1>1, ThresholdsTyped DEF EntryIsStricter, JudgedFitToEnter
<1>3. /\ j.direction.probabilities["up"] >= Sprint.selectedProbability
      /\ j.direction.confidence >= Sprint.directionConfidence
      /\ j.evidence_sufficiency.score >= Sprint.evidenceScore
      /\ j.evidence_sufficiency.confidence >= Sprint.evidenceConfidence
  BY <1>1, ThresholdsTyped DEF EntryIsStricter, JudgedFitToEnter
<1>4. HoldGatesPass(j)
  BY <1>1, <1>2 DEF HoldGatesPass
<1>5. EvaluateSprint(j, Fresh) = "up"
  BY <1>1, <1>3 DEF EvaluateSprint, Fresh
<1> QED BY <1>1, <1>2, <1>4, <1>5

\* A position whose judgment passes is held, its record cleared, where neither
\* the stop nor the horizon is reached.
LEMMA HeldWithCleanRecord ==
  ASSUME NEW j, IsPolicyJudgmentValid(j), HoldGatesPass(j), j.direction.choice # "down",
         ~(j.downside_hazard.score >= Hold.hazardExitScore),
         NEW stop \in Nat \ {0}, NEW p,
         p.stopPrice = stop, p.completedSessionLow = stop + 1,
         p.eligibleSessionsHeld = 0, p.horizonSessions = 20
  PROVE  LET held == MonitorOpenPosition([status |-> "completed", answers |-> j], Fresh, p)
         IN  held.action = "HOLD" /\ held.failures = 0
<1>1. \A i \in 1..5 : ~ExitRules(j, Fresh, p)[i].applies
  <2>1. /\ ~(p.completedSessionLow <= p.stopPrice) /\ ~(p.eligibleSessionsHeld >= p.horizonSessions)
        /\ ~(p.stopPrice <= 0) /\ ~(p.completedSessionLow < 0) /\ ~(p.horizonSessions <= 0)
    OBVIOUS
  <2>2. Fresh.valid /\ Fresh.fresh
    BY DEF Fresh
  <2>3. /\ ExitRules(j, Fresh, p)[1].applies = (p.completedSessionLow <= p.stopPrice)
        /\ ExitRules(j, Fresh, p)[2].applies = (p.eligibleSessionsHeld >= p.horizonSessions)
    BY DEF ExitRules
  <2>4. ~ExitRules(j, Fresh, p)[3].applies
    BY <2>1, <2>2 DEF ExitRules
  <2>5. ~ExitRules(j, Fresh, p)[4].applies /\ ~ExitRules(j, Fresh, p)[5].applies
    BY DEF ExitRules
  <2>6. \A i \in 1..5 : i = 1 \/ i = 2 \/ i = 3 \/ i = 4 \/ i = 5
    OBVIOUS
  <2> QED BY <2>1, <2>3, <2>4, <2>5, <2>6
<1>2. ExitReason(j, Fresh, p) = "none"
  BY <1>1 DEF ExitReason
<1>3. MonitorOpenPosition([status |-> "completed", answers |-> j], Fresh, p)
        = EvaluateOpenPosition(j, Fresh, p)
  BY DEF MonitorOpenPosition
<1> QED BY <1>2, <1>3 DEF EvaluateOpenPosition

\* What the policy enters on it would hold the session after, and call an UP in
\* sprint, whatever the judgment, if no threshold to enter is below one to hold
\* (policy.ts, evaluatePositionEntry, evaluateOpenPosition, evaluateSprint).
THEOREM OneJudgmentOneViewHolds ==
  ASSUME EntryIsStricter
  PROVE  Spec => []OneJudgmentOneView
<1>1. ASSUME EvidenceInv PROVE OneJudgmentOneView
  <2> SUFFICES ASSUME NEW i \in DOMAIN evaluation, evaluation[i].action = "ENTER"
               PROVE  LET e == evaluation[i]
                          held == MonitorOpenPosition(
                                     [status |-> "completed", answers |-> e.judgment], Fresh,
                                     [stopPrice |-> Sized(e.state).stop,
                                      completedSessionLow |-> Sized(e.state).stop + 1,
                                      eligibleSessionsHeld |-> 0, horizonSessions |-> 20,
                                      consecutiveHoldFailures |-> 1])
                      IN  /\ held.action = "HOLD" /\ held.failures = 0
                          /\ EvaluateSprint(e.judgment, Fresh) = "up"
    BY DEF OneJudgmentOneView
  <2>1. evaluation # <<>>
    OBVIOUS
  <2>a. PICK p \in answers :
          \E s \in BuildMarketSnapshot(p, p.cutoff, now), c \in Contracts, reply \in Replies :
            LET judgment == IF ReplyAccepted(reply, {Requested}) THEN AnswersOf(reply) ELSE NoJudgment
            IN  evaluation = <<[state |-> s.state, judgment |-> judgment, mode |-> c.mode,
                                action |-> Decision(c.mode, s.state, judgment)]>>
    BY <1>1, <2>1 DEF EvidenceInv, EvaluationInv
  <2>2. PICK s \in BuildMarketSnapshot(p, p.cutoff, now), c \in Contracts, reply \in Replies :
            LET judgment == IF ReplyAccepted(reply, {Requested}) THEN AnswersOf(reply) ELSE NoJudgment
            IN  evaluation = <<[state |-> s.state, judgment |-> judgment, mode |-> c.mode,
                                action |-> Decision(c.mode, s.state, judgment)]>>
    BY <2>a
  <2>3. PICK j : j = IF ReplyAccepted(reply, {Requested}) THEN AnswersOf(reply) ELSE NoJudgment
    OBVIOUS
  <2>4. PICK e : e = [state |-> s.state, judgment |-> j, mode |-> c.mode,
                      action |-> Decision(c.mode, s.state, j)]
    OBVIOUS
  <2>5. evaluation = <<e>> /\ evaluation[i] = e
    BY <2>2, <2>3, <2>4
  <2>6. e.state = s.state /\ e.judgment = j /\ Decision(c.mode, s.state, j) = "ENTER"
    BY <2>4, <2>5
  <2>7. EvaluatePositionEntry(j, Fresh, RiskOf(s.state), Sized(s.state)) = "ENTER"
    <3>1. EvaluateSprint(j, Fresh) # "ENTER"
      BY JudgmentTyped DEF EvaluateSprint, Directions
    <3> QED BY <2>6, <3>1 DEF Decision
  <2>8. IsPolicyJudgmentValid(j) /\ JudgedFitToEnter(j) /\ Sized(s.state).valid
    BY <2>7 DEF EvaluatePositionEntry
  <2>9. Sized(s.state).stop \in Nat \ {0}
    <3>1. PICK price \in Nat \ {0}, n \in Nat, d \in Nat \ {0} :
            price = s.state.latestAdjustedClose /\ n = s.state.features.atr.n
              /\ d = s.state.features.atr.d
      BY <1>1, <2>2, PriceTyped
    <3>2. n \div d \in Nat /\ price \in Nat
      OBVIOUS
    <3>3. Sized(s.state) = SizeLongPosition(price, n \div d, Capital)
      BY <3>1 DEF Sized
    <3>4. SizeLongPosition(price, n \div d, Capital).valid
      BY <2>8, <3>3
    <3> QED BY <3>2, <3>3, <3>4, StopTyped
  <2>10. PICK stop \in Nat \ {0} : stop = Sized(s.state).stop
    BY <2>9
  <2>11. PICK q : q = [stopPrice |-> stop, completedSessionLow |-> stop + 1,
                       eligibleSessionsHeld |-> 0, horizonSessions |-> 20,
                       consecutiveHoldFailures |-> 1]
    OBVIOUS
  <2>12. /\ HoldGatesPass(j) /\ EvaluateSprint(j, Fresh) = "up"
         /\ j.direction.choice # "down" /\ ~(j.downside_hazard.score >= Hold.hazardExitScore)
    BY <2>8, EnteredIsHeld
  <2>13. q.stopPrice = stop /\ q.completedSessionLow = stop + 1 /\ q.eligibleSessionsHeld = 0
         /\ q.horizonSessions = 20
    BY <2>11
  <2>14. PICK held : held = MonitorOpenPosition([status |-> "completed", answers |-> j], Fresh, q)
    OBVIOUS
  <2>15. held.action = "HOLD" /\ held.failures = 0
    BY <2>8, <2>12, <2>13, <2>14, HeldWithCleanRecord
  <2> QED BY <2>5, <2>6, <2>10, <2>11, <2>12, <2>14, <2>15
<1> QED BY <1>1, EvidenceInvariance, PTL

-----------------------------------------------------------------------------
(* Nothing is refused later *)

\* In a calendar the later session has the later place.
LEMMA AscendingPlaces ==
  ASSUME NEW s \in Seq(Nat), Ascending(s), NEW i \in DOMAIN s, NEW j \in DOMAIN s, s[i] < s[j]
  PROVE  i < j
<1> DEFINE P == {n \in Nat : j + n \in DOMAIN s => s[j] <= s[j + n]}
<1>1. 0 \in P
  OBVIOUS
<1>2. ASSUME NEW n \in Nat, n \in P PROVE n + 1 \in P
  <2> SUFFICES ASSUME j + (n + 1) \in DOMAIN s PROVE s[j] <= s[j + (n + 1)]
    OBVIOUS
  <2>0. PICK m \in Nat : m = Len(s) /\ DOMAIN s = 1..m
    OBVIOUS
  <2>1. j + n \in DOMAIN s /\ j + n \in 1..(Len(s) - 1) /\ (j + n) + 1 = j + (n + 1)
    BY <2>0
  <2>2. s[j + n] < s[(j + n) + 1]
    BY <2>1 DEF Ascending
  <2>3. s[j] \in Nat /\ s[j + n] \in Nat /\ s[j + (n + 1)] \in Nat
    BY <2>1
  <2> QED BY <1>2, <2>1, <2>2, <2>3
<1>3. \A n \in Nat : n \in P
  <2> HIDE DEF P
  <2> QED BY <1>1, <1>2, Keeping!NatSetInduction
<1> SUFFICES ASSUME i >= j PROVE FALSE
  OBVIOUS
<1>4. i - j \in Nat /\ j + (i - j) = i
  OBVIOUS
<1>5. s[j] <= s[i]
  BY <1>3, <1>4
<1>6. s[i] \in Nat /\ s[j] \in Nat
  OBVIOUS
<1> QED BY <1>5, <1>6

\* What is ahead is ahead by at least a session.
LEMMA EventsAreAhead ==
  ASSUME NEW calendar, calendar.sessions \in Seq(Nat), NEW cutoff \in Nat,
         ValidCalendar(calendar, cutoff), NEW status, NEW knowledge, NEW fetched,
         ValidEvents(status, calendar, cutoff, knowledge, fetched),
         NEW e \in UpcomingEvents(status, calendar, cutoff)
  PROVE  e.sessionsAway \in Nat \ {0}
<1>1. PICK x \in status.events :
         /\ x.session > cutoff
         /\ e.sessionsAway = PlaceOf(calendar, x.session) - PlaceOf(calendar, cutoff)
  BY DEF UpcomingEvents
<1>2. x.session \in ToSet(calendar.sessions) /\ cutoff \in ToSet(calendar.sessions)
      /\ Ascending(calendar.sessions)
  BY <1>1 DEF ValidEvents, ValidCalendar
<1>3. PICK s \in Seq(Nat) : s = calendar.sessions
  OBVIOUS
<1>4. PICK i : i = PlaceOf(calendar, x.session)
  OBVIOUS
<1>5. PICK j : j = PlaceOf(calendar, cutoff)
  OBVIOUS
<1>6. i \in DOMAIN s /\ s[i] = x.session
  BY <1>2, <1>3, <1>4 DEF PlaceOf, ToSet
<1>7. j \in DOMAIN s /\ s[j] = cutoff
  BY <1>2, <1>3, <1>5 DEF PlaceOf, ToSet
<1>8. s[j] < s[i] /\ i \in Nat /\ j \in Nat
  <2>1. s[i] \in Nat
    BY <1>6
  <2> QED BY <1>1, <1>6, <1>7, <2>1
<1>9. j < i
  BY <1>2, <1>3, <1>6, <1>7, <1>8, AscendingPlaces
<1> QED BY <1>1, <1>4, <1>5, <1>8, <1>9

\* The next event is not behind.
LEMMA NextEventTyped ==
  ASSUME NEW upcoming, \A e \in upcoming : e.sessionsAway \in Nat \ {0}
  PROVE  (IF upcoming = {} THEN Never ELSE Min({e.sessionsAway : e \in upcoming})) >= 0
<1>1. Never \in Nat
  BY InstantAssumption
<1>2. ASSUME upcoming # {} PROVE Min({e.sessionsAway : e \in upcoming}) \in Nat
  <2> DEFINE S == {e.sessionsAway : e \in upcoming}
  <2>1. S \subseteq Nat /\ S # {}
    BY <1>2
  <2> HIDE DEF S
  <2>2. PICK x \in S : \A y \in S : x <= y
    BY <2>1, Keeping!Least
  <2>3. Min(S) \in S
    BY <2>2 DEF Min
  <2> QED BY <2>1, <2>3 DEF S
<1>3. \A n \in Nat : n >= 0
  OBVIOUS
<1> QED BY <1>1, <1>2, <1>3

\* The loss from the highest of the latest closes
LEMMA DrawdownTyped ==
  ASSUME NEW closes \in Seq(Int), closes # <<>>, \A i \in DOMAIN closes : closes[i] > 0
  PROVE  Change(Newest(closes), Max(ToSet(Lately(closes, Trailing)))) \in -1000..0
<1>1. PICK n \in Nat \ {0} : n = Len(closes) /\ closes[n] \in Int /\ closes[n] > 0
  <2>1. Len(closes) \in Nat \ {0} /\ Len(closes) \in DOMAIN closes
    OBVIOUS
  <2> QED BY <2>1
<1> DEFINE first == IF Trailing < Len(closes) THEN Len(closes) - Trailing + 1 ELSE 1
<1>2. first \in 1..n
  BY <1>1, WindowsTyped
<1>3. PICK a \in 1..n : a = first
  BY <1>2
<1>4. PICK y, m : y = SubSeq(closes, a, n) /\ m = n - a + 1
  OBVIOUS
<1>5. m \in Nat \ {0}
  BY <1>4
<1>6. DOMAIN y = 1..m /\ y[m] = closes[n] /\ \A i \in 1..m : y[i] \in Int /\ y[i] > 0
  <2>1. y = [i \in 1..m |-> closes[i + a - 1]]
    BY <1>1, <1>4
  <2>2. \A i \in 1..m : i + a - 1 \in DOMAIN closes
    BY <1>1, <1>4
  <2>3. \A i \in DOMAIN closes : closes[i] \in Int
    OBVIOUS
  <2>4. m + a - 1 = n /\ m \in 1..m
    BY <1>4, <1>5
  <2> QED BY <2>1, <2>2, <2>3, <2>4
<1>7. Lately(closes, Trailing) = y
  BY <1>1, <1>3, <1>4 DEF Lately
<1>8. PICK i \in 1..m : Max({y[k] : k \in 1..m}) = y[i] /\ \A k \in 1..m : y[k] <= y[i]
  BY <1>5, <1>6, WithinSequence
<1>9. ToSet(y) = {y[k] : k \in 1..m}
  BY <1>6 DEF ToSet
<1>10. PICK x \in Nat \ {0}, z \in Nat \ {0} : x = closes[n] /\ z = y[i] /\ x <= z
  <2>1. m \in 1..m
    BY <1>5
  <2> QED BY <1>1, <1>6, <1>8, <2>1
<1>11. Change(Newest(closes), Max(ToSet(Lately(closes, Trailing)))) = (1000 * x) \div z - 1000
  BY <1>1, <1>7, <1>8, <1>9, <1>10 DEF Change, Newest
<1>12. (1000 * x) \div z \in 0..1000
  <2>1. PICK u \in Nat : u = 1000 * x /\ u <= 1000 * z
    BY <1>10
  <2>2. PICK q \in Int : q = u \div z
    OBVIOUS
  <2>3. z * q <= u /\ u < z * q + z
    BY <2>2
  <2>4. q >= 0
    <3> SUFFICES ASSUME q <= -1 PROVE FALSE
      BY <2>2
    <3>1. q * z <= (-1) * z
      BY Scaled
    <3> QED BY <2>3, <3>1
  <2>5. q <= 1000
    <3> SUFFICES ASSUME q >= 1001 PROVE FALSE
      BY <2>2
    <3>1. 1001 * z <= q * z
      BY Scaled
    <3> QED BY <2>1, <2>3, <3>1
  <2> QED BY <2>1, <2>2, <2>4, <2>5
<1> QED BY <1>11, <1>12

\* The calendar of an answer is the provider's.
LEMMA CalendarOf ==
  ASSUME EvidenceInv, NEW p \in answers
  PROVE  /\ p.calendar.sessions \in Seq(Nat) /\ p.cutoff \in Nat /\ p.fetched \in 0..now
         /\ now \in 0..LastInstant
<1>1. PICK r \in Requests, t \in 0..now : p = Answer(KnownAt(t), r, t)
  BY DEF EvidenceInv, AnswersInv
<1>2. p.calendar.sessions = Sessions /\ p.cutoff = r.cutoff /\ p.fetched = t
  BY <1>1 DEF Answer
<1> QED BY <1>1, <1>2, InstantAssumption DEF EvidenceInv, PublishedInv

\* The ledger takes a snapshot for what was known, if its session had closed.
LEMMA SnapshotsArePast ==
  ASSUME EvidenceInv, NEW p \in answers, NEW s \in BuildMarketSnapshot(p, p.cutoff, now)
  PROVE  SnapshotIsPast([s EXCEPT !.cutoff = CloseOf(@)]) <=> CloseOf(p.cutoff) <= now
<1>1. PICK c \in Nat : c = p.cutoff
  BY CalendarOf
<1>2. /\ Validates(p, c, now)
      /\ s = [cutoff |-> c, knowledge |-> now, fetched |-> p.fetched, updated |-> p.updated,
              sources |-> SourceManifest(p, c), state |-> CompactState(p, c)]
  BY <1>1, SnapshotOf
<1>3. PICK r : r = [s EXCEPT !.cutoff = CloseOf(@)]
  OBVIOUS
<1>4. /\ r.cutoff = CloseOf(c) /\ r.knowledge = now /\ r.fetched = p.fetched /\ r.updated = p.updated
      /\ r.sources = SourceManifest(p, c)
  BY <1>2, <1>3
<1>6. p.fetched <= now /\ p.updated <= p.fetched
  BY <1>2 DEF Validates, InTime
<1>7. /\ \A x \in {p, p.calendar, p.events} : Available(x, now, p.fetched)
      /\ \A b \in ToSet(BarsUntil(p.bars, c)) \cup ToSet(BarsUntil(p.benchmarkBars, c)) :
            Available(b, now, p.fetched)
      /\ \A a \in ActionsUntil(p.actions, c) \cup ActionsUntil(p.benchmarkActions, c) :
            Available(a, now, p.fetched)
  <2>1. \A x \in {p, p.calendar, p.events} : Available(x, now, p.fetched)
    BY <1>2 DEF Validates, InTime, ValidEvents
  <2>2. \A b \in ToSet(BarsUntil(p.bars, c)) \cup ToSet(BarsUntil(p.benchmarkBars, c)) :
            Available(b, now, p.fetched)
    BY <1>2 DEF Validates, ValidBars, ToSet
  <2>3. \A a \in ActionsUntil(p.actions, c) \cup ActionsUntil(p.benchmarkActions, c) :
            Available(a, now, p.fetched)
    BY <1>2 DEF Validates, ValidActions
  <2> QED BY <2>1, <2>2, <2>3
<1>8. \A x \in SourceManifest(p, c) : x.available <= now /\ x.available <= p.fetched
  <2>1. \A x : Available(x, now, p.fetched) =>
          Reference(x).available <= now /\ Reference(x).available <= p.fetched
    BY DEF Available, Reference
  <2> QED BY <1>7, <2>1 DEF SourceManifest
<1>9. SourceManifest(p, c) # {}
  <2>1. Reference(p) \in SourceManifest(p, c)
    BY DEF SourceManifest
  <2> QED BY <2>1
<1>10. OneVersion(SourceManifest(p, c))
  BY <1>2 DEF Validates
<1>11. \A x, y \in SourceManifest(p, c) : x.name = y.name /\ x.revision = y.revision => x = y
  BY <1>10 DEF OneVersion
<1>12. SnapshotIsPast(r) <=> CloseOf(c) <= now
  BY <1>4, <1>6, <1>8, <1>9, <1>11 DEF SnapshotIsPast
<1> QED BY <1>1, <1>3, <1>12

\* The risk of every snapshot is defined, and its state is approved if its names
\* and its events are.
LEMMA RiskIsDefined ==
  ASSUME VolatilityIsANumber,
         EvidenceInv, NEW p \in answers, NEW s \in BuildMarketSnapshot(p, p.cutoff, now)
  PROVE  /\ RiskDefined(s.state.features)
         /\ Approved(s.state) <=>
              /\ {s.state.symbol, s.state.benchmarkSymbol} \subseteq Tickers
              /\ \A e \in s.state.upcomingKnownEvents : e.type \in IssuerEventTypes
<1>1. PICK c \in Nat : c = p.cutoff
  BY CalendarOf
<1>2. Validates(p, p.cutoff, now) /\ s.state = CompactState(p, c)
  BY <1>1, SnapshotOf
<1>3. PICK bars : bars = BarsUntil(p.bars, c) /\ GoodBars(bars)
  BY <1>1, <1>2, ValidatedBars
<1>4. PICK closes : closes = Each(bars, LAMBDA b : b.close)
  OBVIOUS
<1>5. closes \in Seq(Int) /\ Len(closes) = Len(bars) /\ Len(closes) >= Annual + Window
      /\ \A i \in DOMAIN closes : closes[i] > 0
  BY <1>3, <1>4, ClosesTyped DEF GoodBars
<1>6. PICK f : f = s.state.features
  OBVIOUS
<1>7. /\ f.atr = WilderAtr(bars)
      /\ f.volatilityPercentile = RankLately(Volatilities(closes))
      /\ f.gapRiskPercentile = RankLately(GapMaxima(bars))
      /\ f.drawdown = Change(Newest(closes), Max(ToSet(Lately(closes, Trailing))))
  BY <1>2, <1>3, <1>4, <1>6, FeaturesOf
<1>8. f.volatilityPercentile.d = Annual /\ f.volatilityPercentile.n \in 1..Annual
  BY <1>5, <1>7, VolatilityRank
<1>9. f.gapRiskPercentile.d = Annual /\ f.gapRiskPercentile.n \in 1..Annual
  BY <1>3, <1>7, GapRank
<1>10. f.drawdown \in -1000..0
  <2>1. closes # <<>>
    BY <1>5, WindowsTyped
  <2> QED BY <1>5, <1>7, <2>1, DrawdownTyped
<1>11. f.atr.n \in Nat
  BY <1>3, <1>7, AtrWithin
<1>12. PICK upcoming : upcoming = UpcomingEvents(p.events, p.calendar, c)
  OBVIOUS
<1>13. \A e \in upcoming : e.sessionsAway \in Nat \ {0}
  <2>1. p.calendar.sessions \in Seq(Nat)
    BY CalendarOf
  <2>2. ValidCalendar(p.calendar, c) /\ ValidEvents(p.events, p.calendar, c, now, p.fetched)
    BY <1>1, <1>2 DEF Validates
  <2> QED BY <1>12, <2>1, <2>2, EventsAreAhead
<1>14. f.sessionsToKnownEvent = IF upcoming = {} THEN Never
                                ELSE Min({e.sessionsAway : e \in upcoming})
  BY <1>2, <1>6, <1>12 DEF CompactState, CalculateMarketFeatures
<1>15. f.sessionsToKnownEvent >= 0
  BY <1>13, <1>14, NextEventTyped
<1>16. RiskDefined(f)
  <2>1. \A r \in {f.volatilityPercentile, f.gapRiskPercentile} : r.d > 0 /\ r.n \in 0..r.d
    BY <1>8, <1>9, WindowsTyped
  <2>2. f.atr.n >= 0
    BY <1>11
  <2> QED BY <1>10, <1>15, <2>1, <2>2 DEF RiskDefined
<1>17. \A h \in DOMAIN f.trend : f.trend[h] \in Directions
  <2>1. \A x : TrendDirection(x) \in Directions
    BY DEF TrendDirection, Directions
  <2>2. PICK returns : f.trend = [h \in Horizons |-> TrendDirection(returns[h])]
    <3>1. PICK returns : returns = [h \in Horizons |-> PeriodReturn(closes, h)]
      OBVIOUS
    <3>2. f.trend = [h \in Horizons |-> TrendDirection(PeriodReturn(closes, h))]
      BY <1>2, <1>3, <1>4, <1>6 DEF CompactState, CalculateMarketFeatures
    <3>3. f.trend = [h \in Horizons |-> TrendDirection(returns[h])]
      BY <3>1, <3>2
    <3> QED BY <3>3
  <2> QED BY <2>1, <2>2
<1>18. f.benchmarkRegime \in {"risk_on", "mixed", "risk_off"}
  <2>1. \A x : BenchmarkRegime(x) \in {"risk_on", "mixed", "risk_off"}
    BY DEF BenchmarkRegime
  <2>2. \E x : f.benchmarkRegime = BenchmarkRegime(x)
    <3>1. f = CalculateMarketFeatures(BarsUntil(p.bars, c), BarsUntil(p.benchmarkBars, c),
                 IF upcoming = {} THEN Never ELSE Min({e.sessionsAway : e \in upcoming}))
      BY <1>2, <1>6, <1>12 DEF CompactState
    <3>2. f.benchmarkRegime = BenchmarkRegime(Each(BarsUntil(p.benchmarkBars, c), LAMBDA b : b.close))
      BY <3>1 DEF CalculateMarketFeatures
    <3> QED BY <3>2
  <2> QED BY <2>1, <2>2
<1>19. s.state.latestAdjustedClose > 0
  BY PriceTyped
<1>20. s.state.upcomingKnownEvents = upcoming
  BY <1>2, <1>12 DEF CompactState
<1>21. \A e \in s.state.upcomingKnownEvents : e.sessionsAway >= 0
  BY <1>13, <1>20
<1> QED BY <1>6, <1>15, <1>16, <1>17, <1>18, <1>19, <1>21 DEF Approved

\* A state is asked about under each contract if it is approved and there is room
\* for it, and what is asked then validates where it is sent.
LEMMA RequestsValidate ==
  ASSUME NEW state, NEW c \in Contracts
  PROVE  IF Approved(state) /\ BytesOf(Wire(state, c.mode, c.horizon)) <= MaxRequestBytes
         THEN \E r \in BuildJudgmentRequest(state, c.mode, c.horizon, "sandbox", NoBand) :
                 FixtureAnswers(r)
         ELSE BuildJudgmentRequest(state, c.mode, c.horizon, "sandbox", NoBand) = {}
<1>1. PICK band : band = ExpectedFlatBand(c.mode, c.horizon) /\ band # NoBand
  BY ContractAssumption
<1>2. PICK wire : wire = Wire(state, c.mode, c.horizon)
  OBVIOUS
<1>3. PICK r : r = [evaluation |-> "sandbox", wire |-> wire, body |-> wire]
  OBVIOUS
<1>4. CASE Approved(state) /\ BytesOf(wire) <= MaxRequestBytes
  <2>1. r \in BuildJudgmentRequest(state, c.mode, c.horizon, "sandbox", NoBand)
    BY <1>1, <1>2, <1>3, <1>4 DEF BuildJudgmentRequest
  <2>2. BuildJudgmentRequest(state, c.mode, c.horizon, "sandbox", band) = {r}
    BY <1>1, <1>2, <1>3, <1>4 DEF BuildJudgmentRequest
  <2>3. /\ wire.state = state /\ wire.mode = c.mode /\ wire.horizon = c.horizon
        /\ wire.band = band
    BY <1>1, <1>2 DEF Wire
  <2>4. RequestValidates(r)
    BY <1>3, <2>2, <2>3 DEF RequestValidates
  <2> QED BY <1>2, <1>3, <1>4, <2>1, <2>4 DEF FixtureAnswers
<1>5. CASE ~(Approved(state) /\ BytesOf(wire) <= MaxRequestBytes)
  BY <1>2, <1>5 DEF BuildJudgmentRequest
<1> QED BY <1>4, <1>5

\* A choice that is accepted is one for the policy.
LEMMA ChoiceIsValid ==
  ASSUME NEW a, ChoiceAnswer(a)
  PROVE  ValidDirection(a)
<1>1. \A x : IsUnit(x) => x \in Int
  BY PolicyAssumption DEF IsUnit
<1>2. \A d \in Directions : a.probabilities[d] \in Int
  BY <1>1 DEF ChoiceAnswer
<1>3. PICK u \in Int, f \in Int, d \in Int :
        u = a.probabilities["up"] /\ f = a.probabilities["flat"] /\ d = a.probabilities["down"]
  BY <1>2 DEF Directions
<1>4. {a.probabilities[x] : x \in Directions} = {u, f, d}
  BY <1>3 DEF Directions
<1>5. PICK m \in Int : m = Max({u, f, d}) /\ m >= u /\ m >= f /\ m >= d
  <2>1. Max({u, f, d}) \in {u, f, d} /\ Max({u, f, d}) >= u
    BY GreatestOfThree
  <2>2. {u, f, d} = {f, u, d} /\ {u, f, d} = {d, u, f}
    OBVIOUS
  <2>3. Max({f, u, d}) >= f /\ Max({d, u, f}) >= d
    BY GreatestOfThree
  <2> QED BY <2>1, <2>2, <2>3
<1>6. PICK chosen \in Int : chosen = a.probabilities[a.choice]
  BY <1>2 DEF ChoiceAnswer
<1>7. m - chosen <= SumTolerance /\ SumTolerance \in Int
  BY <1>4, <1>5, <1>6, PolicyAssumption DEF ChoiceAnswer
<1>8. \A x \in Directions : a.probabilities[x] - a.probabilities[a.choice] <= SumTolerance
  BY <1>3, <1>5, <1>6, <1>7 DEF Directions
<1> QED BY <1>8 DEF ChoiceAnswer, ValidDirection, ValidDistribution

\* The answers of a reply that is accepted are a judgment for the policy.
LEMMA AcceptedIsValid ==
  ASSUME NEW reply, NEW expected, ReplyAccepted(reply, expected), AnswersOf(reply) # NoJudgment
  PROVE  IsPolicyJudgmentValid(AnswersOf(reply))
<1> DEFINE A == {reply.answers[i] : i \in DOMAIN reply.answers}
<1>1. ASSUME NEW q \in QuestionIds PROVE AnswerAccepted(q, AnswersOf(reply)[q])
  <2>1. q \in {reply.answers[i].question : i \in DOMAIN reply.answers}
    BY DEF ReplyAccepted
  <2>2. \E x \in A : x.question = q
    BY <2>1
  <2>3. PICK x : x = CHOOSE y \in A : y.question = q
    OBVIOUS
  <2>4. x \in A /\ x.question = q
    BY <2>2, <2>3
  <2>5. AnswerAccepted(x.question, x.answer)
    BY <2>4 DEF ReplyAccepted
  <2>6. AnswersOf(reply)[q] = x.answer
    BY <2>3 DEF AnswersOf
  <2> QED BY <2>4, <2>5, <2>6
<1>2. PICK j : j = AnswersOf(reply)
  OBVIOUS
<1>3. ChoiceAnswer(j.direction)
  BY <1>1, <1>2 DEF AnswerAccepted, QuestionIds
<1>4. /\ ScoreAnswer(j.setup_quality, "setup_quality")
      /\ ScoreAnswer(j.downside_hazard, "downside_hazard")
      /\ ScoreAnswer(j.evidence_sufficiency, "evidence_sufficiency")
  BY <1>1, <1>2 DEF AnswerAccepted, QuestionIds
<1>5. \A a, q : ScoreAnswer(a, q) => ValidScore(a)
  BY DEF ScoreAnswer, ValidScore, ValidDistribution
<1> QED BY <1>2, <1>3, <1>4, <1>5, ChoiceIsValid DEF IsPolicyJudgmentValid

\* Five validations that were written apart disagree on a snapshot known before its
\* session closed, on the names, the types of events and the size of a request, and
\* on nothing else: not on a feature the risk is made of, nor on a request that was
\* built, nor on a reply that was accepted (in-memory.ts, request.ts,
\* market-risk.ts, judgment-validation.ts).
THEOREM NothingElseIsRefusedHolds ==
  ASSUME VolatilityIsANumber
  PROVE  Spec => []NothingElseIsRefused
<1>1. ASSUME EvidenceInv PROVE NothingElseIsRefused
  <2>1. ASSUME NEW p \in answers, NEW s \in BuildMarketSnapshot(p, p.cutoff, now)
        PROVE  /\ SnapshotIsPast([s EXCEPT !.cutoff = CloseOf(@)]) <=> CloseOf(p.cutoff) <= now
               /\ RiskDefined(s.state.features)
    BY <1>1, SnapshotsArePast, RiskIsDefined
  <2>a. ASSUME NEW p \in answers, NEW s \in BuildMarketSnapshot(p, p.cutoff, now), NEW c \in Contracts
        PROVE  IF Askable(s.state, c)
               THEN \E r \in BuildJudgmentRequest(s.state, c.mode, c.horizon, "sandbox", NoBand) :
                       FixtureAnswers(r)
               ELSE BuildJudgmentRequest(s.state, c.mode, c.horizon, "sandbox", NoBand) = {}
    <3>1. PICK state : state = s.state
      OBVIOUS
    <3>2. Approved(state) <=> /\ {state.symbol, state.benchmarkSymbol} \subseteq Tickers
                              /\ \A e \in state.upcomingKnownEvents : e.type \in IssuerEventTypes
      BY <1>1, <3>1, RiskIsDefined
    <3>3. Askable(state, c) <=>
            Approved(state) /\ BytesOf(Wire(state, c.mode, c.horizon)) <= MaxRequestBytes
      BY <3>2 DEF Askable
    <3> QED BY <3>1, <3>3, RequestsValidate
  <2>2. ASSUME NEW i \in DOMAIN evaluation, evaluation[i].judgment # NoJudgment
        PROVE  IsPolicyJudgmentValid(evaluation[i].judgment)
    <3>1. evaluation # <<>>
      OBVIOUS
    <3>2. PICK p \in answers :
            \E s \in BuildMarketSnapshot(p, p.cutoff, now), c \in Contracts, reply \in Replies :
              LET judgment == IF ReplyAccepted(reply, {Requested}) THEN AnswersOf(reply) ELSE NoJudgment
              IN  evaluation = <<[state |-> s.state, judgment |-> judgment, mode |-> c.mode,
                                  action |-> Decision(c.mode, s.state, judgment)]>>
      BY <1>1, <3>1 DEF EvidenceInv, EvaluationInv
    <3>3. PICK s \in BuildMarketSnapshot(p, p.cutoff, now), c \in Contracts, reply \in Replies :
              LET judgment == IF ReplyAccepted(reply, {Requested}) THEN AnswersOf(reply) ELSE NoJudgment
              IN  evaluation = <<[state |-> s.state, judgment |-> judgment, mode |-> c.mode,
                                  action |-> Decision(c.mode, s.state, judgment)]>>
      BY <3>2
    <3>4. PICK j : j = IF ReplyAccepted(reply, {Requested}) THEN AnswersOf(reply) ELSE NoJudgment
      OBVIOUS
    <3>5. PICK e : e = [state |-> s.state, judgment |-> j, mode |-> c.mode,
                        action |-> Decision(c.mode, s.state, j)]
      OBVIOUS
    <3>6. evaluation = <<e>> /\ evaluation[i] = e /\ e.judgment = j
      BY <3>3, <3>4, <3>5
    <3> QED BY <2>2, <3>4, <3>6, AcceptedIsValid
  <2> QED BY <2>1, <2>a, <2>2 DEF NothingElseIsRefused
<1> QED BY <1>1, EvidenceInvariance, PTL
=============================================================================
