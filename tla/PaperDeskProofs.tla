--------------------------- MODULE PaperDeskProofs ---------------------------
(***************************************************************************)
(* Proofs about PaperDesk for any finite set of symbols, any deposit,      *)
(* ranking and observations, any horizon and any number of sessions.       *)
(*                                                                         *)
(* DeskInv is about the desk's record of each position and the history of  *)
(* its judgments; with what monitoring makes of an open position it gives  *)
(* NeverOverstays, and with what allocation fills, CommitmentsFit.         *)
(* IdsInv is about the ids of the log; with it the strict and the lenient  *)
(* reading of a log agree.  SerialInv relates the log's projection to the  *)
(* desk's record and the pending event: nothing that is appended to a log  *)
(* unless a submission raced another is ever refused.                      *)
(*                                                                         *)
(* The projection, the lenient reading, the ranking and the allocation are *)
(* folds, and each is an instance of FoldInduction.  The sums of money and *)
(* risk are over finite sets of symbols, and by induction on their size.   *)
(***************************************************************************)
EXTENDS PaperDesk, FiniteSetTheorems, TLAPS

\* The folds over a log: the strict reading, and the lenient one.
Projection == INSTANCE FoldInduction WITH Op <- LAMBDA c, p, e : ProjectEvent(p, e),
                                          Base <- LAMBDA c : Nothing
Rebuild == INSTANCE FoldInduction WITH Op <- LAMBDA c, b, e : Book(b, e),
                                       Base <- LAMBDA c : NoBooks

\* projectPaperPortfolio is the first of them.
LEMMA ProjectIsFold == ASSUME NEW s PROVE ProjectPaperPortfolio(s) = Projection!Fold(0, s)
BY DEF ProjectPaperPortfolio, Projection!Fold, Projection!FoldLeft, Projection!MapThenFoldSet,
       Projection!Max, FoldLeft, MapThenFoldSet, Max

\* rebuildLedgerProjection is the second.
LEMMA RebuildIsFold == ASSUME NEW s PROVE RebuildBooks(s) = Rebuild!Fold(0, s)
BY DEF RebuildBooks, Rebuild!Fold, Rebuild!FoldLeft, Rebuild!MapThenFoldSet,
       Rebuild!Max, FoldLeft, MapThenFoldSet, Max

-----------------------------------------------------------------------------
(* Sums over finite sets *)

\* Induction on the size of a finite set
LEMMA FiniteInduction ==
  ASSUME NEW S, IsFiniteSet(S), NEW G, {} \in G,
         \A T \in SUBSET S : T # {} /\ (\A x \in T : T \ {x} \in G) => T \in G
  PROVE  S \in G
<1> DEFINE Q == {n \in Nat : \A T \in SUBSET S : Cardinality(T) = n => T \in G}
<1>1. 0 \in Q
  <2>1. \A T \in SUBSET S : Cardinality(T) = 0 => T = {} BY FS_Subset, FS_EmptySet
  <2> QED BY <2>1
<1>2. ASSUME NEW n \in Nat, n \in Q PROVE n + 1 \in Q
  <2>1. ASSUME NEW T \in SUBSET S, Cardinality(T) = n + 1 PROVE T \in G
    <3>1. IsFiniteSet(T) BY FS_Subset
    <3>2. T # {}
      <4>1. Cardinality({}) = 0 BY FS_EmptySet
      <4>2. n + 1 # 0 OBVIOUS
      <4> QED BY <2>1, <4>1, <4>2
    <3>3. ASSUME NEW x \in T PROVE T \ {x} \in G
      <4>1. Cardinality(T \ {x}) = n
        <5>1. Cardinality(T \ {x}) = Cardinality(T) - 1 BY <3>1, FS_RemoveElement
        <5> QED BY <2>1, <5>1
      <4> QED BY <1>2, <4>1
    <3> QED BY <3>2, <3>3
  <2> QED BY <2>1
<1>3. Cardinality(S) \in Q
  <2>1. Cardinality(S) \in Nat BY FS_CardinalityType
  <2> HIDE DEF Q
  <2> QED BY <1>1, <1>2, <2>1, Projection!NatSetInduction
<1> QED BY <1>3

\* An element of S
Some(S) == CHOOSE x \in S : TRUE

\* The parts of S with at most n elements
Parts(S, n) == {T \in SUBSET S : Cardinality(T) <= n}

\* g is the running sum of f over the sets of G.
Sums(f, G, g) == g = [T \in G |-> IF T = {} THEN 0 ELSE f[Some(T)] + g[T \ {Some(T)}]]

\* A finite set has a running sum.
LEMMA SumsExist ==
  ASSUME NEW S, IsFiniteSet(S), NEW f
  PROVE  \E g : Sums(f, SUBSET S, g)
<1> DEFINE Q == {n \in Nat : \E g : Sums(f, Parts(S, n), g)}
<1>0. \A T \in SUBSET S : IsFiniteSet(T) /\ Cardinality(T) \in Nat
  BY FS_Subset, FS_CardinalityType
<1>1. 0 \in Q
  <2>1. \A T \in Parts(S, 0) : T = {} BY <1>0, FS_EmptySet DEF Parts
  <2>2. Sums(f, Parts(S, 0), [T \in Parts(S, 0) |-> 0]) BY <2>1 DEF Sums
  <2> QED BY <2>2
<1>2. ASSUME NEW n \in Nat, n \in Q PROVE n + 1 \in Q
  <2>1. PICK g : Sums(f, Parts(S, n), g) BY <1>2
  <2> DEFINE h == [T \in Parts(S, n + 1) |-> IF T = {} THEN 0 ELSE f[Some(T)] + g[T \ {Some(T)}]]
  <2>2. ASSUME NEW T \in Parts(S, n + 1), T # {} PROVE h[T \ {Some(T)}] = g[T \ {Some(T)}]
    <3> DEFINE U == T \ {Some(T)}
    <3>1. Some(T) \in T BY <2>2 DEF Some
    <3>2. T \in SUBSET S /\ Cardinality(T) <= n + 1 BY DEF Parts
    <3>3. U \in SUBSET S /\ Cardinality(U) = Cardinality(T) - 1
      BY <1>0, <3>1, <3>2, FS_RemoveElement
    <3>4. U \in Parts(S, n) /\ U \in Parts(S, n + 1) BY <1>0, <3>2, <3>3 DEF Parts
    <3> HIDE DEF U
    <3>5. g[U] = IF U = {} THEN 0 ELSE f[Some(U)] + g[U \ {Some(U)}] BY <2>1, <3>4 DEF Sums
    <3>6. h[U] = g[U] BY <3>4, <3>5
    <3> QED BY <3>6 DEF U
  <2>3. Sums(f, Parts(S, n + 1), h) BY <2>2 DEF Sums
  <2> QED BY <2>3
<1>3. Cardinality(S) \in Q
  <2>1. Cardinality(S) \in Nat BY FS_CardinalityType
  <2> HIDE DEF Q
  <2> QED BY <1>1, <1>2, <2>1, Projection!NatSetInduction
<1>4. Parts(S, Cardinality(S)) = SUBSET S
  <2>1. \A T \in SUBSET S : Cardinality(T) <= Cardinality(S) BY FS_Subset
  <2> QED BY <2>1 DEF Parts
<1> QED BY <1>3, <1>4

\* Running sums agree where both are defined.
LEMMA SumsAgree ==
  ASSUME NEW S, IsFiniteSet(S), NEW U \in SUBSET S, NEW f, NEW g, NEW h,
         Sums(f, SUBSET S, g), Sums(f, SUBSET U, h)
  PROVE  g[U] = h[U]
<1> DEFINE G == {T \in SUBSET U : g[T] = h[T]}
<1>0. IsFiniteSet(U) BY FS_Subset
<1>1. {} \in G BY DEF Sums
<1>2. ASSUME NEW T \in SUBSET U, T # {}, \A x \in T : T \ {x} \in G PROVE T \in G
  <2>1. Some(T) \in T BY <1>2 DEF Some
  <2>2. g[T] = f[Some(T)] + g[T \ {Some(T)}] BY <1>2 DEF Sums
  <2>3. h[T] = f[Some(T)] + h[T \ {Some(T)}] BY <1>2 DEF Sums
  <2> QED BY <1>2, <2>1, <2>2, <2>3
<1>3. U \in G
  <2> HIDE DEF G
  <2> QED BY <1>0, <1>1, <1>2, FiniteInduction
<1> QED BY <1>3

\* The library's sum over a set is a running sum.
LEMMA SumIsSums ==
  ASSUME NEW S, IsFiniteSet(S), NEW f
  PROVE  \E g : Sums(f, SUBSET S, g) /\ SumFunctionOnSet(f, S) = g[S]
<1> DEFINE g == CHOOSE h : Sums(f, SUBSET S, h)
<1>1. Sums(f, SUBSET S, g) BY SumsExist
<1>2. SumFunctionOnSet(f, S) = g[S]
  BY DEF SumFunctionOnSet, FoldFunctionOnSet, MapThenFoldSet, Sums, Some
<1> QED BY <1>1, <1>2

\* The sum over no element
LEMMA SumEmpty == ASSUME NEW f PROVE SumFunctionOnSet(f, {}) = 0
<1>1. IsFiniteSet({}) BY FS_EmptySet
<1>2. PICK g : Sums(f, SUBSET {}, g) /\ SumFunctionOnSet(f, {}) = g[{}] BY <1>1, SumIsSums
<1> QED BY <1>2 DEF Sums

\* The sum over a set takes its chosen element off first.
LEMMA SumSome ==
  ASSUME NEW S, IsFiniteSet(S), S # {}, NEW f
  PROVE  /\ Some(S) \in S
         /\ SumFunctionOnSet(f, S) = f[Some(S)] + SumFunctionOnSet(f, S \ {Some(S)})
<1> DEFINE U == S \ {Some(S)}
<1>1. Some(S) \in S BY DEF Some
<1>2. U \in SUBSET S /\ IsFiniteSet(U) BY FS_Subset
<1>3. PICK g : Sums(f, SUBSET S, g) /\ SumFunctionOnSet(f, S) = g[S] BY SumIsSums
<1>4. PICK h : Sums(f, SUBSET U, h) /\ SumFunctionOnSet(f, U) = h[U]
  <2> HIDE DEF U
  <2> QED BY <1>2, SumIsSums
<1>5. g[S] = f[Some(S)] + g[U] BY <1>3 DEF Sums
<1>6. g[U] = h[U]
  <2> HIDE DEF U
  <2> QED BY <1>2, <1>3, <1>4, SumsAgree
<1> QED BY <1>1, <1>3, <1>4, <1>5, <1>6

\* A sum of integers is an integer.
LEMMA SumTyped ==
  ASSUME NEW S, IsFiniteSet(S), NEW f, \A x \in S : f[x] \in Int
  PROVE  SumFunctionOnSet(f, S) \in Int
<1> DEFINE G == {T \in SUBSET S : SumFunctionOnSet(f, T) \in Int}
<1>1. {} \in G BY SumEmpty
<1>2. ASSUME NEW T \in SUBSET S, T # {}, \A x \in T : T \ {x} \in G PROVE T \in G
  <2>1. IsFiniteSet(T) BY FS_Subset
  <2>2. /\ Some(T) \in T
        /\ SumFunctionOnSet(f, T) = f[Some(T)] + SumFunctionOnSet(f, T \ {Some(T)})
    BY <1>2, <2>1, SumSome
  <2>3. SumFunctionOnSet(f, T \ {Some(T)}) \in Int BY <1>2, <2>2
  <2> QED BY <2>2, <2>3
<1>3. S \in G
  <2> HIDE DEF G
  <2> QED BY <1>1, <1>2, FiniteInduction
<1> QED BY <1>3

\* Any element may be taken off first.
LEMMA SumRemove ==
  ASSUME NEW S, IsFiniteSet(S), NEW f, \A x \in S : f[x] \in Int, NEW y \in S
  PROVE  SumFunctionOnSet(f, S) = f[y] + SumFunctionOnSet(f, S \ {y})
<1> DEFINE Split(T, x) == SumFunctionOnSet(f, T) = f[x] + SumFunctionOnSet(f, T \ {x})
           G == {T \in SUBSET S : \A x \in T : Split(T, x)}
<1>1. {} \in G OBVIOUS
<1>2. ASSUME NEW T \in SUBSET S, T # {}, \A x \in T : T \ {x} \in G PROVE T \in G
  <2>0. IsFiniteSet(T) BY FS_Subset
  <2>1. PICK z : z = Some(T) OBVIOUS
  <2>2. z \in T /\ SumFunctionOnSet(f, T) = f[z] + SumFunctionOnSet(f, T \ {z})
    BY <1>2, <2>0, <2>1, SumSome
  <2>3. ASSUME NEW x \in T, x # z PROVE Split(T, x)
    <3>1. T \ {z} \in G /\ x \in T \ {z} /\ T \ {x} \in G /\ z \in T \ {x} BY <1>2, <2>2, <2>3
    <3>2. SumFunctionOnSet(f, T \ {z}) = f[x] + SumFunctionOnSet(f, (T \ {z}) \ {x}) BY <3>1
    <3>3. SumFunctionOnSet(f, T \ {x}) = f[z] + SumFunctionOnSet(f, (T \ {x}) \ {z}) BY <3>1
    <3>4. (T \ {z}) \ {x} = (T \ {x}) \ {z} OBVIOUS
    <3>5. SumFunctionOnSet(f, (T \ {x}) \ {z}) \in Int
      <4>1. IsFiniteSet((T \ {x}) \ {z}) BY <2>0, FS_Subset
      <4> QED BY <4>1, SumTyped
    <3>6. f[x] \in Int /\ f[z] \in Int BY <2>2
    <3>7. PICK d \in Int, fx \in Int, fz \in Int :
             d = SumFunctionOnSet(f, (T \ {x}) \ {z}) /\ fx = f[x] /\ fz = f[z]
      BY <3>5, <3>6
    <3>8. SumFunctionOnSet(f, T \ {z}) = fx + d BY <3>2, <3>4, <3>7
    <3>9. SumFunctionOnSet(f, T \ {x}) = fz + d BY <3>3, <3>7
    <3>10. SumFunctionOnSet(f, T) = fz + (fx + d) BY <2>2, <3>7, <3>8
    <3>11. fz + (fx + d) = fx + (fz + d) OBVIOUS
    <3> QED BY <3>7, <3>9, <3>10, <3>11
  <2>4. \A x \in T : Split(T, x) BY <2>2, <2>3
  <2> HIDE DEF Split
  <2> QED BY <2>4
<1>3. S \in G
  <2> HIDE DEF G
  <2> QED BY <1>1, <1>2, FiniteInduction
<1> QED BY <1>3

\* A sum depends on the summands of its set alone.
LEMMA SumSame ==
  ASSUME NEW S, IsFiniteSet(S), NEW f, NEW h, \A x \in S : f[x] = h[x]
  PROVE  SumFunctionOnSet(f, S) = SumFunctionOnSet(h, S)
<1> DEFINE G == {T \in SUBSET S : SumFunctionOnSet(f, T) = SumFunctionOnSet(h, T)}
<1>1. {} \in G BY SumEmpty
<1>2. ASSUME NEW T \in SUBSET S, T # {}, \A x \in T : T \ {x} \in G PROVE T \in G
  <2>1. IsFiniteSet(T) BY FS_Subset
  <2>2. Some(T) \in T /\ f[Some(T)] = h[Some(T)] BY <1>2, <2>1, SumSome
  <2>3. SumFunctionOnSet(f, T) = f[Some(T)] + SumFunctionOnSet(f, T \ {Some(T)})
    BY <1>2, <2>1, SumSome
  <2>4. SumFunctionOnSet(h, T) = h[Some(T)] + SumFunctionOnSet(h, T \ {Some(T)})
    BY <1>2, <2>1, SumSome
  <2> QED BY <1>2, <2>2, <2>3, <2>4
<1>3. S \in G
  <2> HIDE DEF G
  <2> QED BY <1>1, <1>2, FiniteInduction
<1> QED BY <1>3

-----------------------------------------------------------------------------
(* The sequence of a finite set *)

\* It names each element once.
LEMMA SetToSeqFacts ==
  ASSUME NEW S, IsFiniteSet(S)
  PROVE  /\ SetToSeq(S) \in Seq(S)
         /\ \A i, j \in DOMAIN SetToSeq(S) : SetToSeq(S)[i] = SetToSeq(S)[j] => i = j
         /\ \A x \in S : \E i \in DOMAIN SetToSeq(S) : SetToSeq(S)[i] = x
<1> DEFINE n == Cardinality(S)
           q == SetToSeq(S)
<1>1. n \in Nat /\ ExistsBijection(1..n, S) BY FS_CardinalityType
<1>2. \E f \in [1..n -> S] : IsInjective(f)
  BY <1>1 DEF ExistsBijection, Bijection, Injection
<1>3. q \in [1..n -> S] /\ IsInjective(q) BY <1>2 DEF SetToSeq
<1> HIDE DEF n, q
<1>4. q \in Seq(S) /\ DOMAIN q = 1..n BY <1>1, <1>3
<1>5. \A i, j \in DOMAIN q : q[i] = q[j] => i = j BY <1>3 DEF IsInjective
<1> DEFINE R == {q[i] : i \in 1..n}
<1>6. R \in SUBSET S BY <1>3
<1>7. Cardinality(R) = n
  <2>1. q \in [1..n -> R] BY <1>3
  <2>2. \A x \in R : \E i \in 1..n : q[i] = x OBVIOUS
  <2> HIDE DEF R
  <2>3. q \in Bijection(1..n, R) BY <1>3, <2>1, <2>2 DEF Bijection, Injection, Surjection
  <2>4. ExistsBijection(1..n, R) BY <2>3 DEF ExistsBijection
  <2> QED BY <1>1, <2>4, FS_CountingElements
<1>8. R = S
  <2> HIDE DEF R
  <2>1. Cardinality(S) = Cardinality(R) BY <1>7 DEF n
  <2> QED BY <1>6, <2>1, FS_Subset
<1>9. \A x \in S : \E i \in DOMAIN q : q[i] = x BY <1>4, <1>8
<1> QED BY <1>4, <1>5, <1>9 DEF q

-----------------------------------------------------------------------------
(* Types *)

\* The types of the events of a paper portfolio
EventTypes == {"deposit", "entry", "exit", "stop", "expiry", "mark", "split", "correction",
               "cash_dividend"}

\* The events, of integer amounts
PaperEvents ==
    [id : Int, type : EventTypes, symbol : Symbols \cup {NoSymbol}, cash : Int, shares : Int,
     price : Int, corrects : Int, at : Int]

\* What projectPaperPortfolio carries from event to event
Portfolios ==
    [ok : BOOLEAN, cash : Int, shares : [Symbols -> Int], mark : [Symbols -> Int],
     seen : SUBSET PaperEvents]

\* The stages of a symbol on the desk
Stages == {"flat", "entering", "open", "leaving"}

\* What the desk records of a symbol
Positions ==
    [stage : Stages, shares : Int, stop : Int, loss : Int, notional : Int, held : Nat,
     failures : 0..2]

\* One round of the projection keeps its type.
LEMMA ProjectTyped ==
  ASSUME NEW p \in Portfolios, NEW e \in PaperEvents
  PROVE  ProjectEvent(p, e) \in Portfolios
<1>1. [p EXCEPT !.ok = FALSE] \in Portfolios BY DEF Portfolios
<1>2. Applied(p, e) \in Portfolios
  <2> DEFINE With(f, x) == IF e.symbol = NoSymbol THEN f ELSE [f EXCEPT ![e.symbol] = x]
             shares == With(p.shares, p.shares[e.symbol] + e.shares)
             mark == With(p.mark, NextMark(p, e))
  <2>1. Applied(p, e) = [ok |-> p.ok, cash |-> p.cash + e.cash, shares |-> shares, mark |-> mark,
                         seen |-> p.seen \cup {e}]
    BY DEF Applied, Portfolios
  <2>2. p.shares \in [Symbols -> Int] /\ p.mark \in [Symbols -> Int] BY DEF Portfolios
  <2>3. shares \in [Symbols -> Int] /\ mark \in [Symbols -> Int]
    <3>1. CASE e.symbol = NoSymbol BY <2>2, <3>1
    <3>2. CASE e.symbol # NoSymbol
      <4>1. e.symbol \in Symbols /\ e.shares \in Int /\ e.price \in Int BY <3>2 DEF PaperEvents
      <4>2. PICK held \in Int, value \in Int, more \in Int :
               held = p.shares[e.symbol] /\ value = p.mark[e.symbol] /\ more = e.shares
        BY <2>2, <4>1
      <4>3. held + more > 0 => (held * value) \div (held + more) \in Int OBVIOUS
      <4>4. NextMark(p, e) \in Int /\ p.shares[e.symbol] + e.shares \in Int
        BY <4>1, <4>2, <4>3 DEF NextMark
      <4>5. \A f \in [Symbols -> Int], x \in Int : With(f, x) \in [Symbols -> Int] OBVIOUS
      <4> HIDE DEF With
      <4> QED BY <2>2, <4>4, <4>5
    <3> QED BY <3>1, <3>2
  <2>4. p.ok \in BOOLEAN /\ p.cash + e.cash \in Int /\ p.seen \cup {e} \in SUBSET PaperEvents
    BY DEF Portfolios, PaperEvents
  <2> HIDE DEF shares, mark
  <2> QED BY <2>1, <2>3, <2>4 DEF Portfolios
<1> QED BY <1>1, <1>2 DEF ProjectEvent

\* The empty portfolio has the type.
LEMMA NothingTyped == Nothing \in Portfolios
BY DEF Nothing, Portfolios

\* The projection of any log has the type.
LEMMA BooksTyped ==
  ASSUME NEW s \in Seq(PaperEvents)
  PROVE  ProjectPaperPortfolio(s) \in Portfolios
<1>1. Projection!Fold(0, s) \in Portfolios BY NothingTyped, ProjectTyped, Projection!FoldStaysIn
<1> QED BY <1>1, ProjectIsFold

\* Shares, stop, cost and loss of a sized position are integers.
LEMMA SizeTyped ==
  ASSUME NEW price \in Nat \ {0}, NEW atr \in Nat, NEW c,
         c.cash \in Int, c.equity \in Int, c.plannedLoss \in Int
  PROVE  LET z == SizeLongPosition(price, atr, c)
         IN  z.shares \in Int /\ z.stop \in Int /\ z.notional \in Int /\ z.plannedLoss \in Int
<1> DEFINE d == StopDistance(price, atr)
<1>1. d \in Nat \ {0} BY DEF StopDistance, AtLeast, Mills
<1>2. \A x \in Int, y \in Nat \ {0} : x \div y \in Int OBVIOUS
<1>3. \A x, y \in Int : AtMost(x, y) \in Int BY DEF AtMost
<1>4. /\ RiskPercent * c.equity \in Int /\ NotionalPercent * c.equity \in Int
      /\ AggregatePercent * c.equity - 100 * c.plannedLoss \in Int
  <2>1. RiskPercent \in Int /\ NotionalPercent \in Int /\ AggregatePercent \in Int
    BY RiskAssumption
  <2> QED BY <2>1
<1>5. 100 * d \in Nat \ {0} /\ 100 * price * Mills \in Nat \ {0} /\ price * Mills \in Nat \ {0}
  BY <1>1 DEF Mills
<1> HIDE DEF d
<1>6. SharesPerTrade(price, atr, c) \in Int
  <2>1. (RiskPercent * c.equity) \div (100 * d) \in Int BY <1>2, <1>4, <1>5
  <2>2. (NotionalPercent * c.equity) \div (100 * price * Mills) \in Int BY <1>2, <1>4, <1>5
  <2>3. c.cash \div (price * Mills) \in Int BY <1>2, <1>5
  <2> QED BY <1>3, <2>1, <2>2, <2>3 DEF SharesPerTrade, d
<1>7. WholeShares(price, atr, c) \in Int
  <2>1. (AggregatePercent * c.equity - 100 * c.plannedLoss) \div (100 * d) \in Int
    BY <1>2, <1>4, <1>5
  <2> QED BY <1>3, <1>6, <2>1 DEF WholeShares, d
<1>8. PICK n \in Int : n = WholeShares(price, atr, c) BY <1>7
<1>9. n * price * Mills \in Int /\ n * d \in Int /\ price * Mills - d \in Int BY <1>1 DEF Mills
<1> QED BY <1>8, <1>9 DEF SizeLongPosition, NoSize, d

\* The reason to exit is "none" only if no rule applies.
LEMMA NoReason ==
  ASSUME NEW j, NEW quality, NEW p, ExitReason(j, quality, p) = "none"
  PROVE  /\ ~(p.completedSessionLow <= p.stopPrice)
         /\ ~(p.eligibleSessionsHeld >= p.horizonSessions)
<1> DEFINE r == ExitRules(j, quality, p)
           due == {i \in 1..5 : r[i].applies}
<1>1. \A i \in 1..5 : r[i].reason # "none"
  <2>1. /\ r[1].reason = "stop" /\ r[2].reason = "horizon" /\ r[3].reason = "data_invalidated"
        /\ r[4].reason = "judgment_down" /\ r[5].reason = "downside_hazard"
    BY DEF ExitRules
  <2>2. \A i \in 1..5 : i = 1 \/ i = 2 \/ i = 3 \/ i = 4 \/ i = 5 OBVIOUS
  <2> HIDE DEF r
  <2> QED BY <2>1, <2>2
<1>2. /\ r[1].applies = (p.completedSessionLow <= p.stopPrice)
      /\ r[2].applies = (p.eligibleSessionsHeld >= p.horizonSessions)
  BY DEF ExitRules
<1>3. ASSUME due # {} PROVE Min(due) \in 1..5
  <2>1. due \in SUBSET Nat /\ due # {} BY <1>3
  <2>2. \E x \in due : \A y \in due : x <= y
    <3> HIDE DEF due
    <3> QED BY <2>1, Projection!Least
  <2> QED BY <2>2 DEF Min
<1>4. due # {} => ExitReason(j, quality, p) = r[Min(due)].reason BY DEF ExitReason
<1>5. due = {}
  <2> HIDE DEF r, due
  <2> QED BY <1>1, <1>3, <1>4
<1>6. 1 \in 1..5 /\ 2 \in 1..5 OBVIOUS
<1> HIDE DEF r
<1> QED BY <1>2, <1>5, <1>6

-----------------------------------------------------------------------------
(* The inductive invariant: the desk's record and the history of its judgments *)

\* The types of the desk's state
TypeInv ==
    /\ session \in Nat /\ phase \in {"close", "open"}
    /\ log \in Seq(PaperEvents)
    /\ desk \in [Symbols -> Positions]
    /\ action \in PaperEvents \cup {NoAction}
    /\ actions \in Nat /\ raced \in BOOLEAN
    /\ misses \in [Symbols -> Nat] /\ low \in [Symbols -> Int]

\* The count of failed holds is the history's, and never past the first.
CountInv ==
    \A s \in Symbols :
        /\ desk[s].stage = "open" => desk[s].failures = misses[s] /\ misses[s] <= 1
        /\ desk[s].stage = "entering" =>
              phase = "open" /\ desk[s].failures = 0 /\ misses[s] = 0 /\ desk[s].shares > 0

\* The inductive invariant
DeskInv == TypeInv /\ CountInv

\* What MonitorOpenPosition makes of an open position: it is kept only if no rule
\* applies, and its failures are then counted as the history counts them.
LEMMA VerdictFacts ==
  ASSUME DeskInv, NEW s \in Symbols, desk[s].stage = "open", NEW o \in Observations[s]
  PROVE  /\ Verdict(s, o).failures \in 0..2
         /\ Verdict(s, o).action # "EXIT" =>
              /\ Verdict(s, o).failures =
                   IF o.judged.status # "failed" /\ HoldGatesPass(o.judged.answers) THEN 0
                   ELSE misses[s] + 1
              /\ Verdict(s, o).failures <= 1
              /\ desk[s].held < Horizon /\ o.low * Mills > desk[s].stop
<1> DEFINE j == IF o.judged.status = "failed" THEN NoJudgment ELSE o.judged.answers
           p == [stopPrice |-> desk[s].stop, completedSessionLow |-> o.low * Mills,
                 eligibleSessionsHeld |-> desk[s].held, horizonSessions |-> Horizon,
                 consecutiveHoldFailures |-> desk[s].failures]
           v == EvaluateOpenPosition(j, o.quality, p)
<1>1. v = Verdict(s, o) BY DEF Verdict, MonitorOpenPosition
<1>2. /\ desk[s].failures = misses[s] /\ desk[s].failures \in 0..1
      /\ desk[s].stop \in Int /\ desk[s].held \in Nat
  <2>1. desk[s] \in Positions BY DEF DeskInv, TypeInv
  <2>2. desk[s].failures = misses[s] /\ misses[s] <= 1 BY DEF DeskInv, CountInv
  <2> QED BY <2>1, <2>2 DEF Positions
<1>3. HoldGatesPass(j) <=> o.judged.status # "failed" /\ HoldGatesPass(o.judged.answers)
  <2>1. ~HoldGatesPass(NoJudgment) BY DEF HoldGatesPass, IsPolicyJudgmentValid
  <2> QED BY <2>1
<1>4. /\ p.consecutiveHoldFailures = desk[s].failures /\ p.stopPrice = desk[s].stop
      /\ p.completedSessionLow = o.low * Mills /\ p.eligibleSessionsHeld = desk[s].held
      /\ p.horizonSessions = Horizon
  OBVIOUS
<1>5. o.low * Mills \in Int /\ Horizon \in Int BY DeskAssumption DEF Mills
<1>6. CASE ExitReason(j, o.quality, p) # "none"
  <2>1. v = [action |-> "EXIT", reason |-> ExitReason(j, o.quality, p),
             failures |-> p.consecutiveHoldFailures]
    BY <1>6 DEF EvaluateOpenPosition
  <2>2. v.action = "EXIT" /\ v.failures = desk[s].failures
    <3> HIDE DEF v
    <3> QED BY <2>1
  <2> HIDE DEF v
  <2> QED BY <1>1, <1>2, <2>2
<1>7. CASE ExitReason(j, o.quality, p) = "none"
  <2>1. ~(o.low * Mills <= desk[s].stop) /\ ~(desk[s].held >= Horizon)
    <3> HIDE DEF j, p
    <3> QED BY <1>4, <1>7, NoReason
  <2>2. desk[s].held < Horizon /\ o.low * Mills > desk[s].stop BY <1>2, <1>5, <2>1
  <2>3. CASE HoldGatesPass(j)
    <3>1. v = [action |-> "HOLD", reason |-> "none", failures |-> 0]
      BY <1>7, <2>3 DEF EvaluateOpenPosition
    <3> HIDE DEF v, j
    <3> QED BY <1>1, <1>3, <2>2, <2>3, <3>1
  <2>4. CASE ~HoldGatesPass(j)
    <3> DEFINE n == p.consecutiveHoldFailures + 1
    <3>1. v = IF n >= 2 THEN [action |-> "EXIT", reason |-> "two_consecutive_hold_failures",
                              failures |-> n]
              ELSE [action |-> "HOLD", reason |-> "none", failures |-> n]
      BY <1>7, <2>4 DEF EvaluateOpenPosition
    <3>2. n = desk[s].failures + 1 /\ n \in 1..2 BY <1>2, <1>4
    <3>3. n = misses[s] + 1 BY <1>2, <3>2
    <3> HIDE DEF v, j, n
    <3> QED BY <1>1, <1>3, <2>2, <2>4, <3>1, <3>2, <3>3
  <2> QED BY <2>3, <2>4
<1> QED BY <1>6, <1>7

-----------------------------------------------------------------------------
(* Allocation *)

Ranking == INSTANCE FoldInduction WITH Op <- LAMBDA x, ranked, c : InsertRanked(ranked, c),
                                       Base <- LAMBDA x : <<>>
Allocation == INSTANCE FoldInduction WITH
        Op <- LAMBDA x, left, c : Consider(x.ranked, x.capacity.equity, left, c),
        Base <- LAMBDA x : Unspent(x.capacity)

\* Ranking adds no candidate of its own.
LEMMA RankedTyped ==
  ASSUME NEW S, NEW q \in Seq(S)
  PROVE  Ranked(q) \in Seq(S)
<1>1. ASSUME NEW r \in Seq(S), NEW c \in S PROVE InsertRanked(r, c) \in Seq(S)
  <2> DEFINE D == {i \in DOMAIN r : ~Before(c, r[i])}
  <2>1. IsFiniteSet(1 .. Len(r)) /\ Cardinality(1 .. Len(r)) = Len(r)
    <3>1. PICK n \in Nat : n = Len(r) OBVIOUS
    <3>2. IsFiniteSet(1..n) /\ Cardinality(1..n) = IF 1 > n THEN 0 ELSE n - 1 + 1 BY FS_Interval
    <3>3. Cardinality(1..n) = n BY <3>2
    <3> QED BY <3>1, <3>2, <3>3
  <2>2. D \in SUBSET (1 .. Len(r)) OBVIOUS
  <2>3. Cardinality(D) \in Nat /\ Cardinality(D) <= Len(r)
    <3> HIDE DEF D
    <3> QED BY <2>1, <2>2, FS_Subset, FS_CardinalityType
  <2>4. PICK k \in Nat : k = Cardinality(D) /\ k <= Len(r) BY <2>3
  <2>5. SubSeq(r, 1, k) \in Seq(S) /\ SubSeq(r, k + 1, Len(r)) \in Seq(S)
    <3>1. \A i \in 1..k : r[i] \in S BY <2>4
    <3>2. \A i \in k + 1 .. Len(r) : r[i] \in S BY <2>4
    <3> QED BY <2>4, <3>1, <3>2
  <2>6. InsertRanked(r, c) = SubSeq(r, 1, k) \o <<c>> \o SubSeq(r, k + 1, Len(r))
    <3>1. (1 + k) - 1 = k /\ 1 + k = k + 1 OBVIOUS
    <3> QED BY <2>4, <3>1 DEF InsertRanked, InsertAt
  <2> HIDE DEF D
  <2> QED BY <2>5, <2>6
<1>2. Ranked(q) = Ranking!Fold(0, q)
  BY DEF Ranked, Ranking!Fold, Ranking!FoldLeft, Ranking!MapThenFoldSet, Ranking!Max,
         FoldLeft, MapThenFoldSet, Max
<1>3. <<>> \in Seq(S) OBVIOUS
<1>4. Ranking!Fold(0, q) \in Seq(S) BY <1>1, <1>3, Ranking!FoldStaysIn
<1> QED BY <1>2, <1>4

\* The candidates of the symbols S
The(S, k) == {k[s] : s \in S}

\* Each names its own symbol, and asks for integer amounts.
Candidates(S, k) ==
    \A s \in S : k[s].symbol = s /\ k[s].notional \in Int /\ k[s].plannedLoss \in Int
\* The capacity is integer.
CapacityOK(cap) ==
    cap.cash \in Int /\ cap.plannedLoss \in Int /\ cap.positions \in Nat /\ cap.equity \in Int

\* The symbols of what was filled
FilledSymbols(left) == {left.filled[i].symbol : i \in DOMAIN left.filled}

\* What is left after some of the candidates k[s] were filled, and what was filled
LeftInv(S, k, cap, left) ==
    LET f == FilledSymbols(left)
    IN  /\ f \in SUBSET S
        /\ left.cash = cap.cash - SumFunctionOnSet([s \in S |-> k[s].notional], f)
        /\ left.plannedLoss = cap.plannedLoss + SumFunctionOnSet([s \in S |-> k[s].plannedLoss], f)
        /\ left.positions = cap.positions + Cardinality(f)
        /\ f # {} => /\ left.cash >= 0 /\ left.positions <= MaxOpenPositions
                     /\ 100 * left.plannedLoss <= AggregatePercent * cap.equity

\* A sum over a set with one element more
LEMMA SumAdd ==
  ASSUME NEW S, IsFiniteSet(S), NEW f, \A x \in S : f[x] \in Int,
         NEW T \in SUBSET S, NEW y \in S, y \notin T
  PROVE  /\ SumFunctionOnSet(f, T) \in Int
         /\ SumFunctionOnSet(f, T \cup {y}) = SumFunctionOnSet(f, T) + f[y]
<1>1. IsFiniteSet(T) /\ IsFiniteSet(T \cup {y}) BY FS_Subset
<1>2. (T \cup {y}) \ {y} = T OBVIOUS
<1>3. SumFunctionOnSet(f, T) \in Int BY <1>1, SumTyped
<1>4. SumFunctionOnSet(f, T \cup {y}) = f[y] + SumFunctionOnSet(f, (T \cup {y}) \ {y})
  BY <1>1, SumRemove
<1>5. PICK a \in Int, b \in Int : a = SumFunctionOnSet(f, T) /\ b = f[y] BY <1>3
<1>6. SumFunctionOnSet(f, T \cup {y}) = b + a BY <1>2, <1>4, <1>5
<1> QED BY <1>5, <1>6

\* The percentages of the risk policy, as the proofs use them
LEMMA LimitsTyped ==
  /\ RiskPercent \in Nat /\ NotionalPercent \in Nat /\ AggregatePercent \in Nat
  /\ MaxOpenPositions \in Nat
BY RiskAssumption

\* Filling one more candidate that is not refused keeps what LeftInv says.
LEMMA FillKeeps ==
  ASSUME NEW S, IsFiniteSet(S), NEW k, Candidates(S, k), NEW cap, CapacityOK(cap),
         NEW left, left.filled \in Seq(The(S, k)), LeftInv(S, k, cap, left),
         NEW s \in S, s \notin FilledSymbols(left),
         ~RefusedAlone(k[s], left, cap.equity)
  PROVE  /\ Fill(left, k[s]).filled \in Seq(The(S, k))
         /\ FilledSymbols(Fill(left, k[s])) = FilledSymbols(left) \cup {s}
         /\ LeftInv(S, k, cap, Fill(left, k[s]))
<1> DEFINE c == k[s]
           f == FilledSymbols(left)
           next == Fill(left, c)
           N == [x \in S |-> k[x].notional]
           L == [x \in S |-> k[x].plannedLoss]
<1>1. /\ next.cash = left.cash - c.notional /\ next.positions = left.positions + 1
      /\ next.plannedLoss = left.plannedLoss + c.plannedLoss
      /\ next.filled = Append(left.filled, c)
  BY DEF Fill
<1>0. /\ \A y \in S : k[y].symbol = y /\ k[y].notional \in Int /\ k[y].plannedLoss \in Int
      /\ cap.cash \in Int /\ cap.plannedLoss \in Int /\ cap.positions \in Nat /\ cap.equity \in Int
  BY DEF Candidates, CapacityOK
<1>2. next.filled \in Seq(The(S, k)) /\ FilledSymbols(next) = f \cup {s}
  <2> DEFINE Q == The(S, k)
  <2>1. c \in Q /\ c.symbol = s BY <1>0 DEF The
  <2>2. left.filled \in Seq(Q) OBVIOUS
  <2> HIDE DEF Q, c, next
  <2>3. next.filled \in Seq(Q) BY <1>1, <2>1, <2>2
  <2>4. /\ Len(next.filled) = Len(left.filled) + 1
        /\ \A i \in DOMAIN left.filled : next.filled[i] = left.filled[i]
        /\ next.filled[Len(left.filled) + 1] = c
        /\ DOMAIN next.filled = DOMAIN left.filled \cup {Len(left.filled) + 1}
    BY <1>1, <2>2
  <2>5. FilledSymbols(next) = f \cup {s} BY <2>1, <2>4 DEF FilledSymbols
  <2> QED BY <2>3, <2>5 DEF Q, c, next
<1>3. /\ left.positions < MaxOpenPositions \/ ~(left.positions \in Int)
      /\ ~(c.notional > left.cash)
      /\ ~(100 * (left.plannedLoss + c.plannedLoss) > AggregatePercent * cap.equity)
  BY RiskAssumption DEF RefusedAlone
<1>4. f \in SUBSET S /\ IsFiniteSet(f) BY FS_Subset DEF LeftInv
<1>5. /\ SumFunctionOnSet(N, f) \in Int
      /\ SumFunctionOnSet(N, f \cup {s}) = SumFunctionOnSet(N, f) + c.notional
  <2>1. \A x \in S : N[x] \in Int BY <1>0
  <2>2. N[s] = c.notional OBVIOUS
  <2> HIDE DEF N, c, f
  <2>3. s \notin f BY DEF f
  <2>4. /\ SumFunctionOnSet(N, f) \in Int
        /\ SumFunctionOnSet(N, f \cup {s}) = SumFunctionOnSet(N, f) + N[s]
    BY <1>4, <2>1, <2>3, SumAdd, SMTT(30)
  <2> QED BY <2>2, <2>4
<1>6. /\ SumFunctionOnSet(L, f) \in Int
      /\ SumFunctionOnSet(L, f \cup {s}) = SumFunctionOnSet(L, f) + c.plannedLoss
  <2>1. \A x \in S : L[x] \in Int BY <1>0
  <2>2. L[s] = c.plannedLoss OBVIOUS
  <2> HIDE DEF L, c, f
  <2>3. s \notin f BY DEF f
  <2>4. /\ SumFunctionOnSet(L, f) \in Int
        /\ SumFunctionOnSet(L, f \cup {s}) = SumFunctionOnSet(L, f) + L[s]
    BY <1>4, <2>1, <2>3, SumAdd, SMTT(30)
  <2> QED BY <2>2, <2>4
<1>7. Cardinality(f) \in Nat /\ Cardinality(f \cup {s}) = Cardinality(f) + 1
  BY <1>4, FS_AddElement, FS_CardinalityType
<1>8. /\ left.cash = cap.cash - SumFunctionOnSet(N, f)
      /\ left.plannedLoss = cap.plannedLoss + SumFunctionOnSet(L, f)
      /\ left.positions = cap.positions + Cardinality(f)
  BY DEF LeftInv
<1>9. c.notional \in Int /\ c.plannedLoss \in Int /\ MaxOpenPositions \in Nat
      /\ AggregatePercent * cap.equity \in Int
  <2>1. AggregatePercent \in Int /\ MaxOpenPositions \in Nat
    BY LimitsTyped
  <2> QED BY <1>0, <2>1
<1>10. PICK n \in Int, l \in Int, p \in Nat, agg \in Int :
          /\ n = SumFunctionOnSet(N, f) /\ l = SumFunctionOnSet(L, f) /\ p = Cardinality(f)
          /\ agg = AggregatePercent * cap.equity
  BY <1>5, <1>6, <1>7, <1>9
<1>11. LeftInv(S, k, cap, next)
  <2>0. cap.positions \in Nat /\ cap.cash \in Int /\ cap.plannedLoss \in Int BY <1>0
  <2> HIDE DEF c, f, next, N, L
  <2>1. FilledSymbols(next) = f \cup {s} /\ f \cup {s} \in SUBSET S BY <1>2, <1>4
  <2>2. next.cash = cap.cash - SumFunctionOnSet(N, f \cup {s})
    <3>1. PICK u \in Int, v \in Int : u = cap.cash /\ v = c.notional BY <1>9, <2>0
    <3>2. next.cash = (u - n) - v BY <1>1, <1>8, <1>10, <3>1
    <3>3. SumFunctionOnSet(N, f \cup {s}) = n + v BY <1>5, <1>10, <3>1
    <3>4. (u - n) - v = u - (n + v) OBVIOUS
    <3> QED BY <3>1, <3>2, <3>3, <3>4
  <2>3. next.plannedLoss = cap.plannedLoss + SumFunctionOnSet(L, f \cup {s})
    <3>1. PICK u \in Int, v \in Int : u = cap.plannedLoss /\ v = c.plannedLoss BY <1>9, <2>0
    <3>2. next.plannedLoss = (u + l) + v BY <1>1, <1>8, <1>10, <3>1
    <3>3. SumFunctionOnSet(L, f \cup {s}) = l + v BY <1>6, <1>10, <3>1
    <3>4. (u + l) + v = u + (l + v) OBVIOUS
    <3> QED BY <3>1, <3>2, <3>3, <3>4
  <2>4. next.positions = cap.positions + Cardinality(f \cup {s})
    <3>1. Cardinality(f \cup {s}) = p + 1 BY <1>7, <1>10
    <3>2. PICK m \in Nat : m = cap.positions BY <2>0
    <3>3. next.positions = (m + p) + 1 BY <1>1, <1>8, <1>10, <3>2
    <3>4. (m + p) + 1 = m + (p + 1) OBVIOUS
    <3> QED BY <3>1, <3>2, <3>3, <3>4
  <2>5. next.cash >= 0
    <3>1. left.cash \in Int BY <2>0, <1>8, <1>10
    <3> QED BY <3>1, <1>1, <1>3, <1>9
  <2>6. next.positions <= MaxOpenPositions
    <3>1. left.positions \in Int BY <2>0, <1>8, <1>10
    <3> QED BY <3>1, <1>1, <1>3, <1>9
  <2>7. 100 * next.plannedLoss <= AggregatePercent * cap.equity
    <3>1. left.plannedLoss \in Int BY <2>0, <1>8, <1>10
    <3>2. PICK x \in Int : x = left.plannedLoss + c.plannedLoss BY <3>1, <1>9
    <3>3. ~(100 * x > agg) BY <1>3, <1>10, <3>2
    <3>4. next.plannedLoss = x BY <1>1, <3>2
    <3> QED BY <3>3, <3>4, <1>10
  <2> QED BY <2>1, <2>2, <2>3, <2>4, <2>5, <2>6, <2>7 DEF LeftInv, N, L
<1> QED BY <1>2, <1>11

\* What an allocation looks at beside the candidate at hand
Considered(cap, ranked) == [ranked |-> ranked, capacity |-> cap]

\* t is the part of the ranked candidates considered so far, and left what is left then.
Upto(ranked, t) == Len(t) <= Len(ranked) /\ \A i \in DOMAIN t : t[i] = ranked[i]
\* LeftInv, with every symbol filled named by a candidate considered
SoundLeft(S, k, cap, t, left) ==
    /\ left.filled \in Seq(The(S, k)) /\ LeftInv(S, k, cap, left)
    /\ \A s \in FilledSymbols(left) : \E i \in DOMAIN t : t[i].symbol = s

\* Nothing considered: nothing filled, and all of the capacity left
LEMMA SoundAtFirst ==
  ASSUME NEW S, NEW k, NEW cap, CapacityOK(cap)
  PROVE  SoundLeft(S, k, cap, <<>>, Unspent(cap))
<1>1. Unspent(cap).filled = <<>> /\ FilledSymbols(Unspent(cap)) = {}
  BY DEF Unspent, FilledSymbols
<1>2. /\ Unspent(cap).cash = cap.cash /\ Unspent(cap).positions = cap.positions
      /\ Unspent(cap).plannedLoss = cap.plannedLoss
  BY DEF Unspent
<1>3. Cardinality({}) = 0 BY FS_EmptySet
<1>4. /\ SumFunctionOnSet([s \in S |-> k[s].notional], {}) = 0
      /\ SumFunctionOnSet([s \in S |-> k[s].plannedLoss], {}) = 0
  BY SumEmpty
<1>5. LeftInv(S, k, cap, Unspent(cap)) BY <1>1, <1>2, <1>3, <1>4 DEF LeftInv, CapacityOK
<1>6. Unspent(cap).filled \in Seq(The(S, k)) BY <1>1
<1>7. \A s \in FilledSymbols(Unspent(cap)) : \E i \in DOMAIN <<>> : <<>>[i].symbol = s BY <1>1
<1> QED BY <1>5, <1>6, <1>7 DEF SoundLeft

\* Two places of a ranking name the symbol: whoever is considered is refused.
LEMMA TwiceIsRefused ==
  ASSUME NEW C, NEW ranked \in Seq(C), NEW i \in DOMAIN ranked, NEW j \in DOMAIN ranked, i # j,
         NEW c, ranked[i].symbol = c.symbol, ranked[j].symbol = c.symbol, NEW left, NEW equity
  PROVE  Refused(c, ranked, left, equity)
<1> DEFINE same == {x \in DOMAIN ranked : ranked[x].symbol = c.symbol}
<1>1. i \in same /\ j \in same OBVIOUS
<1>2. IsFiniteSet(same)
  <2>1. same \in SUBSET (1 .. Len(ranked)) /\ Len(ranked) \in Nat OBVIOUS
  <2>2. IsFiniteSet(1 .. Len(ranked)) BY <2>1, FS_Interval
  <2> HIDE DEF same
  <2> QED BY <2>1, <2>2, FS_Subset
<1>3. Cardinality(same) > 1
  <2> HIDE DEF same
  <2>1. Cardinality(same) \in Nat BY <1>2, FS_CardinalityType
  <2>2. Cardinality(same \ {i}) = Cardinality(same) - 1 /\ IsFiniteSet(same \ {i})
    BY <1>1, <1>2, FS_RemoveElement
  <2>3. same \ {i} # {} BY <1>1
  <2>4. Cardinality(same \ {i}) # 0 /\ Cardinality(same \ {i}) \in Nat
    BY <2>2, <2>3, FS_EmptySet, FS_CardinalityType
  <2> QED BY <2>1, <2>2, <2>4
<1> QED BY <1>3 DEF Refused

\* Considering the next candidate of the ranking keeps SoundLeft.
LEMMA SoundNext ==
  ASSUME NEW S, IsFiniteSet(S), NEW k, Candidates(S, k), NEW cap, CapacityOK(cap),
         NEW ranked \in Seq(The(S, k)), NEW t \in Seq(The(S, k)), NEW c \in The(S, k),
         Upto(ranked, Append(t, c)),
         NEW left, SoundLeft(S, k, cap, t, left)
  PROVE  SoundLeft(S, k, cap, Append(t, c), Consider(ranked, cap.equity, left, c))
<1>1. PICK n \in Nat : n = Len(t) /\ n + 1 = Len(Append(t, c)) OBVIOUS
<1>2. /\ Append(t, c)[n + 1] = c /\ n + 1 \in DOMAIN Append(t, c) /\ DOMAIN t = 1..n
      /\ \A i \in DOMAIN t : i \in DOMAIN Append(t, c) /\ Append(t, c)[i] = t[i]
  BY <1>1
<1>3. /\ n + 1 \in DOMAIN ranked /\ ranked[n + 1] = c
      /\ \A i \in 1..n : i \in DOMAIN ranked /\ t[i] = ranked[i] /\ i # n + 1
  BY <1>1, <1>2 DEF Upto
<1>4. PICK s \in S : c = k[s] /\ c.symbol = s BY DEF The, Candidates
<1>5. CASE Refused(c, ranked, left, cap.equity)
  <2>1. Consider(ranked, cap.equity, left, c) = left BY <1>5 DEF Consider
  <2> QED BY <2>1, <1>2 DEF SoundLeft
<1>6. CASE ~Refused(c, ranked, left, cap.equity)
  <2>1. Consider(ranked, cap.equity, left, c) = Fill(left, k[s]) BY <1>4, <1>6 DEF Consider
  <2>2. ~RefusedAlone(k[s], left, cap.equity) BY <1>4, <1>6 DEF Refused
  <2>3. s \notin FilledSymbols(left)
    <3> SUFFICES ASSUME s \in FilledSymbols(left) PROVE FALSE OBVIOUS
    <3>1. PICK i \in DOMAIN t : t[i].symbol = s BY DEF SoundLeft
    <3>2. i \in DOMAIN ranked /\ ranked[i].symbol = c.symbol /\ i # n + 1
      BY <1>2, <1>3, <1>4, <3>1
    <3> QED BY <1>3, <1>6, <3>2, TwiceIsRefused
  <2>4. /\ Fill(left, k[s]).filled \in Seq(The(S, k))
        /\ FilledSymbols(Fill(left, k[s])) = FilledSymbols(left) \cup {s}
        /\ LeftInv(S, k, cap, Fill(left, k[s]))
    <3>1. left.filled \in Seq(The(S, k)) /\ LeftInv(S, k, cap, left) BY DEF SoundLeft
    <3> QED BY <2>2, <2>3, <3>1, FillKeeps, SMTT(60)
  <2>5. \A y \in FilledSymbols(left) \cup {s} :
           \E i \in DOMAIN Append(t, c) : Append(t, c)[i].symbol = y
    BY <1>2, <1>4 DEF SoundLeft
  <2> QED BY <2>1, <2>4, <2>5 DEF SoundLeft
<1> QED BY <1>5, <1>6

\* What an allocation fills are listed candidates, no symbol twice, and they fit
\* together (allocateCandidates takes the cost of each off before the next).
LEMMA AllocationFits ==
  ASSUME NEW S, IsFiniteSet(S), NEW k, Candidates(S, k), NEW cap, CapacityOK(cap),
         NEW candidates \in Seq(The(S, k))
  PROVE  \E left : left.filled = AllocateCandidates(candidates, cap) /\ LeftInv(S, k, cap, left)
<1> DEFINE C == The(S, k)
           ranked == Ranked(candidates)
           x == Considered(cap, ranked)
           G == {t \in Seq(C) : Upto(ranked, t) => SoundLeft(S, k, cap, t, Allocation!Fold(x, t))}
<1>1. ranked \in Seq(C) BY RankedTyped
<1>0. x.ranked = ranked /\ x.capacity = cap BY DEF Considered
<1>2. <<>> \in G
  <2>1. Allocation!Fold(x, <<>>) = Unspent(x.capacity)
    <3> HIDE DEF x
    <3> QED BY Allocation!FoldEmpty
  <2>2. Allocation!Fold(x, <<>>) = Unspent(cap) BY <1>0, <2>1
  <2>3. SoundLeft(S, k, cap, <<>>, Allocation!Fold(x, <<>>)) BY <2>2, SoundAtFirst
  <2> HIDE DEF x, C, ranked
  <2>4. <<>> \in Seq(C) OBVIOUS
  <2> QED BY <2>3, <2>4
<1>3. ASSUME NEW t \in Seq(C), NEW c \in C, t \in G PROVE Append(t, c) \in G
  <2>1. Append(t, c) \in Seq(C) OBVIOUS
  <2>2. ASSUME Upto(ranked, Append(t, c))
        PROVE  SoundLeft(S, k, cap, Append(t, c), Allocation!Fold(x, Append(t, c)))
    <3>1. Upto(ranked, t)
      <4> HIDE DEF x, C, ranked
      <4>1. /\ Len(Append(t, c)) = Len(t) + 1
            /\ \A i \in DOMAIN t : i \in DOMAIN Append(t, c) /\ Append(t, c)[i] = t[i]
        OBVIOUS
      <4>2. Len(t) \in Nat /\ Len(ranked) \in Nat BY <1>1
      <4> QED BY <2>2, <4>1, <4>2 DEF Upto
    <3>2. SoundLeft(S, k, cap, t, Allocation!Fold(x, t)) BY <1>3, <3>1
    <3>3. Allocation!Fold(x, Append(t, c)) = Consider(x.ranked, x.capacity.equity, Allocation!Fold(x, t), c)
      <4> HIDE DEF x, C, ranked
      <4> QED BY Allocation!FoldAppend
    <3>4. Allocation!Fold(x, Append(t, c)) = Consider(ranked, cap.equity, Allocation!Fold(x, t), c)
      BY <1>0, <3>3
    <3>5. SoundLeft(S, k, cap, Append(t, c), Consider(ranked, cap.equity, Allocation!Fold(x, t), c))
      <4> DEFINE left == Allocation!Fold(x, t)
      <4>1. SoundLeft(S, k, cap, t, left) BY <3>2
      <4> HIDE DEF left, x, ranked
      <4>2. SoundLeft(S, k, cap, Append(t, c), Consider(ranked, cap.equity, left, c))
        BY <1>1, <2>2, <4>1, SoundNext, SMTT(60)
      <4> QED BY <4>2 DEF left
    <3> QED BY <3>4, <3>5
  <2> QED BY <2>1, <2>2
<1>4. ranked \in G
  <2> HIDE DEF G, ranked, C
  <2> QED BY <1>1, <1>2, <1>3, Allocation!SeqSetInduction
<1>5. SoundLeft(S, k, cap, ranked, Allocation!Fold(x, ranked))
  <2>1. Upto(ranked, ranked)
    <3> HIDE DEF ranked
    <3>1. Len(ranked) \in Nat BY <1>1
    <3> QED BY <3>1 DEF Upto
  <2> QED BY <1>4, <2>1
<1>6. Allocation!Fold(x, ranked).filled = AllocateCandidates(candidates, cap)
  BY <1>0 DEF AllocateCandidates, Allocation!Fold, Allocation!FoldLeft,
              Allocation!MapThenFoldSet, Allocation!Max, FoldLeft,
         MapThenFoldSet, Max
<1> QED BY <1>5, <1>6 DEF SoundLeft

-----------------------------------------------------------------------------
(* What the desk reads and writes *)

\* The sum of an integer function over all symbols is an integer.
LEMMA SumFunctionTyped ==
  ASSUME NEW S, IsFiniteSet(S), NEW f \in [S -> Int]
  PROVE  SumFunction(f) \in Int /\ SumFunction(f) = SumFunctionOnSet(f, S)
<1>1. SumFunction(f) = SumFunctionOnSet(f, S) BY DEF SumFunction
<1> QED BY <1>1, SumTyped

\* The symbols in a stage are finitely many.
LEMMA StagedFinite == \A stage : IsFiniteSet(Staged(stage)) /\ Staged(stage) \in SUBSET Symbols
<1> SUFFICES ASSUME NEW stage PROVE IsFiniteSet(Staged(stage)) /\ Staged(stage) \in SUBSET Symbols
  OBVIOUS
<1>1. Staged(stage) \in SUBSET Symbols /\ IsFiniteSet(Symbols) BY SymbolAssumption DEF Staged
<1> QED BY <1>1, FS_Subset

\* The capacity of a close is integer.
LEMMA CapacityTyped ==
  ASSUME TypeInv
  PROVE  Books \in Portfolios /\ CapacityOK(Capacity)
<1>1. Books \in Portfolios BY BooksTyped DEF TypeInv, Books
<1>2. MarketValue(Books) \in Int
  <2> DEFINE f == [s \in Symbols |-> Books.shares[s] * Books.mark[s]]
  <2>1. f \in [Symbols -> Int]
    <3>1. Books.shares \in [Symbols -> Int] /\ Books.mark \in [Symbols -> Int]
      BY <1>1 DEF Portfolios
    <3> HIDE DEF Books
    <3> QED BY <3>1
  <2>2. MarketValue(Books) = SumFunction(f) BY DEF MarketValue
  <2> HIDE DEF f
  <2> QED BY <2>1, <2>2, SumFunctionTyped, SymbolAssumption
<1>3. PlannedLoss \in Int
  <2> DEFINE S == Staged("open") \cup Staged("leaving")
             f == [s \in S |-> desk[s].loss]
  <2>1. IsFiniteSet(S) /\ S \in SUBSET Symbols BY StagedFinite, FS_Union
  <2>2. f \in [S -> Int]
    <3>1. \A s \in S : desk[s] \in Positions BY <2>1 DEF TypeInv
    <3> HIDE DEF S
    <3> QED BY <3>1 DEF Positions
  <2>3. PlannedLoss = SumFunction(f) BY DEF PlannedLoss
  <2> HIDE DEF f, S
  <2> QED BY <2>1, <2>2, <2>3, SumFunctionTyped
<1>4. Cardinality(Staged("open") \cup Staged("leaving")) \in Nat
  BY StagedFinite, FS_Union, FS_CardinalityType
<1>5. Books.cash \in Int BY <1>1 DEF Portfolios
<1> QED BY <1>1, <1>2, <1>3, <1>4, <1>5 DEF Capacity, CapacityOK, EquityOf

\* What a close sees of each symbol is one of its observations, of natural prices.
LEMMA SeenFacts ==
  ASSUME NEW seen \in PerSymbol(Observations), NEW s \in Symbols
  PROVE  /\ seen[s] \in Observations[s]
         /\ seen[s].close \in Nat \ {0} /\ seen[s].low \in Nat /\ seen[s].atr \in Nat
BY DeskAssumption DEF PerSymbol

\* An order is a record of the desk's, of at least one share if the symbol enters.
LEMMA OrderTyped ==
  ASSUME TypeInv, NEW seen \in PerSymbol(Observations), NEW s \in Symbols
  PROVE  LET o == seen[s]
         IN  /\ Sized(o).shares \in Int /\ Sized(o).stop \in Int
             /\ Sized(o).notional \in Int /\ Sized(o).plannedLoss \in Int
             /\ Order(o) = [stage |-> "entering", shares |-> Sized(o).shares, stop |-> Sized(o).stop,
                            loss |-> Sized(o).plannedLoss, notional |-> Sized(o).notional,
                            held |-> 0, failures |-> 0]
             /\ Order(o) \in Positions
             /\ Enters(o) => Sized(o).shares > 0
<1> DEFINE o == seen[s]
<1>1. o.close \in Nat \ {0} /\ o.atr \in Nat BY SeenFacts
<1>2. Capacity.cash \in Int /\ Capacity.equity \in Int /\ Capacity.plannedLoss \in Int
  BY CapacityTyped DEF CapacityOK
<1>3. /\ Sized(o).shares \in Int /\ Sized(o).stop \in Int
      /\ Sized(o).notional \in Int /\ Sized(o).plannedLoss \in Int
  BY <1>1, <1>2, SizeTyped DEF Sized
<1>4. Order(o) = [stage |-> "entering", shares |-> Sized(o).shares, stop |-> Sized(o).stop,
                  loss |-> Sized(o).plannedLoss, notional |-> Sized(o).notional,
                  held |-> 0, failures |-> 0]
  BY DEF Order
<1>5. Order(o) \in Positions BY <1>3, <1>4 DEF Positions, Stages
<1>6. Enters(o) => Sized(o).shares > 0 BY DEF Enters, EvaluatePositionEntry
<1> QED BY <1>3, <1>4, <1>5, <1>6

-----------------------------------------------------------------------------
(* The close of a session *)

\* Entrants are finitely many symbols, none of them on the desk.
LEMMA EntrantsFinite ==
  ASSUME NEW seen
  PROVE  /\ Entrants(seen) \in SUBSET Symbols /\ IsFiniteSet(Entrants(seen))
         /\ Entrants(seen) \in SUBSET Staged("flat")
<1>1. Entrants(seen) \in SUBSET Staged("flat") BY DEF Entrants
<1> QED BY <1>1, StagedFinite, FS_Subset

\* Every candidate listed is one of an entrant.
LEMMA ListedTyped ==
  ASSUME NEW seen, NEW repeated
  PROVE  Listed(seen, repeated) \in
           Seq(The(Entrants(seen), [s \in Symbols |-> Candidate(s, seen[s])]))
<1> DEFINE S == Entrants(seen)
           k == [s \in Symbols |-> Candidate(s, seen[s])]
           a == SetToSeq(S)
           b == SetToSeq(S \cap repeated)
           q == a \o b
<1>1. IsFiniteSet(S) /\ S \in SUBSET Symbols BY EntrantsFinite
<1>2. a \in Seq(S)
  <2> HIDE DEF S
  <2> QED BY <1>1, SetToSeqFacts
<1>3. b \in Seq(S)
  <2> DEFINE T == S \cap repeated
  <2>1. IsFiniteSet(T) /\ T \in SUBSET S BY <1>1, FS_Subset
  <2>2. SetToSeq(T) \in Seq(T)
    <3> HIDE DEF T
    <3> QED BY <2>1, SetToSeqFacts
  <2> HIDE DEF S
  <2>3. Seq(T) \in SUBSET Seq(S) OBVIOUS
  <2> QED BY <2>2, <2>3
<1>4. q \in Seq(S)
  <2> HIDE DEF a, b, S
  <2> QED BY <1>2, <1>3
<1>5. Listed(seen, repeated) = [i \in DOMAIN q |-> Candidate(q[i], seen[q[i]])]
  BY DEF Listed
<1>6. \A i \in DOMAIN q : Candidate(q[i], seen[q[i]]) \in The(S, k)
  <2> HIDE DEF q, S
  <2>1. SUFFICES ASSUME NEW i \in DOMAIN q PROVE Candidate(q[i], seen[q[i]]) \in The(S, k)
    OBVIOUS
  <2>2. q[i] \in S /\ q[i] \in Symbols BY <1>1, <1>4
  <2>3. k[q[i]] = Candidate(q[i], seen[q[i]]) BY <2>2
  <2> QED BY <2>2, <2>3 DEF The
<1>7. DOMAIN q = 1 .. Len(q) /\ Len(q) \in Nat
  <2> HIDE DEF q, S
  <2> QED BY <1>4
<1> HIDE DEF q, k, S
<1>8. [i \in DOMAIN q |-> Candidate(q[i], seen[q[i]])] \in Seq(The(S, k)) BY <1>6, <1>7
<1> QED BY <1>5, <1>8 DEF k, S

\* What is chosen are entrants, and they fit the capacity together.
LEMMA ChosenFits ==
  ASSUME TypeInv, NEW seen \in PerSymbol(Observations), NEW repeated
  PROVE  LET S == Entrants(seen)
             k == [s \in Symbols |-> Candidate(s, seen[s])]
         IN  \E left : /\ Chosen(seen, repeated) = FilledSymbols(left)
                       /\ LeftInv(S, k, Capacity, left)
<1> DEFINE S == Entrants(seen)
           k == [s \in Symbols |-> Candidate(s, seen[s])]
           q == Listed(seen, repeated)
<1>1. IsFiniteSet(S) /\ S \in SUBSET Symbols BY EntrantsFinite
<1>2. Candidates(S, k)
  <2>1. \A s \in S : k[s] = Candidate(s, seen[s]) BY <1>1
  <2>2. \A s \in S : /\ Candidate(s, seen[s]).symbol = s
                     /\ Candidate(s, seen[s]).notional \in Int
                     /\ Candidate(s, seen[s]).plannedLoss \in Int
    <3>1. \A s \in S : Sized(seen[s]).notional \in Int /\ Sized(seen[s]).plannedLoss \in Int
      BY <1>1, OrderTyped
    <3> QED BY <3>1 DEF Candidate
  <2> HIDE DEF S, k
  <2> QED BY <2>1, <2>2 DEF Candidates
<1>3. CapacityOK(Capacity) BY CapacityTyped
<1>4. q \in Seq(The(S, k)) BY ListedTyped
<1>5. PICK left : /\ left.filled = AllocateCandidates(q, Capacity)
                  /\ LeftInv(S, k, Capacity, left)
  <2> HIDE DEF S, k, q
  <2> QED BY <1>1, <1>2, <1>3, <1>4, AllocationFits
<1>6. Chosen(seen, repeated) = FilledSymbols(left)
  BY <1>5 DEF Chosen, FilledSymbols
<1> QED BY <1>5, <1>6

-----------------------------------------------------------------------------
(* The steps keep the invariant *)

\* A record in another stage, after n failures
Restaged(d, stage, n) == [d EXCEPT !.stage = stage, !.failures = n]

\* It is a record, and its other fields are as they were.
LEMMA RestagedTyped ==
  ASSUME NEW d \in Positions, NEW stage \in Stages, NEW n \in 0..2
  PROVE  /\ Restaged(d, stage, n) \in Positions
         /\ Restaged(d, stage, n).stage = stage /\ Restaged(d, stage, n).failures = n
         /\ Restaged(d, stage, n).shares = d.shares /\ Restaged(d, stage, n).held = d.held
BY DEF Positions, Restaged

\* The marks of a close are events of the desk's own.
LEMMA MarksTyped ==
  ASSUME TypeInv, NEW seen \in PerSymbol(Observations)
  PROVE  Marks(seen) \in Seq(PaperEvents)
<1> DEFINE held == SetToSeq(Staged("open"))
           E(i) == MarkEvent(Len(log) + i, held[i], seen[held[i]].close * Mills, session + 1)
<1>1. held \in Seq(Staged("open"))
  <2>1. IsFiniteSet(Staged("open")) BY StagedFinite
  <2> QED BY <2>1, SetToSeqFacts
<1>2. Marks(seen) = [i \in DOMAIN held |-> E(i)] BY DEF Marks
<1>3. \A i \in DOMAIN held : E(i) \in PaperEvents
  <2> SUFFICES ASSUME NEW i \in DOMAIN held PROVE E(i) \in PaperEvents OBVIOUS
  <2>1. i \in Nat /\ held[i] \in Symbols
    <3> HIDE DEF held
    <3>1. i \in Nat /\ held[i] \in Staged("open") BY <1>1
    <3> QED BY <3>1, StagedFinite
  <2> HIDE DEF held
  <2>2. seen[held[i]].close * Mills \in Int BY <2>1, SeenFacts DEF Mills
  <2>3. Len(log) + i \in Int /\ session + 1 \in Int BY <2>1 DEF TypeInv
  <2> QED BY <2>1, <2>2, <2>3 DEF MarkEvent, PaperEvents, EventTypes, NoEvent
<1>4. DOMAIN held = 1 .. Len(held) /\ Len(held) \in Nat
  <2> HIDE DEF held
  <2> QED BY <1>1
<1> HIDE DEF held, E
<1>5. [i \in DOMAIN held |-> E(i)] \in Seq(PaperEvents) BY <1>3, <1>4
<1> QED BY <1>2, <1>5

\* The close of a session keeps the invariant.
LEMMA CloseStep ==
  ASSUME DeskInv, NEW seen \in PerSymbol(Observations), NEW repeated, Close(seen, repeated)
  PROVE  DeskInv'
<1> USE DEF DeskInv
<1>0. /\ phase = "close" /\ session' = session + 1 /\ phase' = "open"
      /\ desk' = [s \in Symbols |->
                    IF s \in Staged("open") THEN Reviewed(s, seen[s])
                    ELSE IF s \in Chosen(seen, repeated) THEN Order(seen[s]) ELSE desk[s]]
      /\ log' = log \o Marks(seen)
      /\ misses' = [s \in Symbols |->
                      IF s \notin Staged("open") THEN 0
                      ELSE IF seen[s].judged.status # "failed"
                              /\ HoldGatesPass(seen[s].judged.answers) THEN 0
                      ELSE misses[s] + 1]
      /\ low' = [s \in Symbols |-> seen[s].low * Mills]
      /\ raced' = (raced \/ (action # NoAction /\ log' # log))
      /\ action' = action /\ actions' = actions
  BY DEF Close
<1>1. log' \in Seq(PaperEvents)
  <2>1. Marks(seen) \in Seq(PaperEvents) /\ log \in Seq(PaperEvents) BY MarksTyped DEF TypeInv
  <2> QED BY <1>0, <2>1
<1>2. misses' \in [Symbols -> Nat]
  <2>1. misses \in [Symbols -> Nat] BY DEF TypeInv
  <2> QED BY <1>0, <2>1
<1>3. low' \in [Symbols -> Int]
  <2>1. \A s \in Symbols : seen[s].low * Mills \in Int BY SeenFacts DEF Mills
  <2> QED BY <1>0, <2>1
<1>4. ASSUME NEW s \in Symbols, s \in Staged("open")
      PROVE  /\ desk'[s] \in Positions /\ desk'[s].stage \in {"open", "leaving"}
             /\ desk'[s].stage = "open" => desk'[s].failures = misses'[s] /\ misses'[s] <= 1
  <2>1. desk'[s] = Reviewed(s, seen[s]) BY <1>0, <1>4
  <2>2. desk[s] \in Positions /\ desk[s].stage = "open" BY <1>4 DEF TypeInv, Staged
  <2>3. seen[s] \in Observations[s] BY SeenFacts
  <2>4. PICK v : v = Verdict(s, seen[s]) OBVIOUS
  <2>5. /\ v.failures \in 0..2
        /\ v.action # "EXIT" =>
             /\ v.failures = IF seen[s].judged.status # "failed" /\ HoldGatesPass(seen[s].judged.answers)
                             THEN 0 ELSE misses[s] + 1
             /\ v.failures <= 1
    BY <2>2, <2>3, <2>4, VerdictFacts
  <2>6. PICK stage \in Stages : stage = IF v.action = "EXIT" THEN "leaving" ELSE "open" BY DEF Stages
  <2>7. Reviewed(s, seen[s]) = Restaged(desk[s], stage, v.failures)
    BY <2>4, <2>6 DEF Reviewed, Restaged
  <2>8. /\ desk'[s] \in Positions /\ desk'[s].stage = stage /\ desk'[s].failures = v.failures
    BY <2>1, <2>2, <2>5, <2>7, RestagedTyped
  <2>9. misses'[s] = IF seen[s].judged.status # "failed" /\ HoldGatesPass(seen[s].judged.answers)
                     THEN 0 ELSE misses[s] + 1
    BY <1>0, <1>4
  <2> QED BY <2>5, <2>6, <2>8, <2>9
<1>5. ASSUME NEW s \in Symbols, s \notin Staged("open"), s \in Chosen(seen, repeated)
      PROVE  /\ desk'[s] \in Positions /\ desk'[s].stage = "entering" /\ desk'[s].failures = 0
             /\ desk'[s].shares > 0 /\ misses'[s] = 0
  <2>1. desk'[s] = Order(seen[s]) /\ misses'[s] = 0 BY <1>0, <1>5
  <2>2. Enters(seen[s])
    <3>1. Chosen(seen, repeated) \in SUBSET Entrants(seen) BY ChosenFits DEF LeftInv
    <3> QED BY <1>5, <3>1 DEF Entrants
  <2>3. /\ Order(seen[s]) \in Positions /\ Sized(seen[s]).shares > 0
        /\ Order(seen[s]) = [stage |-> "entering", shares |-> Sized(seen[s]).shares,
                             stop |-> Sized(seen[s]).stop, loss |-> Sized(seen[s]).plannedLoss,
                             notional |-> Sized(seen[s]).notional, held |-> 0, failures |-> 0]
    BY <2>2, OrderTyped
  <2> QED BY <2>1, <2>3
<1>6. ASSUME NEW s \in Symbols, s \notin Staged("open"), s \notin Chosen(seen, repeated)
      PROVE  /\ desk'[s] \in Positions /\ desk'[s].stage \notin {"open", "entering"}
  <2>1. desk'[s] = desk[s] BY <1>0, <1>6
  <2>2. desk[s] \in Positions /\ desk[s].stage # "open" BY <1>6 DEF TypeInv, Staged
  <2>3. desk[s].stage # "entering" BY <1>0 DEF CountInv
  <2> QED BY <2>1, <2>2, <2>3
<1>7. desk' \in [Symbols -> Positions]
  <2>1. \A s \in Symbols : desk'[s] \in Positions BY <1>4, <1>5, <1>6
  <2>2. desk' = [s \in Symbols |-> desk'[s]] BY <1>0
  <2> QED BY <2>1, <2>2
<1>8. TypeInv' BY <1>0, <1>1, <1>2, <1>3, <1>7 DEF TypeInv
<1>9. CountInv' BY <1>0, <1>4, <1>5, <1>6 DEF CountInv
<1> QED BY <1>8, <1>9

\* What is traded at the open is an event.
LEMMA TradeTyped ==
  ASSUME TypeInv, NEW i \in Int, NEW s \in Symbols, NEW open \in Nat
  PROVE  Trade(i, s, open) \in PaperEvents
<1>1. PICK fill \in Int : fill = FillPrice(open, "entry") BY DEF FillPrice
<1>2. PICK fill2 \in Int : fill2 = FillPrice(open, "exit") BY DEF FillPrice
<1>3. PICK n \in Int : n = desk[s].shares BY DEF TypeInv, Positions
<1>4. PICK m \in Int : m = Books.shares[s] BY CapacityTyped DEF Portfolios
<1>5. session \in Int BY DEF TypeInv
<1>6. EntryEvent(i, s, n, fill, session) \in PaperEvents
  BY <1>5 DEF EntryEvent, PaperEvents, EventTypes, NoEvent
<1>7. ExitEvent(i, s, m, fill2, "exit", session) \in PaperEvents
  BY <1>5 DEF ExitEvent, PaperEvents, EventTypes, NoEvent
<1> QED BY <1>1, <1>2, <1>3, <1>4, <1>6, <1>7 DEF Trade

\* The symbols bought or sold at the open
Traded(opens, attested) ==
    {s \in Symbols : Bought(s, opens[s], attested[s]) \/ Sold(s, opens[s], attested[s])}

\* The events of these trades, one by one
TradeEvents(opens, attested) ==
    LET traded == SetToSeq(Traded(opens, attested))
    IN  [i \in DOMAIN traded |-> Trade(Len(log) + i, traded[i], opens[traded[i]])]

\* The log with these events is a sequence of events.
LEMMA TradesTyped ==
  ASSUME TypeInv, NEW opens \in PerSymbol(Opens), NEW attested
  PROVE  TradeEvents(opens, attested) \in Seq(PaperEvents)
<1> DEFINE traded == SetToSeq(Traded(opens, attested))
           E(i) == Trade(Len(log) + i, traded[i], opens[traded[i]])
<1>1. traded \in Seq(Symbols)
  <2>1. Traded(opens, attested) \in SUBSET Symbols /\ IsFiniteSet(Traded(opens, attested))
    BY SymbolAssumption, FS_Subset DEF Traded
  <2>2. traded \in Seq(Traded(opens, attested)) BY <2>1, SetToSeqFacts
  <2> HIDE DEF traded
  <2> QED BY <2>1, <2>2
<1>2. \A s \in Symbols : opens[s] \in Nat BY DeskAssumption DEF PerSymbol
<1>3. TradeEvents(opens, attested) = [i \in DOMAIN traded |-> E(i)] BY DEF TradeEvents
<1>4. Len(log) \in Nat BY DEF TypeInv
<1>5. \A i \in DOMAIN traded : E(i) \in PaperEvents
  <2> HIDE DEF traded
  <2> SUFFICES ASSUME NEW i \in DOMAIN traded PROVE E(i) \in PaperEvents OBVIOUS
  <2>1. i \in Nat /\ traded[i] \in Symbols BY <1>1
  <2>2. Len(log) + i \in Int /\ opens[traded[i]] \in Nat BY <1>2, <1>4, <2>1
  <2> QED BY <2>1, <2>2, TradeTyped
<1>6. DOMAIN traded = 1 .. Len(traded) /\ Len(traded) \in Nat
  <2> HIDE DEF traded
  <2> QED BY <1>1
<1> HIDE DEF traded, E
<1>7. [i \in DOMAIN traded |-> E(i)] \in Seq(PaperEvents) BY <1>5, <1>6
<1> QED BY <1>3, <1>7

\* What the next open makes of each symbol's record
LEMMA OpenedFacts ==
  ASSUME TypeInv, NEW s \in Symbols, NEW open, NEW attested
  PROVE  LET d == desk[s]
             r == Opened(s, open, attested)
         IN  /\ r \in Positions
             /\ r.stage # "entering"
             /\ r.stage = "open" => /\ d.stage = "open" \/ Bought(s, open, attested)
                                    /\ r.failures = d.failures /\ r.shares = d.shares
             /\ d.stage = "flat" => r.stage = "flat"
<1>0. desk[s] \in Positions BY DEF TypeInv
<1>f. Flat \in Positions /\ Flat.stage = "flat" BY DEF Flat, Positions, Stages
<1>1. CASE Bought(s, open, attested)
  <2>2. desk[s].stage = "entering" BY <1>1 DEF Bought
  <2>1. Opened(s, open, attested) = [desk[s] EXCEPT !.stage = "open"]
    BY <1>1, <2>2 DEF Opened, Sold
  <2> QED BY <1>0, <1>1, <2>1, <2>2 DEF Positions, Stages
<1>2. CASE desk[s].stage = "entering" /\ ~Bought(s, open, attested)
  <2>1. Opened(s, open, attested) = Flat BY <1>2 DEF Opened, Sold
  <2> QED BY <1>2, <1>f, <2>1
<1>3. CASE Sold(s, open, attested)
  <2>1. desk[s].stage = "leaving" BY <1>3 DEF Sold
  <2>2. Opened(s, open, attested) = Flat BY <1>3, <2>1 DEF Opened, Bought
  <2> QED BY <2>1, <1>f, <2>2
<1>4. CASE desk[s].stage = "open"
  <2>1. Opened(s, open, attested) = [desk[s] EXCEPT !.held = @ + 1]
    BY <1>4 DEF Opened, Bought, Sold
  <2>2. [desk[s] EXCEPT !.held = @ + 1] \in Positions BY <1>0 DEF Positions
  <2> QED BY <1>0, <1>4, <2>1, <2>2 DEF Positions
<1>5. CASE desk[s].stage \notin {"entering", "open"} /\ ~Sold(s, open, attested)
  <2>1. Opened(s, open, attested) = desk[s] BY <1>5 DEF Opened, Bought
  <2> QED BY <1>0, <1>5, <2>1
<1> QED BY <1>1, <1>2, <1>3, <1>4, <1>5

\* The next open keeps the invariant.
LEMMA OpenStep ==
  ASSUME DeskInv, NEW opens \in PerSymbol(Opens), NEW attested, Open(opens, attested)
  PROVE  DeskInv'
<1> USE DEF DeskInv
<1>0. /\ phase = "open" /\ phase' = "close"
      /\ log' = log \o TradeEvents(opens, attested)
      /\ desk' = [s \in Symbols |-> Opened(s, opens[s], attested[s])]
      /\ raced' = (raced \/ (action # NoAction /\ log' # log))
      /\ UNCHANGED <<session, action, actions, misses, low>>
  BY DEF Open, TradeEvents, Traded
<1>1. log' \in Seq(PaperEvents)
  <2>1. TradeEvents(opens, attested) \in Seq(PaperEvents) /\ log \in Seq(PaperEvents)
    BY TradesTyped DEF TypeInv
  <2> QED BY <1>0, <2>1
<1>2. \A s \in Symbols : desk'[s] = Opened(s, opens[s], attested[s]) BY <1>0
<1>3. desk' \in [Symbols -> Positions]
  <2>1. \A s \in Symbols : Opened(s, opens[s], attested[s]) \in Positions BY OpenedFacts
  <2> QED BY <1>0, <2>1
<1>4. TypeInv' BY <1>0, <1>1, <1>3 DEF TypeInv
<1>5. ASSUME NEW s \in Symbols
      PROVE  /\ desk'[s].stage = "open" => desk'[s].failures = misses'[s] /\ misses'[s] <= 1
             /\ desk'[s].stage # "entering"
  <2>1. desk'[s].stage # "entering" BY <1>2, OpenedFacts
  <2>2. ASSUME desk'[s].stage = "open" PROVE desk'[s].failures = misses'[s] /\ misses'[s] <= 1
    <3>1. /\ desk[s].stage = "open" \/ desk[s].stage = "entering"
          /\ desk'[s].failures = desk[s].failures
      BY <1>2, <2>2, OpenedFacts DEF Bought
    <3>2. misses'[s] = misses[s] BY <1>0
    <3>3. desk[s].failures = misses[s] /\ misses[s] <= 1 BY <3>1 DEF CountInv
    <3> QED BY <3>1, <3>2, <3>3
  <2> QED BY <2>1, <2>2
<1>6. CountInv' BY <1>5 DEF CountInv
<1> QED BY <1>4, <1>6

\* An event of the feed is an event, with the id it was given.
LEMMA FeedTyped ==
  ASSUME TypeInv, NEW s \in Symbols, NEW id \in Int, NEW e \in FeedEvents(id, s)
  PROVE  e \in PaperEvents
<1>1. PICK n \in Int : n = Books.shares[s] BY CapacityTyped DEF Portfolios
<1>2. session \in Int BY DEF TypeInv
<1>3. CashDividendEvent(id, s, n, 100, session) \in PaperEvents
  BY <1>2 DEF CashDividendEvent, PaperEvents, EventTypes, NoEvent
<1>4. CorrectionEvent(id, 1, -100, session) \in PaperEvents
  BY <1>2 DEF CorrectionEvent, PaperEvents, EventTypes
<1>5. \A a \in {1, 2}, b \in {1, 2} : SplitEvent(id, s, n, a, b, session) \in PaperEvents
  <2>1. \A a \in {1, 2}, b \in {1, 2} : (n * a) \div b - n \in Int OBVIOUS
  <2> QED BY <1>2, <2>1 DEF SplitEvent, PaperEvents, EventTypes, NoEvent
<1>6. \A r \in {q \in {<<2, 1>>, <<1, 2>>} : SplitDefined(n, q[1], q[2])} :
         r[1] \in {1, 2} /\ r[2] \in {1, 2}
  OBVIOUS
<1>7. \/ e = CashDividendEvent(id, s, n, 100, session)
      \/ e = CorrectionEvent(id, 1, -100, session)
      \/ \E a \in {1, 2}, b \in {1, 2} : e = SplitEvent(id, s, n, a, b, session)
  <2>1. e \in (IF n > 0 THEN {CashDividendEvent(id, s, n, 100, session)} ELSE {})
             \cup {SplitEvent(id, s, n, r[1], r[2], session) :
                     r \in {q \in {<<2, 1>>, <<1, 2>>} : SplitDefined(n, q[1], q[2])}}
             \cup {CorrectionEvent(id, 1, -100, session)}
    BY <1>1 DEF FeedEvents
  <2> QED BY <1>6, <2>1
<1> QED BY <1>3, <1>4, <1>5, <1>7

\* Computing an event of the feed keeps the invariant.
LEMMA ComputeStep ==
  ASSUME DeskInv, Compute
  PROVE  DeskInv'
<1> USE DEF DeskInv
<1>1. PICK s \in Symbols : \E e \in FeedEvents(-(actions + 1), s) : action' = e BY DEF Compute
<1>2. actions \in Nat /\ -(actions + 1) \in Int BY DEF TypeInv
<1>3. PICK e \in FeedEvents(-(actions + 1), s) : action' = e BY <1>1
<1>6. e \in PaperEvents BY <1>2, FeedTyped
<1>4. TypeInv' BY <1>3, <1>6 DEF TypeInv, Compute
<1>5. CountInv' BY DEF CountInv, Compute
<1> QED BY <1>4, <1>5

\* A record with another stop and other shares
Moved(d, stop, shares) == [d EXCEPT !.stop = stop, !.shares = shares]

\* It is a record, and its other fields are as they were.
LEMMA MovedTyped ==
  ASSUME NEW d \in Positions, NEW stop \in Int, NEW shares \in Int
  PROVE  /\ Moved(d, stop, shares) \in Positions
         /\ Moved(d, stop, shares).stop = stop /\ Moved(d, stop, shares).shares = shares
         /\ Moved(d, stop, shares).stage = d.stage /\ Moved(d, stop, shares).loss = d.loss
         /\ Moved(d, stop, shares).notional = d.notional /\ Moved(d, stop, shares).held = d.held
         /\ Moved(d, stop, shares).failures = d.failures
BY DEF Positions, Moved

\* A split that is followed leaves the position's stage, its count and its time.
LEMMA FollowFacts ==
  ASSUME TypeInv, NEW e \in PaperEvents, NEW s \in Symbols
  PROVE  /\ FollowSplit(e) \in [Symbols -> Positions]
         /\ FollowSplit(e)[s].stage = desk[s].stage /\ FollowSplit(e)[s].failures = desk[s].failures
         /\ FollowSplit(e)[s].held = desk[s].held /\ FollowSplit(e)[s].notional = desk[s].notional
         /\ FollowSplit(e)[s].loss = desk[s].loss
         /\ desk[s].stage \notin {"open", "leaving"} => FollowSplit(e)[s] = desk[s]
<1> DEFINE t == e.symbol
           splits == /\ e.type = "split" /\ desk[t].stage \in {"open", "leaving"}
                     /\ Books.shares[t] > 0 /\ Books.shares[t] + e.shares > 0
<1>0. desk \in [Symbols -> Positions] BY DEF TypeInv
<1>1. CASE ~splits \/ t \notin Symbols
  <2>1. FollowSplit(e) = desk BY <1>0, <1>1 DEF FollowSplit
  <2> QED BY <1>0, <2>1
<1>2. CASE splits /\ t \in Symbols
  <2>1. PICK held \in Int, more \in Int : held = Books.shares[t] /\ more = e.shares
    BY <1>2, CapacityTyped DEF Portfolios, PaperEvents
  <2>2. PICK d \in Positions : d = desk[t] BY <1>0, <1>2
  <2>3. PICK stop \in Int : stop = (d.stop * held) \div (held + more)
    <3>1. PICK old \in Int : old = d.stop BY DEF Positions
    <3>2. held + more > 0 BY <1>2, <2>1
    <3>3. (old * held) \div (held + more) \in Int BY <3>2
    <3> QED BY <3>1, <3>3
  <2>4. PICK n \in Int : n = d.shares + more BY DEF Positions
  <2>5. PICK r : r = Moved(d, stop, n) OBVIOUS
  <2>6. /\ r = SplitPosition(d, held, more)
        /\ r \in Positions /\ r.stage = d.stage /\ r.loss = d.loss /\ r.notional = d.notional
        /\ r.held = d.held /\ r.failures = d.failures
    <3>1. r = SplitPosition(d, held, more) BY <2>3, <2>4, <2>5 DEF SplitPosition, Moved
    <3>2. /\ Moved(d, stop, n) \in Positions
          /\ Moved(d, stop, n).stage = d.stage /\ Moved(d, stop, n).loss = d.loss
          /\ Moved(d, stop, n).notional = d.notional /\ Moved(d, stop, n).held = d.held
          /\ Moved(d, stop, n).failures = d.failures
      BY MovedTyped
    <3> QED BY <2>5, <3>1, <3>2, Zenon
  <2>7. FollowSplit(e) = [desk EXCEPT ![t] = r] BY <1>2, <2>1, <2>2, <2>6 DEF FollowSplit
  <2>8. CASE s = t
    <3>1. FollowSplit(e)[s] = r BY <1>0, <2>7, <2>8
    <3> QED BY <1>0, <1>2, <2>2, <2>4, <2>6, <2>7, <2>8, <3>1
  <2>9. CASE s # t
    <3>1. FollowSplit(e)[s] = desk[s] BY <1>0, <2>7, <2>9
    <3> QED BY <1>0, <2>6, <2>7, <3>1
  <2> QED BY <2>8, <2>9
<1> QED BY <1>1, <1>2

\* Appending the pending event keeps the invariant.
LEMMA DeliverStep ==
  ASSUME DeskInv, Deliver
  PROVE  DeskInv'
<1> USE DEF DeskInv
<1>0. /\ action # NoAction /\ log' = Append(log, action) /\ action' = NoAction
      /\ desk' = FollowSplit(action)
      /\ UNCHANGED <<session, phase, actions, misses, low, raced>>
  BY DEF Deliver
<1>1. action \in PaperEvents /\ log \in Seq(PaperEvents) BY <1>0 DEF TypeInv
<1>2. log' \in Seq(PaperEvents) BY <1>0, <1>1
<1>3. \A s \in Symbols : /\ desk' \in [Symbols -> Positions]
                         /\ desk'[s].stage = desk[s].stage /\ desk'[s].failures = desk[s].failures
                         /\ desk[s].stage \notin {"open", "leaving"} => desk'[s] = desk[s]
  BY <1>0, <1>1, FollowFacts
<1>4. desk' \in [Symbols -> Positions]
  <2>1. CASE Symbols = {}
    <3>1. desk' = desk
      <4>1. action.symbol \notin Symbols BY <2>1
      <4>2. desk \in [Symbols -> Positions] BY DEF TypeInv
      <4> QED BY <1>0, <4>1, <4>2 DEF FollowSplit
    <3> QED BY <3>1 DEF TypeInv
  <2> QED BY <1>3, <2>1
<1>5. TypeInv' BY <1>0, <1>2, <1>4 DEF TypeInv
<1>6. CountInv' BY <1>0, <1>3 DEF CountInv
<1> QED BY <1>5, <1>6

\* The desk starts in the invariant.
LEMMA DeskStart == ASSUME Init PROVE DeskInv
<1>1. Deposit \in Int BY DeskAssumption
<1>2. DepositEvent(1, Deposit, 0) \in PaperEvents
  BY <1>1 DEF DepositEvent, PaperEvents, EventTypes, NoEvent
<1>3. log \in Seq(PaperEvents) BY <1>2 DEF Init
<1>4. Flat \in Positions /\ Flat.stage = "flat" BY DEF Flat, Positions, Stages
<1>5. desk \in [Symbols -> Positions] /\ \A s \in Symbols : desk[s].stage = "flat"
  BY <1>4 DEF Init
<1>6. TypeInv
  <2>1. misses \in [Symbols -> Nat] /\ low \in [Symbols -> Int] BY DEF Init
  <2>2. /\ session = 0 /\ phase = "close" /\ action = NoAction /\ actions = 0 /\ raced = FALSE
    BY DEF Init
  <2> QED BY <1>3, <1>5, <2>1, <2>2 DEF TypeInv
<1>7. CountInv BY <1>5 DEF CountInv
<1> QED BY <1>6, <1>7 DEF DeskInv

\* Every step keeps the invariant.
LEMMA DeskStep == ASSUME DeskInv, [Next]_vars PROVE DeskInv'
<1>1. ASSUME NEW seen \in PerSymbol(Observations), NEW repeated \in {{}, Symbols},
             Close(seen, repeated)
      PROVE  DeskInv'
  BY <1>1, CloseStep
<1>2. ASSUME NEW opens \in PerSymbol(Opens), NEW attested \in PerSymbol(Attestations),
             Open(opens, attested)
      PROVE  DeskInv'
  BY <1>2, OpenStep
<1>3. CASE Compute BY <1>3, ComputeStep
<1>4. CASE Deliver BY <1>4, DeliverStep
<1>5. CASE UNCHANGED vars BY <1>5 DEF vars, DeskInv, TypeInv, CountInv
<1> QED BY <1>1, <1>2, <1>3, <1>4, <1>5 DEF Next

\* The inductive invariant: the desk's record has its type, and the failures it counts are
\* those of the history.
THEOREM DeskInvariance == Spec => []DeskInv
<1>1. Init => DeskInv BY DeskStart
<1>2. DeskInv /\ [Next]_vars => DeskInv' BY DeskStep
<1> QED BY <1>1, <1>2, PTL DEF Spec

-----------------------------------------------------------------------------
(* No position overstays *)

\* A position that stays open after a close was held for less than the horizon, did not
\* fail to be judged twice in a row, and never traded at or below its stop that session,
\* whichever rule of monitoring.ts saw to it.
THEOREM NeverOverstaysHolds == Spec => NeverOverstays
<1> DEFINE Kept(s) ==
             phase = "close" /\ phase' = "open" /\ desk[s].stage = "open" /\ desk'[s].stage = "open"
               => misses'[s] <= 1 /\ desk[s].held < Horizon /\ low'[s] > desk[s].stop
           A == \A s \in Symbols : Kept(s)
<1>1. ASSUME DeskInv, [Next]_vars PROVE [A]_vars
  <2>1. CASE phase = "close" /\ phase' = "open"
    <3>1. PICK seen \in PerSymbol(Observations), repeated \in {{}, Symbols} : Close(seen, repeated)
      BY <1>1, <2>1 DEF Next, Open, Compute, Deliver, vars
    <3>2. ASSUME NEW s \in Symbols, desk[s].stage = "open", desk'[s].stage = "open"
          PROVE  misses'[s] <= 1 /\ desk[s].held < Horizon /\ low'[s] > desk[s].stop
      <4>1. /\ desk'[s] = Reviewed(s, seen[s])
            /\ low'[s] = seen[s].low * Mills
        BY <3>1, <3>2 DEF Close, Staged
      <4>2. seen[s] \in Observations[s] BY SeenFacts
      <4>3. Verdict(s, seen[s]).action # "EXIT"
        <5>1. desk[s] \in Positions BY <1>1 DEF DeskInv, TypeInv
        <5> QED BY <3>2, <4>1, <5>1 DEF Reviewed, Positions
      <4>4. desk[s].held < Horizon /\ seen[s].low * Mills > desk[s].stop
        BY <1>1, <3>2, <4>2, <4>3, VerdictFacts
      <4>5. misses'[s] <= 1
        <5>1. CountInv' BY <1>1, DeskStep DEF DeskInv
        <5> QED BY <3>2, <5>1 DEF CountInv
      <4> QED BY <4>1, <4>4, <4>5
    <3> QED BY <3>2
  <2>2. CASE ~(phase = "close" /\ phase' = "open") BY <2>2
  <2> QED BY <2>1, <2>2
<1>2. Spec => [][A]_vars BY <1>1, DeskInvariance, PTL DEF Spec
<1>3. NeverOverstays <=> [][A]_vars BY DEF NeverOverstays
<1> QED BY <1>2, <1>3

-----------------------------------------------------------------------------
(* What a close commits to fits *)

\* The two sides of an order: what the candidate asked for is what is ordered.
LEMMA OrderedSums ==
  ASSUME DeskInv, NEW seen \in PerSymbol(Observations), NEW repeated, Close(seen, repeated)
  PROVE  LET ordered == {s \in Symbols : desk[s].stage = "flat" /\ desk'[s].stage = "entering"}
             S == Entrants(seen)
             k == [s \in Symbols |-> Candidate(s, seen[s])]
         IN  /\ ordered = Chosen(seen, repeated) /\ ordered \in SUBSET S
             /\ SumFunction([s \in ordered |-> desk'[s].notional])
                  = SumFunctionOnSet([s \in S |-> k[s].notional], ordered)
             /\ SumFunction([s \in ordered |-> desk'[s].loss])
                  = SumFunctionOnSet([s \in S |-> k[s].plannedLoss], ordered)
<1> DEFINE ordered == {s \in Symbols : desk[s].stage = "flat" /\ desk'[s].stage = "entering"}
           S == Entrants(seen)
           k == [s \in Symbols |-> Candidate(s, seen[s])]
<1>0. TypeInv BY DEF DeskInv
<1>1. desk' = [s \in Symbols |->
                 IF s \in Staged("open") THEN Reviewed(s, seen[s])
                 ELSE IF s \in Chosen(seen, repeated) THEN Order(seen[s]) ELSE desk[s]]
  BY DEF Close
<1>2. S \in SUBSET Symbols /\ S \in SUBSET Staged("flat") /\ IsFiniteSet(S) BY EntrantsFinite
<1>3. Chosen(seen, repeated) \in SUBSET S BY <1>0, ChosenFits DEF LeftInv
<1>4. ASSUME NEW s \in Chosen(seen, repeated)
      PROVE  /\ s \in ordered
             /\ desk'[s].notional = k[s].notional /\ desk'[s].loss = k[s].plannedLoss
  <2>1. s \in Symbols /\ desk[s].stage = "flat" BY <1>2, <1>3 DEF Staged
  <2>2. desk'[s] = Order(seen[s]) BY <1>1, <2>1 DEF Staged
  <2>3. k[s] = Candidate(s, seen[s]) BY <2>1
  <2>4. Order(seen[s]).stage = "entering" /\ Order(seen[s]).notional = Sized(seen[s]).notional
        /\ Order(seen[s]).loss = Sized(seen[s]).plannedLoss
    BY DEF Order
  <2>5. /\ Candidate(s, seen[s]).notional = Sized(seen[s]).notional
        /\ Candidate(s, seen[s]).plannedLoss = Sized(seen[s]).plannedLoss
    BY DEF Candidate
  <2> HIDE DEF k
  <2> QED BY <2>1, <2>2, <2>3, <2>4, <2>5
<1>5. ASSUME NEW s \in ordered PROVE s \in Chosen(seen, repeated)
  <2>1. s \notin Staged("open") /\ desk'[s] # desk[s] BY DEF Staged
  <2> QED BY <1>1, <2>1
<1>6. ordered = Chosen(seen, repeated) BY <1>4, <1>5
<1>7. IsFiniteSet(ordered) /\ ordered \in SUBSET S
  <2> HIDE DEF ordered, S
  <2> QED BY <1>2, <1>3, <1>6, FS_Subset
<1>8. SumFunction([s \in ordered |-> desk'[s].notional])
        = SumFunctionOnSet([s \in S |-> k[s].notional], ordered)
  <2> DEFINE f == [s \in ordered |-> desk'[s].notional]
             h == [s \in S |-> k[s].notional]
  <2>1. \A s \in ordered : f[s] = h[s]
    <3> HIDE DEF ordered, S, k
    <3> QED BY <1>4, <1>6, <1>7
  <2>2. SumFunction(f) = SumFunctionOnSet(f, ordered)
    <3> HIDE DEF ordered
    <3> QED BY DEF SumFunction
  <2> HIDE DEF ordered, f, h
  <2>3. SumFunctionOnSet(f, ordered) = SumFunctionOnSet(h, ordered) BY <1>7, <2>1, SumSame
  <2> QED BY <2>2, <2>3 DEF f, h
<1>9. SumFunction([s \in ordered |-> desk'[s].loss])
        = SumFunctionOnSet([s \in S |-> k[s].plannedLoss], ordered)
  <2> DEFINE f == [s \in ordered |-> desk'[s].loss]
             h == [s \in S |-> k[s].plannedLoss]
  <2>1. \A s \in ordered : f[s] = h[s]
    <3> HIDE DEF ordered, S, k
    <3> QED BY <1>4, <1>6, <1>7
  <2>2. SumFunction(f) = SumFunctionOnSet(f, ordered)
    <3> HIDE DEF ordered
    <3> QED BY DEF SumFunction
  <2> HIDE DEF ordered, f, h
  <2>3. SumFunctionOnSet(f, ordered) = SumFunctionOnSet(h, ordered) BY <1>7, <2>1, SumSame
  <2> QED BY <2>2, <2>3 DEF f, h
<1> QED BY <1>6, <1>7, <1>8, <1>9

\* What a close orders fits the cash and the risk it found.
LEMMA CloseFits ==
  ASSUME DeskInv, NEW seen \in PerSymbol(Observations), NEW repeated, Close(seen, repeated)
  PROVE  LET ordered == {s \in Symbols : desk[s].stage = "flat" /\ desk'[s].stage = "entering"}
             c == Capacity
         IN  ordered # {} =>
               /\ SumFunction([s \in ordered |-> desk'[s].notional]) <= c.cash
               /\ Cardinality(ordered) + c.positions <= MaxOpenPositions
               /\ 100 * (SumFunction([s \in ordered |-> desk'[s].loss]) + c.plannedLoss)
                    <= AggregatePercent * c.equity
<1> DEFINE ordered == {s \in Symbols : desk[s].stage = "flat" /\ desk'[s].stage = "entering"}
           S == Entrants(seen)
           k == [s \in Symbols |-> Candidate(s, seen[s])]
           N == [s \in S |-> k[s].notional]
           L == [s \in S |-> k[s].plannedLoss]
           notional == SumFunction([s \in ordered |-> desk'[s].notional])
           loss == SumFunction([s \in ordered |-> desk'[s].loss])
<1>0. TypeInv BY DEF DeskInv
<1>1. /\ ordered = Chosen(seen, repeated) /\ ordered \in SUBSET S
      /\ notional = SumFunctionOnSet(N, ordered) /\ loss = SumFunctionOnSet(L, ordered)
  BY OrderedSums
<1>2. PICK left : Chosen(seen, repeated) = FilledSymbols(left) /\ LeftInv(S, k, Capacity, left)
  BY <1>0, ChosenFits
<1>3. /\ left.cash = Capacity.cash - notional
      /\ left.plannedLoss = Capacity.plannedLoss + loss
      /\ left.positions = Capacity.positions + Cardinality(ordered)
      /\ ordered # {} => /\ left.cash >= 0 /\ left.positions <= MaxOpenPositions
                         /\ 100 * left.plannedLoss <= AggregatePercent * Capacity.equity
  <2> HIDE DEF ordered, S, k, notional, loss
  <2> QED BY <1>1, <1>2 DEF LeftInv, N, L
<1>4. IsFiniteSet(ordered) /\ notional \in Int /\ loss \in Int /\ Cardinality(ordered) \in Nat
  <2>1. ordered \in SUBSET Symbols /\ IsFiniteSet(Symbols) BY SymbolAssumption
  <2>2. IsFiniteSet(ordered)
    <3> HIDE DEF ordered
    <3> QED BY <2>1, FS_Subset
  <2>3. \A s \in ordered : desk'[s] \in Positions
    <3>1. TypeInv' BY CloseStep DEF DeskInv
    <3> QED BY <3>1 DEF TypeInv
  <2> DEFINE f == [s \in ordered |-> desk'[s].notional]
             h == [s \in ordered |-> desk'[s].loss]
  <2>4. f \in [ordered -> Int] /\ h \in [ordered -> Int]
    <3> HIDE DEF ordered
    <3> QED BY <2>3 DEF Positions
  <2> HIDE DEF f, h, ordered
  <2>5. SumFunction(f) \in Int /\ SumFunction(h) \in Int BY <2>2, <2>4, SumFunctionTyped
  <2>6. Cardinality(ordered) \in Nat BY <2>2, FS_CardinalityType
  <2> QED BY <2>2, <2>5, <2>6 DEF f, h
<1>5. /\ Capacity.cash \in Int /\ Capacity.plannedLoss \in Int /\ Capacity.positions \in Nat
      /\ Capacity.equity \in Int
  BY <1>0, CapacityTyped DEF CapacityOK
<1> HIDE DEF ordered, notional, loss
<1>6. ordered # {} =>
        /\ notional <= Capacity.cash
        /\ Cardinality(ordered) + Capacity.positions <= MaxOpenPositions
        /\ 100 * (loss + Capacity.plannedLoss) <= AggregatePercent * Capacity.equity
  <2>1. SUFFICES ASSUME ordered # {}
                 PROVE  /\ notional <= Capacity.cash
                        /\ Cardinality(ordered) + Capacity.positions <= MaxOpenPositions
                        /\ 100 * (loss + Capacity.plannedLoss) <= AggregatePercent * Capacity.equity
    OBVIOUS
  <2>2. PICK n \in Int, l \in Int, m \in Nat : n = notional /\ l = loss /\ m = Cardinality(ordered)
    BY <1>4
  <2>3. PICK cc \in Int, cl \in Int, cp \in Nat :
           cc = Capacity.cash /\ cl = Capacity.plannedLoss /\ cp = Capacity.positions
    BY <1>5
  <2>4. cc - n >= 0 /\ cp + m <= MaxOpenPositions
        /\ 100 * (cl + l) <= AggregatePercent * Capacity.equity
    BY <1>3, <2>1, <2>2, <2>3
  <2>5. n <= cc BY <2>4
  <2>6. m + cp = cp + m /\ l + cl = cl + l OBVIOUS
  <2> QED BY <2>2, <2>3, <2>4, <2>5, <2>6
<1> QED BY <1>6 DEF ordered, notional, loss

\* What a close orders, together with the positions there are, fits the cash, the number of
\* positions and the loss the policy allows, however many candidates ask in one session.
THEOREM CommitmentsFitHolds == Spec => CommitmentsFit
<1> DEFINE A == LET ordered == {s \in Symbols : desk[s].stage = "flat" /\ desk'[s].stage = "entering"}
                    c == Capacity
                IN  ordered # {} =>
                      /\ SumFunction([s \in ordered |-> desk'[s].notional]) <= c.cash
                      /\ Cardinality(ordered) + c.positions <= MaxOpenPositions
                      /\ 100 * (SumFunction([s \in ordered |-> desk'[s].loss]) + c.plannedLoss)
                           <= AggregatePercent * c.equity
<1>1. ASSUME DeskInv, [Next]_vars PROVE [A]_vars
  <2> DEFINE ordered == {s \in Symbols : desk[s].stage = "flat" /\ desk'[s].stage = "entering"}
  <2>0. TypeInv BY <1>1 DEF DeskInv
  <2>1. ASSUME NEW seen \in PerSymbol(Observations), NEW repeated \in {{}, Symbols},
               Close(seen, repeated)
        PROVE  A
    BY <1>1, <2>1, CloseFits
  <2>2. ASSUME NEW opens \in PerSymbol(Opens), NEW attested \in PerSymbol(Attestations),
               Open(opens, attested)
        PROVE  ordered = {}
    <3>1. desk' = [s \in Symbols |-> Opened(s, opens[s], attested[s])] BY <2>2 DEF Open
    <3> QED BY <2>0, <3>1, OpenedFacts
  <2>3. CASE Compute BY <2>3 DEF Compute
  <2>4. ASSUME Deliver PROVE ordered = {}
    <3>1. desk' = FollowSplit(action) /\ action \in PaperEvents
      BY <2>0, <2>4 DEF Deliver, TypeInv
    <3> QED BY <2>0, <3>1, FollowFacts
  <2>5. ordered = {} => A OBVIOUS
  <2> HIDE DEF A, ordered
  <2> QED BY <1>1, <2>1, <2>2, <2>3, <2>4, <2>5 DEF Next
<1>2. Spec => [][A]_vars BY <1>1, DeskInvariance, PTL DEF Spec
<1>3. CommitmentsFit <=> [][A]_vars BY DEF CommitmentsFit
<1> HIDE DEF A
<1> QED BY <1>2, <1>3

-----------------------------------------------------------------------------
(* The projection and the events it has seen *)

\* One round: an event is skipped, refused for good, or applied.
LEMMA RoundFacts ==
  ASSUME NEW p \in Portfolios, NEW e \in PaperEvents, NEW q, q = ProjectEvent(p, e)
  PROVE  /\ q.ok => p.ok /\ e \in q.seen /\ (e \in p.seen => q = p)
                      /\ (e \notin p.seen => q = Applied(p, e))
         /\ p.seen \subseteq q.seen /\ q.seen \subseteq p.seen \cup {e}
<1>1. CASE ~p.ok \/ e \in p.seen
  <2>1. q = p BY <1>1 DEF ProjectEvent
  <2> QED BY <1>1, <2>1
<1>2. CASE q = [p EXCEPT !.ok = FALSE]
  <2>1. q.ok = FALSE /\ q.seen = p.seen BY <1>2 DEF Portfolios
  <2> QED BY <2>1
<1>3. CASE p.ok /\ e \notin p.seen /\ q = Applied(p, e)
  <2>1. Applied(p, e).ok = p.ok /\ Applied(p, e).seen = p.seen \cup {e} BY DEF Applied
  <2> QED BY <1>3, <2>1
<1> QED BY <1>1, <1>2, <1>3 DEF ProjectEvent

\* What was seen was read, and all that was read was seen if nothing was refused.
LEMMA SeenIsRead ==
  ASSUME NEW s \in Seq(PaperEvents)
  PROVE  /\ ProjectPaperPortfolio(s).seen \subseteq {s[i] : i \in DOMAIN s}
         /\ Projects(s) => \A i \in DOMAIN s : s[i] \in ProjectPaperPortfolio(s).seen
<1> DEFINE F(t) == Projection!Fold(0, t)
           Good(t, p) == /\ p.seen \subseteq {t[i] : i \in DOMAIN t}
                         /\ p.ok => \A i \in DOMAIN t : t[i] \in p.seen
           G == {t \in Seq(PaperEvents) : Good(t, F(t))}
<1>1. <<>> \in G
  <2>1. F(<<>>) = Nothing BY Projection!FoldEmpty
  <2>2. Good(<<>>, Nothing) BY DEF Nothing
  <2> HIDE DEF F, Good
  <2> QED BY <2>1, <2>2
<1>2. ASSUME NEW t \in Seq(PaperEvents), NEW e \in PaperEvents, t \in G PROVE Append(t, e) \in G
  <2>1. PICK p : p = F(t) OBVIOUS
  <2>2. F(Append(t, e)) = ProjectEvent(p, e)
    <3>1. Projection!Fold(0, Append(t, e)) = ProjectEvent(Projection!Fold(0, t), e) BY Projection!FoldAppend
    <3> QED BY <2>1, <3>1
  <2>3. p \in Portfolios BY <2>1, NothingTyped, ProjectTyped, Projection!FoldStaysIn
  <2>4. Good(t, p) BY <1>2, <2>1
  <2>5. PICK q : q = ProjectEvent(p, e) OBVIOUS
  <2>6. /\ q.ok => p.ok /\ e \in q.seen
        /\ p.seen \subseteq q.seen /\ q.seen \subseteq p.seen \cup {e}
    BY <2>3, <2>5, RoundFacts
  <2>7. /\ \A i \in DOMAIN t : i \in DOMAIN Append(t, e) /\ Append(t, e)[i] = t[i]
        /\ \A i \in DOMAIN Append(t, e) : i \in DOMAIN t \/ Append(t, e)[i] = e
        /\ \E i \in DOMAIN Append(t, e) : Append(t, e)[i] = e
    <3>1. PICK n \in Nat : n = Len(t) OBVIOUS
    <3>2. DOMAIN t = 1..n /\ DOMAIN Append(t, e) = 1 .. n + 1 /\ Append(t, e)[n + 1] = e BY <3>1
    <3> QED BY <3>1, <3>2
  <2>8. Good(Append(t, e), q) BY <2>4, <2>6, <2>7
  <2> HIDE DEF F, Good
  <2> QED BY <2>2, <2>5, <2>8
<1>3. s \in G
  <2> HIDE DEF G
  <2> QED BY <1>1, <1>2, Projection!SeqSetInduction
<1>4. F(s) = ProjectPaperPortfolio(s) BY ProjectIsFold
<1> HIDE DEF F
<1> QED BY <1>3, <1>4 DEF Projects

\* Reading a log twice adds nothing.
LEMMA TwiceIsOnce ==
  ASSUME NEW s \in Seq(PaperEvents), Projects(s)
  PROVE  ProjectPaperPortfolio(s \o s) = ProjectPaperPortfolio(s)
<1>1. PICK p : p = ProjectPaperPortfolio(s) OBVIOUS
<1>2. p = Projection!Fold(0, s) /\ ProjectPaperPortfolio(s \o s) = Projection!Fold(0, s \o s)
  BY <1>1, ProjectIsFold
<1>3. \A i \in DOMAIN s : s[i] \in p.seen BY <1>1, SeenIsRead
<1>4. \A i \in DOMAIN s : \A a \in {p} : ProjectEvent(a, s[i]) \in {p}
  BY <1>3 DEF ProjectEvent
<1>5. Projection!Fold(0, s) \in {p} BY <1>2
<1>6. Projection!Fold(0, s \o s) \in {p} BY <1>4, <1>5, Projection!FoldTail
<1> QED BY <1>1, <1>2, <1>6

\* No two entries of s have one id.
DistinctIds(s) == \A i, j \in DOMAIN s : s[i].id = s[j].id => i = j

\* The lenient reading of a log without repeated ids is the strict one's cash and shares.
LEMMA RebuildAgrees ==
  ASSUME NEW s \in Seq(PaperEvents), Projects(s), DistinctIds(s)
  PROVE  RebuildBooks(s) = [cash |-> ProjectPaperPortfolio(s).cash,
                            shares |-> ProjectPaperPortfolio(s).shares]
<1> DEFINE F(t) == Projection!Fold(0, t)
           L(t) == Rebuild!Fold(0, t)
           Good(t) == F(t).ok /\ DistinctIds(t) => L(t) = [cash |-> F(t).cash, shares |-> F(t).shares]
           G == {t \in Seq(PaperEvents) : Good(t)}
<1>1. <<>> \in G
  <2>1. F(<<>>) = Nothing BY Projection!FoldEmpty
  <2>2. L(<<>>) = NoBooks BY Rebuild!FoldEmpty
  <2>3. NoBooks = [cash |-> Nothing.cash, shares |-> Nothing.shares] BY DEF NoBooks, Nothing
  <2> HIDE DEF F, L
  <2> QED BY <2>1, <2>2, <2>3
<1>2. ASSUME NEW t \in Seq(PaperEvents), NEW e \in PaperEvents, t \in G PROVE Append(t, e) \in G
  <2>1. PICK p : p = F(t) OBVIOUS
  <2>2. PICK q : q = ProjectEvent(p, e) OBVIOUS
  <2>3. F(Append(t, e)) = q
    <3>1. Projection!Fold(0, Append(t, e)) = ProjectEvent(Projection!Fold(0, t), e) BY Projection!FoldAppend
    <3> QED BY <2>1, <2>2, <3>1
  <2>4. PICK b : b = L(t) OBVIOUS
  <2>5. L(Append(t, e)) = Book(b, e)
    <3>1. Rebuild!Fold(0, Append(t, e)) = Book(Rebuild!Fold(0, t), e) BY Rebuild!FoldAppend
    <3> QED BY <2>4, <3>1
  <2>6. p \in Portfolios BY <2>1, NothingTyped, ProjectTyped, Projection!FoldStaysIn
  <2>7. ASSUME q.ok, DistinctIds(Append(t, e))
        PROVE  Book(b, e) = [cash |-> q.cash, shares |-> q.shares]
    <3>1. PICK n \in Nat : n = Len(t) OBVIOUS
    <3>2. /\ DOMAIN t = 1..n /\ DOMAIN Append(t, e) = 1 .. n + 1 /\ Append(t, e)[n + 1] = e
          /\ \A i \in 1..n : Append(t, e)[i] = t[i]
      BY <3>1
    <3>3. DistinctIds(t) BY <2>7, <3>2 DEF DistinctIds
    <3>4. e \notin p.seen
      <4> SUFFICES ASSUME e \in p.seen PROVE FALSE OBVIOUS
      <4>1. p.seen \subseteq {t[i] : i \in DOMAIN t} BY <2>1, ProjectIsFold, SeenIsRead
      <4>2. PICK i \in 1..n : t[i] = e BY <3>2, <4>1
      <4>3. i \in DOMAIN Append(t, e) /\ n + 1 \in DOMAIN Append(t, e) /\ i # n + 1 BY <3>2
      <4>4. Append(t, e)[i].id = Append(t, e)[n + 1].id BY <3>2, <4>2
      <4> QED BY <2>7, <4>3, <4>4 DEF DistinctIds
    <3>5. p.ok /\ q = Applied(p, e) BY <2>2, <2>6, <2>7, <3>4, RoundFacts
    <3>6. b = [cash |-> p.cash, shares |-> p.shares]
      <4>1. Good(t) BY <1>2
      <4> HIDE DEF F, L
      <4> QED BY <2>1, <2>4, <3>3, <3>5, <4>1
    <3>7. b.cash = p.cash /\ b.shares = p.shares BY <3>6
    <3>8. /\ q.cash = p.cash + e.cash
          /\ q.shares = IF e.symbol = NoSymbol THEN p.shares
                        ELSE [p.shares EXCEPT ![e.symbol] = p.shares[e.symbol] + e.shares]
      BY <3>5 DEF Applied
    <3>9. Book(b, e) = [cash |-> p.cash + e.cash,
                        shares |-> IF e.symbol = NoSymbol THEN p.shares
                                   ELSE [p.shares EXCEPT ![e.symbol] = p.shares[e.symbol] + e.shares]]
      BY <3>7 DEF Book
    <3> QED BY <3>8, <3>9
  <2>8. Good(Append(t, e))
    <3> HIDE DEF F, L
    <3> QED BY <2>3, <2>5, <2>7
  <2> HIDE DEF Good
  <2> QED BY <2>8
<1>3. s \in G
  <2> HIDE DEF G
  <2> QED BY <1>1, <1>2, Projection!SeqSetInduction
<1>4. F(s) = ProjectPaperPortfolio(s) /\ L(s) = RebuildBooks(s) BY ProjectIsFold, RebuildIsFold
<1>5. Good(s) BY <1>3
<1> HIDE DEF F, L
<1> QED BY <1>4, <1>5 DEF Projects

-----------------------------------------------------------------------------
(* The ids of the log *)

\* The desk numbers its events by their place, the feed's ids are negative.
Numbered(s) == (\A i \in DOMAIN s : s[i].id = i \/ s[i].id < 0) /\ DistinctIds(s)

\* The log is numbered, and the pending event came with an id of the feed's.
IdsInv == Numbered(log) /\ (action # NoAction => action.id < 0)

\* A numbered log stays numbered if what is appended is numbered by its place.
LEMMA NumberedGrows ==
  ASSUME NEW s \in Seq(PaperEvents), Numbered(s), NEW t \in Seq(PaperEvents),
         \A i \in DOMAIN t : t[i].id = Len(s) + i
  PROVE  Numbered(s \o t)
<1> DEFINE u == s \o t
<1>1. PICK n \in Nat, m \in Nat : n = Len(s) /\ m = Len(t) OBVIOUS
<1>2. /\ DOMAIN s = 1..n /\ DOMAIN t = 1..m /\ DOMAIN u = 1 .. n + m
      /\ \A i \in 1..n : u[i] = s[i]
      /\ \A i \in 1 .. n + m : i > n => u[i] = t[i - n]
  BY <1>1
<1>3. \A i \in DOMAIN u : i > n => u[i].id = i
  <2> SUFFICES ASSUME NEW i \in DOMAIN u, i > n PROVE u[i].id = i OBVIOUS
  <2>1. i - n \in DOMAIN t /\ u[i] = t[i - n] BY <1>2
  <2>2. t[i - n].id = n + (i - n) BY <1>1, <2>1
  <2>3. n + (i - n) = i BY <1>2
  <2> HIDE DEF u
  <2> QED BY <2>1, <2>2, <2>3
<1> HIDE DEF u
<1>4. \A i \in DOMAIN u : u[i].id = i \/ (u[i].id < 0 /\ i \in DOMAIN s)
  <2> SUFFICES ASSUME NEW i \in DOMAIN u PROVE u[i].id = i \/ (u[i].id < 0 /\ i \in DOMAIN s) OBVIOUS
  <2>1. CASE i > n BY <1>3, <2>1
  <2>2. CASE ~(i > n)
    <3>1. i \in DOMAIN s /\ u[i] = s[i] BY <1>2, <2>2
    <3> QED BY <3>1 DEF Numbered
  <2> QED BY <2>1, <2>2
<1>5. ASSUME NEW i \in DOMAIN u, NEW j \in DOMAIN u, u[i].id = u[j].id PROVE i = j
  <2>1. CASE i > n \/ j > n
    <3>1. i \in Nat /\ j \in Nat BY <1>2
    <3> QED BY <1>3, <1>4, <1>5, <2>1, <3>1
  <2>2. CASE ~(i > n) /\ ~(j > n)
    <3>1. i \in DOMAIN s /\ j \in DOMAIN s /\ u[i] = s[i] /\ u[j] = s[j] BY <1>2, <2>2
    <3> QED BY <1>5, <3>1 DEF Numbered, DistinctIds
  <2> QED BY <2>1, <2>2
<1>6. Numbered(u) BY <1>4, <1>5 DEF Numbered, DistinctIds
<1> QED BY <1>6 DEF u

\* What a close or an open appends is numbered by its place.
LEMMA NewIds ==
  /\ \A seen : \A i \in DOMAIN Marks(seen) : Marks(seen)[i].id = Len(log) + i
  /\ \A opens, attested : \A i \in DOMAIN TradeEvents(opens, attested) :
        TradeEvents(opens, attested)[i].id = Len(log) + i
<1>1. ASSUME NEW seen, NEW i \in DOMAIN Marks(seen) PROVE Marks(seen)[i].id = Len(log) + i
  BY DEF Marks, MarkEvent
<1>2. ASSUME NEW opens, NEW attested, NEW i \in DOMAIN TradeEvents(opens, attested)
      PROVE  TradeEvents(opens, attested)[i].id = Len(log) + i
  BY DEF TradeEvents, Trade, EntryEvent, ExitEvent
<1> QED BY <1>1, <1>2

\* Every step keeps the ids apart.
LEMMA IdsStep == ASSUME DeskInv, IdsInv, [Next]_vars PROVE IdsInv'
<1>0. TypeInv /\ log \in Seq(PaperEvents) BY DEF DeskInv, TypeInv
<1>1. ASSUME NEW seen \in PerSymbol(Observations), NEW repeated \in {{}, Symbols},
             Close(seen, repeated)
      PROVE  IdsInv'
  <2>1. log' = log \o Marks(seen) /\ action' = action BY <1>1 DEF Close
  <2>2. Marks(seen) \in Seq(PaperEvents) BY <1>0, MarksTyped
  <2>3. Numbered(log \o Marks(seen)) BY <1>0, <2>2, NewIds, NumberedGrows DEF IdsInv
  <2>4. Numbered(log') BY <2>1, <2>3
  <2> QED BY <2>1, <2>4 DEF IdsInv, Numbered, DistinctIds
<1>2. ASSUME NEW opens \in PerSymbol(Opens), NEW attested \in PerSymbol(Attestations),
             Open(opens, attested)
      PROVE  IdsInv'
  <2>1. log' = log \o TradeEvents(opens, attested) /\ action' = action
    BY <1>2 DEF Open, TradeEvents, Traded
  <2>2. TradeEvents(opens, attested) \in Seq(PaperEvents) BY <1>0, TradesTyped
  <2>3. Numbered(log \o TradeEvents(opens, attested))
    BY <1>0, <2>2, NewIds, NumberedGrows DEF IdsInv
  <2>4. Numbered(log') BY <2>1, <2>3
  <2> QED BY <2>1, <2>4 DEF IdsInv, Numbered, DistinctIds
<1>3. CASE Compute
  <2>1. PICK s \in Symbols : \E e \in FeedEvents(-(actions + 1), s) : action' = e
    BY <1>3 DEF Compute
  <2>2. actions \in Nat BY <1>0 DEF TypeInv
  <2>3. PICK e \in FeedEvents(-(actions + 1), s) : action' = e BY <2>1
  <2>4. e.id = -(actions + 1) BY DEF FeedEvents, CashDividendEvent, SplitEvent, CorrectionEvent
  <2>5. action'.id < 0 BY <2>2, <2>3, <2>4
  <2>6. log' = log BY <1>3 DEF Compute
  <2> QED BY <2>5, <2>6 DEF IdsInv, Numbered, DistinctIds
<1>4. CASE Deliver
  <2>1. /\ log' = Append(log, action) /\ action' = NoAction /\ action # NoAction
        /\ \A i \in DOMAIN log : log[i].id # action.id
    BY <1>4 DEF Deliver, Appendable
  <2>2. action \in PaperEvents /\ action.id < 0 BY <1>0, <2>1 DEF TypeInv, IdsInv
  <2>3. PICK n \in Nat : n = Len(log) BY <1>0
  <2>4. /\ DOMAIN log = 1..n /\ DOMAIN log' = 1 .. n + 1 /\ log'[n + 1] = action
        /\ \A i \in 1..n : log'[i] = log[i]
    BY <1>0, <2>1, <2>2, <2>3
  <2>5. \A i \in DOMAIN log' : i \in DOMAIN log \/ i = n + 1 BY <2>4
  <2>6. \A i \in DOMAIN log' : log'[i].id = i \/ log'[i].id < 0
    BY <2>2, <2>4, <2>5 DEF IdsInv, Numbered
  <2>7. \A i, j \in DOMAIN log' : log'[i].id = log'[j].id => i = j
    BY <2>1, <2>4, <2>5 DEF IdsInv, Numbered, DistinctIds
  <2> QED BY <2>1, <2>6, <2>7 DEF IdsInv, Numbered, DistinctIds
<1>5. CASE UNCHANGED vars BY <1>5 DEF vars, IdsInv, Numbered, DistinctIds
<1> QED BY <1>1, <1>2, <1>3, <1>4, <1>5 DEF Next

\* The log never repeats an id: the desk's events have their place as id, the feed's a
\* negative one that Appendable lets in once.
THEOREM IdsInvariance == Spec => []IdsInv
<1>1. Init => IdsInv
  <2> SUFFICES ASSUME Init PROVE IdsInv OBVIOUS
  <2>1. log = <<DepositEvent(1, Deposit, 0)>> /\ action = NoAction BY DEF Init
  <2>2. DOMAIN log = {1} /\ log[1].id = 1 BY <2>1 DEF DepositEvent
  <2> QED BY <2>1, <2>2 DEF IdsInv, Numbered, DistinctIds
<1>2. DeskInv /\ IdsInv /\ [Next]_vars => IdsInv' BY IdsStep
<1> QED BY <1>1, <1>2, DeskInvariance, PTL DEF Spec

\* Where the strict reading of the log takes every event, reading it twice adds nothing and
\* the lenient reading has its cash and its shares.
THEOREM ReadingsAgreeHolds == Spec => []ReadingsAgree
<1>1. DeskInv /\ IdsInv => ReadingsAgree
  <2> SUFFICES ASSUME DeskInv, IdsInv, Projects(log)
               PROVE  /\ ProjectPaperPortfolio(log \o log) = Books
                      /\ RebuildBooks(log) = [cash |-> Books.cash, shares |-> Books.shares]
    BY DEF ReadingsAgree
  <2>1. log \in Seq(PaperEvents) /\ DistinctIds(log) BY DEF DeskInv, TypeInv, IdsInv, Numbered
  <2> QED BY <2>1, TwiceIsOnce, RebuildAgrees DEF Books
<1> QED BY <1>1, DeskInvariance, IdsInvariance, PTL

-----------------------------------------------------------------------------
(* Appending what fits *)

\* An event with an id of its own that is valid and fits the position is applied.
LEMMA RoundApplies ==
  ASSUME NEW p \in Portfolios, NEW e \in PaperEvents, p.ok, \A d \in p.seen : d.id # e.id,
         ValidEvent(e), FitsPosition(p, e)
  PROVE  /\ ProjectEvent(p, e) \in Portfolios /\ ProjectEvent(p, e).ok
         /\ ProjectEvent(p, e).seen = p.seen \cup {e}
         /\ ProjectEvent(p, e).shares = IF e.symbol = NoSymbol THEN p.shares
                ELSE [p.shares EXCEPT ![e.symbol] = p.shares[e.symbol] + e.shares]
<1>1. e \notin p.seen OBVIOUS
<1>2. ProjectEvent(p, e) = Applied(p, e) BY <1>1 DEF ProjectEvent
<1>3. /\ Applied(p, e).ok = p.ok /\ Applied(p, e).seen = p.seen \cup {e}
      /\ Applied(p, e).shares = IF e.symbol = NoSymbol THEN p.shares
             ELSE [p.shares EXCEPT ![e.symbol] = p.shares[e.symbol] + e.shares]
  BY DEF Applied
<1> QED BY <1>2, <1>3, ProjectTyped

\* Portfolios that hold h and have seen ids up to n
Reached(n, h) == {p \in Portfolios : p.ok /\ p.shares = h /\ \A d \in p.seen : d.id <= n}

\* An event of the desk's own: an entry, an exit or a mark of a symbol
OwnEvent(e) == e.symbol \in Symbols /\ ValidEvent(e) /\ e.type \notin {"split", "cash_dividend"}

\* An event of the desk's own takes the projection on to the shares it makes.
LEMMA RoundReaches ==
  ASSUME NEW n \in Int, NEW h \in [Symbols -> Int], NEW p \in Reached(n, h),
         NEW e \in PaperEvents, e.id = n + 1, OwnEvent(e), h[e.symbol] + e.shares >= 0
  PROVE  ProjectEvent(p, e) \in Reached(n + 1, [h EXCEPT ![e.symbol] = h[e.symbol] + e.shares])
<1>1. p \in Portfolios /\ p.ok /\ p.shares = h /\ \A d \in p.seen : d.id <= n BY DEF Reached
<1>2. p.seen \in SUBSET PaperEvents BY <1>1 DEF Portfolios
<1>3. \A d \in p.seen : d.id \in Int /\ d.id # e.id /\ d.id <= n + 1 BY <1>1, <1>2 DEF PaperEvents
<1>4. FitsPosition(p, e) BY <1>1 DEF FitsPosition, OwnEvent
<1>5. e.symbol # NoSymbol BY SymbolAssumption DEF OwnEvent
<1>6. PICK q : q = ProjectEvent(p, e) OBVIOUS
<1>7. /\ q \in Portfolios /\ q.ok /\ q.seen = p.seen \cup {e}
      /\ q.shares = [h EXCEPT ![e.symbol] = h[e.symbol] + e.shares]
  BY <1>1, <1>3, <1>4, <1>5, <1>6, RoundApplies DEF OwnEvent
<1>8. \A d \in q.seen : d.id <= n + 1 BY <1>3, <1>7
<1> QED BY <1>6, <1>7, <1>8 DEF Reached

\* The first j of the events t have made after of held, symbol by symbol.
Along(held, after, t, j) ==
    [s \in Symbols |-> IF \E i \in 1..j : t[i].symbol = s THEN after[s] ELSE held[s]]

\* A batch of the desk's own events, no symbol twice
OwnBatch(n, held, t) ==
    /\ \A i \in DOMAIN t : /\ t[i].id = n + i /\ OwnEvent(t[i])
                           /\ held[t[i].symbol] + t[i].shares >= 0
    /\ \A i, j \in DOMAIN t : t[i].symbol = t[j].symbol => i = j

\* after is what the batch t makes of held.
Makes(t, held, after) ==
    /\ \A i \in DOMAIN t : after[t[i].symbol] = held[t[i].symbol] + t[i].shares
    /\ \A s \in Symbols : (\A i \in DOMAIN t : t[i].symbol # s) => after[s] = held[s]

\* g is h after the event e.
Adds(g, h, e) == g = [h EXCEPT ![e.symbol] = h[e.symbol] + e.shares]

\* A batch of the desk's own events that leaves no symbol short is read to the end.
LEMMA BatchProjects ==
  ASSUME NEW s \in Seq(PaperEvents), Numbered(s), Projects(s), NEW t \in Seq(PaperEvents),
         NEW held \in [Symbols -> Int], held = ProjectPaperPortfolio(s).shares,
         OwnBatch(Len(s), held, t), NEW after \in [Symbols -> Int], Makes(t, held, after)
  PROVE  Projects(s \o t) /\ ProjectPaperPortfolio(s \o t).shares = after
<1>a. ASSUME NEW j \in Nat, j < Len(t), NEW e, e = t[j + 1]
      PROVE  /\ Along(held, after, t, j) \in [Symbols -> Int]
             /\ Along(held, after, t, j)[e.symbol] = held[e.symbol]
             /\ Adds(Along(held, after, t, j + 1), Along(held, after, t, j), e)
  <2> DEFINE x == t[j + 1].symbol
             h == Along(held, after, t, j)
             g == Along(held, after, t, j + 1)
  <2>1. DOMAIN t = 1 .. Len(t) /\ j + 1 \in DOMAIN t BY <1>a
  <2>2. x \in Symbols BY <2>1 DEF OwnBatch, OwnEvent
  <2>3. h \in [Symbols -> Int] /\ g \in [Symbols -> Int] BY DEF Along
  <2>4. \A i \in 1..j : i \in DOMAIN t /\ i # j + 1 BY <1>a
  <2>5. \A i \in 1..j : t[i].symbol # x BY <2>1, <2>4 DEF OwnBatch
  <2>6. h[x] = held[x] BY <2>2, <2>5 DEF Along
  <2>7. g[x] = held[x] + t[j + 1].shares
    <3>1. j + 1 \in 1 .. j + 1 OBVIOUS
    <3>2. g[x] = after[x] BY <2>2, <3>1 DEF Along
    <3> QED BY <2>1, <3>2 DEF Makes
  <2>8. ASSUME NEW y \in Symbols, y # x PROVE g[y] = h[y]
    <3>1. (\E i \in 1..j : t[i].symbol = y) <=> (\E i \in 1 .. j + 1 : t[i].symbol = y)
      <4>1. \A i \in 1 .. j + 1 : i \in 1..j \/ i = j + 1 OBVIOUS
      <4>2. \A i \in 1..j : i \in 1 .. j + 1 OBVIOUS
      <4> QED BY <2>8, <4>1, <4>2
    <3> QED BY <3>1 DEF Along
  <2> HIDE DEF x, h, g
  <2>9. g = [h EXCEPT ![x] = held[x] + t[j + 1].shares]
    <3>1. PICK v \in Int : v = held[x] + t[j + 1].shares
      <4>1. g[x] \in Int BY <2>2, <2>3
      <4> QED BY <2>7, <4>1
    <3>2. [h EXCEPT ![x] = v] \in [Symbols -> Int] BY <2>3
    <3>3. \A y \in Symbols : g[y] = [h EXCEPT ![x] = v][y] BY <2>3, <2>7, <2>8, <3>1
    <3>4. g = [h EXCEPT ![x] = v] BY <2>3, <3>2, <3>3
    <3> QED BY <3>1, <3>4
  <2>10. g = [h EXCEPT ![x] = h[x] + t[j + 1].shares] BY <2>6, <2>9
  <2> QED BY <1>a, <2>3, <2>6, <2>10 DEF x, h, g, Adds
<1>1. PICK n \in Nat : n = Len(s) OBVIOUS
<1> DEFINE A == [j \in Nat |-> Reached(n + j, Along(held, after, t, j))]
<1>2. Projection!Fold(0, s) \in A[0]
  <2>1. PICK p : p = ProjectPaperPortfolio(s) /\ p = Projection!Fold(0, s) BY ProjectIsFold
  <2>2. p \in Portfolios /\ p.ok /\ p.shares = held BY <2>1, BooksTyped DEF Projects
  <2>3. Along(held, after, t, 0) = held
    <3>1. Along(held, after, t, 0) = [x \in Symbols |-> held[x]] BY DEF Along
    <3> QED BY <3>1
  <2>4. \A d \in p.seen : d.id <= n
    <3> SUFFICES ASSUME NEW d \in p.seen PROVE d.id <= n OBVIOUS
    <3>1. p.seen \subseteq {s[i] : i \in DOMAIN s} BY <2>1, SeenIsRead
    <3>2. PICK i \in DOMAIN s : d = s[i] BY <3>1
    <3>3. i \in 1..n BY <1>1
    <3>4. s[i].id = i \/ s[i].id < 0 BY DEF Numbered
    <3>5. s[i] \in PaperEvents OBVIOUS
    <3>6. s[i].id \in Int BY <3>5 DEF PaperEvents
    <3> QED BY <3>2, <3>3, <3>4, <3>6
  <2>5. p \in Reached(n + 0, Along(held, after, t, 0)) BY <2>2, <2>3, <2>4 DEF Reached
  <2> QED BY <2>1, <2>5
<1>3. ASSUME NEW j \in Nat, j < Len(t), NEW p \in A[j]
      PROVE  ProjectEvent(p, t[j + 1]) \in A[j + 1]
  <2>1. PICK e \in PaperEvents : e = t[j + 1] BY <1>3
  <2>2. j + 1 \in DOMAIN t BY <1>3
  <2>3. e.id = n + (j + 1) /\ OwnEvent(e) /\ held[e.symbol] + e.shares >= 0
    BY <1>1, <2>1, <2>2 DEF OwnBatch
  <2>4. /\ Along(held, after, t, j) \in [Symbols -> Int]
        /\ Along(held, after, t, j)[e.symbol] = held[e.symbol]
        /\ Adds(Along(held, after, t, j + 1), Along(held, after, t, j), e)
    BY <1>3, <2>1, <1>a
  <2>9. PICK h \in [Symbols -> Int] : h = Along(held, after, t, j) BY <2>4
  <2>5. /\ h[e.symbol] = held[e.symbol]
        /\ Along(held, after, t, j + 1) = [h EXCEPT ![e.symbol] = h[e.symbol] + e.shares]
    BY <2>4, <2>9 DEF Adds
  <2>6. p \in Reached(n + j, h) BY <1>3, <2>9
  <2>7. ProjectEvent(p, e) \in Reached((n + j) + 1, [h EXCEPT ![e.symbol] = h[e.symbol] + e.shares])
    <3>1. n + j \in Int /\ e.id = (n + j) + 1 BY <2>3
    <3>2. h[e.symbol] + e.shares >= 0 BY <2>3, <2>5
    <3> HIDE DEF A
    <3> QED BY <2>3, <2>6, <3>1, <3>2, RoundReaches
  <2>8. (n + j) + 1 = n + (j + 1) OBVIOUS
  <2> QED BY <2>1, <2>5, <2>7, <2>8
<1>4. Projection!Fold(0, s \o t) \in A[Len(t)]
  <2> HIDE DEF A
  <2> QED BY <1>2, <1>3, Projection!FoldAlong
<1>5. Along(held, after, t, Len(t)) = after
  <2>1. \A x \in Symbols : Along(held, after, t, Len(t))[x] = after[x]
    <3>1. DOMAIN t = 1 .. Len(t) OBVIOUS
    <3> QED BY <3>1 DEF Along, Makes
  <2>2. Along(held, after, t, Len(t)) = [x \in Symbols |-> after[x]] BY <2>1 DEF Along
  <2> QED BY <2>2
<1>6. Projection!Fold(0, s \o t) \in Reached(n + Len(t), after) BY <1>4, <1>5
<1> QED BY <1>6, ProjectIsFold DEF Reached, Projects

-----------------------------------------------------------------------------
(* The serial log *)

\* The shares the desk's record of a symbol says are held
Held(d) == IF d.stage \in {"open", "leaving"} THEN d.shares ELSE 0

\* An event of the feed that the portfolio p can take
Takes(p, e) ==
    /\ ValidEvent(e) /\ FitsPosition(p, e)
    /\ e.type \in {"split", "correction", "cash_dividend"}
    /\ e.type = "split" => e.symbol \in Symbols /\ p.shares[e.symbol] + e.shares > 0
    /\ e.type # "split" => e.shares = 0

\* As long as nothing raced the log projects, the projection and the desk hold the
\* same, whoever is entered or held has shares, and the pending event still fits.
SerialInv ==
    ~raced =>
      /\ Projects(log)
      /\ \A s \in Symbols : Books.shares[s] = Held(desk[s])
      /\ \A s \in Symbols : desk[s].stage # "flat" => desk[s].shares > 0
      /\ action # NoAction => Takes(Books, action)

\* The desk's part of SerialInv after a batch t of its own events
LEMMA BatchSerial ==
  ASSUME DeskInv, IdsInv, SerialInv, ~raced, TypeInv',
         NEW t \in Seq(PaperEvents), log' = log \o t,
         raced' = (raced \/ (action # NoAction /\ log' # log)), action' = action,
         OwnBatch(Len(log), Books.shares, t),
         \A i \in DOMAIN t : Held(desk'[t[i].symbol]) = Books.shares[t[i].symbol] + t[i].shares,
         \A s \in Symbols : (\A i \in DOMAIN t : t[i].symbol # s) => Held(desk'[s]) = Books.shares[s],
         \A s \in Symbols : desk'[s].stage # "flat" => desk'[s].shares > 0
  PROVE  SerialInv'
<1> DEFINE held == Books.shares
           after == [s \in Symbols |-> Held(desk'[s])]
<1>1. log \in Seq(PaperEvents) /\ Numbered(log) /\ Projects(log)
  BY DEF DeskInv, TypeInv, IdsInv, SerialInv
<1>2. held \in [Symbols -> Int] BY CapacityTyped DEF DeskInv, Portfolios
<1>3. after \in [Symbols -> Int]
  <2>1. \A s \in Symbols : desk'[s] \in Positions BY DEF TypeInv
  <2>2. \A s \in Symbols : Held(desk'[s]) \in Int BY <2>1 DEF Held, Positions
  <2> QED BY <2>2
<1>4. \A i \in DOMAIN t : t[i].symbol \in Symbols BY DEF OwnBatch, OwnEvent
<1>5. Makes(t, held, after) BY <1>4 DEF Makes
<1>6. held = ProjectPaperPortfolio(log).shares BY DEF Books
<1>7. Projects(log \o t) /\ ProjectPaperPortfolio(log \o t).shares = after
  <2>1. OwnBatch(Len(log), held, t) OBVIOUS
  <2> HIDE DEF held, after
  <2> QED BY <1>1, <1>2, <1>3, <1>5, <1>6, <2>1, BatchProjects
<1>8. Projects(log') /\ Books'.shares = after
  <2>1. Projects(log') /\ ProjectPaperPortfolio(log').shares = after BY <1>7
  <2> QED BY <2>1 DEF Books
<1>9. ASSUME ~raced', action' # NoAction PROVE Takes(Books', action')
  <2>1. log' = log BY <1>9
  <2>2. Books' = Books BY <2>1 DEF Books
  <2>3. Takes(Books, action) BY <1>9 DEF SerialInv
  <2> QED BY <2>2, <2>3
<1>10. \A s \in Symbols : Books'.shares[s] = Held(desk'[s]) BY <1>8
<1>11. /\ Projects(log')
       /\ \A s \in Symbols : Books'.shares[s] = Held(desk'[s])
       /\ \A s \in Symbols : desk'[s].stage # "flat" => desk'[s].shares > 0
       /\ ~raced' /\ action' # NoAction => Takes(Books', action')
  BY <1>8, <1>9, <1>10
<1> QED BY <1>11 DEF SerialInv

\* The close of a session keeps SerialInv.
LEMMA CloseSerial ==
  ASSUME DeskInv, IdsInv, SerialInv, NEW seen \in PerSymbol(Observations), NEW repeated,
         Close(seen, repeated), TypeInv'
  PROVE  SerialInv'
<1> SUFFICES ASSUME ~raced' PROVE SerialInv' BY DEF SerialInv
<1> DEFINE t == Marks(seen)
           q == SetToSeq(Staged("open"))
<1>0. /\ log' = log \o t /\ action' = action
      /\ raced' = (raced \/ (action # NoAction /\ log' # log))
      /\ desk' = [s \in Symbols |->
                    IF s \in Staged("open") THEN Reviewed(s, seen[s])
                    ELSE IF s \in Chosen(seen, repeated) THEN Order(seen[s]) ELSE desk[s]]
  BY DEF Close
<1>1. /\ TypeInv /\ ~raced /\ t \in Seq(PaperEvents)
      /\ \A s \in Symbols : Books.shares[s] = Held(desk[s])
      /\ \A s \in Symbols : desk[s].stage # "flat" => desk[s].shares > 0
  <2>1. TypeInv /\ ~raced BY <1>0 DEF DeskInv
  <2> QED BY <2>1, MarksTyped DEF SerialInv
<1>2. /\ q \in Seq(Staged("open"))
      /\ \A i, j \in DOMAIN q : q[i] = q[j] => i = j
      /\ DOMAIN t = DOMAIN q
      /\ \A i \in DOMAIN q :
           t[i] = MarkEvent(Len(log) + i, q[i], seen[q[i]].close * Mills, session + 1)
  <2>1. t = [i \in DOMAIN q |-> MarkEvent(Len(log) + i, q[i], seen[q[i]].close * Mills, session + 1)]
    BY DEF Marks
  <2>2. /\ q \in Seq(Staged("open"))
        /\ \A i, j \in DOMAIN q : q[i] = q[j] => i = j
    <3>1. IsFiniteSet(Staged("open")) BY StagedFinite
    <3> QED BY <3>1, SetToSeqFacts
  <2> HIDE DEF t, q
  <2> QED BY <2>1, <2>2
<1>3. ASSUME NEW i \in DOMAIN t
      PROVE  /\ t[i].id = Len(log) + i /\ OwnEvent(t[i]) /\ t[i].shares = 0
             /\ t[i].symbol = q[i] /\ q[i] \in Symbols /\ desk[q[i]].stage = "open"
  <2>1. q[i] \in Symbols /\ desk[q[i]].stage = "open"
    <3>1. i \in DOMAIN q BY <1>2
    <3> HIDE DEF q
    <3>2. q[i] \in Staged("open") BY <1>2, <3>1
    <3> QED BY <3>2 DEF Staged
  <2>2. PICK s \in Symbols : s = q[i] BY <2>1
  <2>3. PICK m \in Nat \ {0} : m = seen[s].close * Mills
    <3>1. seen[s].close \in Nat \ {0} BY SeenFacts
    <3>2. PICK c \in Nat \ {0} : c = seen[s].close BY <3>1
    <3>3. c * Mills \in Nat \ {0} BY DEF Mills
    <3> QED BY <3>2, <3>3
  <2>4. t[i] = MarkEvent(Len(log) + i, s, m, session + 1)
    <3>1. i \in DOMAIN q BY <1>2
    <3> HIDE DEF t, q
    <3> QED BY <1>2, <2>2, <2>3, <3>1
  <2>5. PICK e : e = t[i] OBVIOUS
  <2>6. /\ e.id = Len(log) + i /\ e.type = "mark" /\ e.symbol = s /\ e.cash = 0 /\ e.shares = 0
        /\ e.price = m
    BY <2>4, <2>5 DEF MarkEvent
  <2>7. s # NoSymbol BY SymbolAssumption
  <2>8. ValidEvent(e) BY <2>6, <2>7 DEF ValidEvent, Exits
  <2> HIDE DEF t, q
  <2> QED BY <2>1, <2>2, <2>5, <2>6, <2>8 DEF OwnEvent
<1>4. \A s \in Symbols : Held(desk'[s]) = Books.shares[s]
  <2> SUFFICES ASSUME NEW s \in Symbols PROVE Held(desk'[s]) = Held(desk[s]) BY <1>1
  <2>1. desk[s] \in Positions BY <1>1 DEF TypeInv
  <2>2. CASE s \in Staged("open")
    <3>1. desk'[s] = Reviewed(s, seen[s]) /\ desk[s].stage = "open" BY <1>0, <2>2 DEF Staged
    <3>2. desk'[s].stage \in {"open", "leaving"} /\ desk'[s].shares = desk[s].shares
      BY <2>1, <3>1 DEF Reviewed, Positions
    <3> QED BY <3>1, <3>2 DEF Held
  <2>3. CASE s \notin Staged("open") /\ s \in Chosen(seen, repeated)
    <3>1. desk'[s] = Order(seen[s]) BY <1>0, <2>3
    <3>2. desk'[s].stage = "entering" BY <3>1 DEF Order
    <3>3. s \in Entrants(seen) BY <1>1, <2>3, ChosenFits DEF LeftInv
    <3>4. desk[s].stage = "flat" BY <3>3 DEF Entrants, Staged
    <3> QED BY <3>2, <3>4 DEF Held
  <2>4. CASE s \notin Staged("open") /\ s \notin Chosen(seen, repeated)
    BY <1>0, <2>4
  <2> QED BY <2>2, <2>3, <2>4
<1>5. \A s \in Symbols : desk'[s].stage # "flat" => desk'[s].shares > 0
  <2> SUFFICES ASSUME NEW s \in Symbols, desk'[s].stage # "flat" PROVE desk'[s].shares > 0
    OBVIOUS
  <2>1. desk[s] \in Positions BY <1>1 DEF TypeInv
  <2>2. CASE s \in Staged("open")
    <3>1. desk'[s] = Reviewed(s, seen[s]) /\ desk[s].stage = "open" BY <1>0, <2>2 DEF Staged
    <3>2. desk'[s].shares = desk[s].shares BY <2>1, <3>1 DEF Reviewed, Positions
    <3> QED BY <1>1, <3>1, <3>2
  <2>3. CASE s \notin Staged("open") /\ s \in Chosen(seen, repeated)
    <3>1. desk'[s] = Order(seen[s]) BY <1>0, <2>3
    <3>2. desk'[s].shares = Sized(seen[s]).shares BY <3>1 DEF Order
    <3>3. s \in Entrants(seen) BY <1>1, <2>3, ChosenFits DEF LeftInv
    <3>4. Enters(seen[s]) BY <3>3 DEF Entrants
    <3> QED BY <1>1, <3>2, <3>4, OrderTyped
  <2>4. CASE s \notin Staged("open") /\ s \notin Chosen(seen, repeated)
    BY <1>0, <1>1, <2>4
  <2> QED BY <2>2, <2>3, <2>4
<1>6. \A i \in DOMAIN t : Held(desk'[t[i].symbol]) = Books.shares[t[i].symbol] + t[i].shares
  <2> SUFFICES ASSUME NEW i \in DOMAIN t
               PROVE  Held(desk'[t[i].symbol]) = Books.shares[t[i].symbol] + t[i].shares
    OBVIOUS
  <2>1. t[i].shares = 0 /\ t[i].symbol \in Symbols BY <1>3
  <2>2. PICK n \in Int : n = Books.shares[t[i].symbol]
    <3> HIDE DEF t
    <3> QED BY <1>1, <2>1, CapacityTyped DEF Portfolios
  <2> HIDE DEF t
  <2> QED BY <1>4, <2>1, <2>2
<1>7. OwnBatch(Len(log), Books.shares, t)
  <2>1. \A i \in DOMAIN t : Books.shares[t[i].symbol] + t[i].shares >= 0
    <3> SUFFICES ASSUME NEW i \in DOMAIN t PROVE Books.shares[t[i].symbol] + t[i].shares >= 0
      OBVIOUS
    <3>1. /\ t[i].shares = 0 /\ t[i].symbol \in Symbols /\ desk[t[i].symbol].stage = "open" BY <1>3
    <3>2. Books.shares[t[i].symbol] = desk[t[i].symbol].shares /\ desk[t[i].symbol].shares > 0
      <4> HIDE DEF t
      <4> QED BY <1>1, <3>1 DEF Held
    <3>3. PICK n \in Int : n = Books.shares[t[i].symbol]
      <4> HIDE DEF t
      <4> QED BY <1>1, <3>1, CapacityTyped DEF Portfolios
    <3> HIDE DEF t
    <3> QED BY <3>1, <3>2, <3>3
  <2>2. \A i, j \in DOMAIN t : t[i].symbol = t[j].symbol => i = j
    <3> HIDE DEF t, q
    <3> QED BY <1>2, <1>3
  <2> HIDE DEF t
  <2> QED BY <1>3, <2>1, <2>2 DEF OwnBatch
<1> HIDE DEF t
<1> QED BY <1>0, <1>1, <1>4, <1>5, <1>6, <1>7, BatchSerial

\* What the next open does to what a symbol holds
LEMMA OpenedHolds ==
  ASSUME TypeInv, NEW s \in Symbols, NEW open, NEW attested, NEW r, r = Opened(s, open, attested)
  PROVE  /\ r.stage # "flat" => desk[s].stage # "flat" /\ r.shares = desk[s].shares
         /\ Bought(s, open, attested) => Held(r) = desk[s].shares
         /\ Sold(s, open, attested) => Held(r) = 0
         /\ ~Bought(s, open, attested) /\ ~Sold(s, open, attested) => Held(r) = Held(desk[s])
<1>0. desk[s] \in Positions BY DEF TypeInv
<1>f. Flat.stage = "flat" BY DEF Flat
<1>1. CASE Bought(s, open, attested)
  <2>1. desk[s].stage = "entering" /\ ~Sold(s, open, attested) BY <1>1 DEF Bought, Sold
  <2>2. r = [desk[s] EXCEPT !.stage = "open"] BY <1>1, <2>1 DEF Opened, Sold
  <2>3. r.stage = "open" /\ r.shares = desk[s].shares BY <1>0, <2>2 DEF Positions
  <2> QED BY <1>1, <2>1, <2>3 DEF Held
<1>2. CASE desk[s].stage = "entering" /\ ~Bought(s, open, attested)
  <2>1. r = Flat /\ ~Sold(s, open, attested) BY <1>2 DEF Opened, Sold
  <2> QED BY <1>2, <1>f, <2>1 DEF Held
<1>3. CASE Sold(s, open, attested)
  <2>1. desk[s].stage = "leaving" /\ ~Bought(s, open, attested) BY <1>3 DEF Sold, Bought
  <2>2. r = Flat BY <1>3, <2>1 DEF Opened, Bought
  <2> QED BY <1>3, <2>1, <1>f, <2>2 DEF Held
<1>4. CASE desk[s].stage = "open"
  <2>1. /\ r = [desk[s] EXCEPT !.held = @ + 1]
        /\ ~Bought(s, open, attested) /\ ~Sold(s, open, attested)
    BY <1>4 DEF Opened, Bought, Sold
  <2>2. r.stage = desk[s].stage /\ r.shares = desk[s].shares BY <1>0, <2>1 DEF Positions
  <2> QED BY <1>4, <2>1, <2>2 DEF Held
<1>5. CASE desk[s].stage \notin {"entering", "open"} /\ ~Sold(s, open, attested)
  <2>1. r = desk[s] /\ ~Bought(s, open, attested) BY <1>5 DEF Opened, Bought
  <2> QED BY <1>5, <2>1
<1> QED BY <1>1, <1>2, <1>3, <1>4, <1>5

\* An entry or an exit that is traded is an event of the desk's own, and makes of
\* what was held what the desk then records.
LEMMA TradeFits ==
  ASSUME TypeInv, NEW i \in Int, NEW s \in Symbols, NEW open \in Nat, NEW attested,
         Books.shares[s] = Held(desk[s]), desk[s].stage # "flat" => desk[s].shares > 0,
         Bought(s, open, attested) \/ Sold(s, open, attested), NEW e, e = Trade(i, s, open)
  PROVE  /\ OwnEvent(e) /\ e.symbol = s /\ e.id = i
         /\ Books.shares[s] + e.shares >= 0
         /\ Held(Opened(s, open, attested)) = Books.shares[s] + e.shares
<1>0. desk[s] \in Positions BY DEF TypeInv
<1>1. PICK n \in Int : n = desk[s].shares BY <1>0 DEF Positions
<1>2. PICK r : r = Opened(s, open, attested) OBVIOUS
<1>3. s # NoSymbol BY SymbolAssumption
<1>4. CASE Bought(s, open, attested)
  <2>1. desk[s].stage = "entering" /\ open > 0 BY <1>4 DEF Bought, Fills
  <2>2. PICK fill \in Nat \ {0} : fill = FillPrice(open, "entry")
    <3>1. open * 1001 \in Nat \ {0} BY <2>1
    <3> QED BY <3>1 DEF FillPrice
  <2>3. e = EntryEvent(i, s, n, fill, session) BY <1>1, <2>1, <2>2 DEF Trade
  <2>4. /\ e.id = i /\ e.type = "entry" /\ e.symbol = s /\ e.cash = -(n * fill) /\ e.shares = n
        /\ e.price = fill
    BY <2>3 DEF EntryEvent
  <2>5. n > 0 /\ Books.shares[s] = 0 BY <1>1, <2>1 DEF Held
  <2>6. -(n * fill) = (-n) * fill OBVIOUS
  <2>7. ValidEvent(e) BY <1>3, <2>4, <2>5, <2>6 DEF ValidEvent, Exits
  <2>8. Held(r) = n BY <1>1, <1>2, <1>4, OpenedHolds
  <2> QED BY <1>2, <2>4, <2>5, <2>7, <2>8 DEF OwnEvent
<1>5. CASE Sold(s, open, attested)
  <2>1. desk[s].stage = "leaving" /\ open > 0 BY <1>5 DEF Sold, Fills
  <2>2. PICK fill \in Nat \ {0} : fill = FillPrice(open, "exit")
    <3>1. open * 999 \in Nat \ {0} BY <2>1
    <3> QED BY <3>1 DEF FillPrice
  <2>3. n > 0 /\ Books.shares[s] = n BY <1>1, <2>1 DEF Held
  <2>4. e = ExitEvent(i, s, n, fill, "exit", session) BY <2>1, <2>2, <2>3 DEF Trade
  <2>5. /\ e.id = i /\ e.type = "exit" /\ e.symbol = s /\ e.cash = n * fill /\ e.shares = -n
        /\ e.price = fill
    BY <2>4 DEF ExitEvent
  <2>6. (-(-n)) * fill = n * fill /\ -n < 0 /\ n + (-n) = 0 BY <2>3
  <2>7. ValidEvent(e) BY <1>3, <2>3, <2>5, <2>6 DEF ValidEvent, Exits
  <2>8. Held(r) = 0 BY <1>2, <1>5, OpenedHolds
  <2> QED BY <1>2, <2>3, <2>5, <2>6, <2>7, <2>8 DEF OwnEvent
<1> QED BY <1>4, <1>5

\* The next open keeps it.
LEMMA OpenSerial ==
  ASSUME DeskInv, IdsInv, SerialInv, NEW opens \in PerSymbol(Opens), NEW attested,
         Open(opens, attested), TypeInv'
  PROVE  SerialInv'
<1> SUFFICES ASSUME ~raced' PROVE SerialInv' BY DEF SerialInv
<1> DEFINE t == TradeEvents(opens, attested)
           q == SetToSeq(Traded(opens, attested))
<1>0. /\ log' = log \o t /\ action' = action
      /\ raced' = (raced \/ (action # NoAction /\ log' # log))
      /\ desk' = [s \in Symbols |-> Opened(s, opens[s], attested[s])]
  BY DEF Open, TradeEvents, Traded
<1>1. /\ TypeInv /\ ~raced /\ t \in Seq(PaperEvents) /\ Len(log) \in Nat
      /\ \A s \in Symbols : Books.shares[s] = Held(desk[s])
      /\ \A s \in Symbols : desk[s].stage # "flat" => desk[s].shares > 0
      /\ \A s \in Symbols : opens[s] \in Nat
  <2>1. TypeInv /\ ~raced BY <1>0 DEF DeskInv
  <2>2. \A s \in Symbols : opens[s] \in Nat BY DeskAssumption DEF PerSymbol
  <2>3. Len(log) \in Nat BY <2>1 DEF TypeInv
  <2> QED BY <2>1, <2>2, <2>3, TradesTyped DEF SerialInv
<1>2. /\ q \in Seq(Traded(opens, attested))
      /\ \A i, j \in DOMAIN q : q[i] = q[j] => i = j
      /\ \A s \in Traded(opens, attested) : \E i \in DOMAIN q : q[i] = s
      /\ DOMAIN t = DOMAIN q
      /\ \A i \in DOMAIN q : t[i] = Trade(Len(log) + i, q[i], opens[q[i]])
  <2>1. t = [i \in DOMAIN q |-> Trade(Len(log) + i, q[i], opens[q[i]])] BY DEF TradeEvents
  <2>2. /\ q \in Seq(Traded(opens, attested))
        /\ \A i, j \in DOMAIN q : q[i] = q[j] => i = j
        /\ \A s \in Traded(opens, attested) : \E i \in DOMAIN q : q[i] = s
    <3>1. IsFiniteSet(Traded(opens, attested)) BY SymbolAssumption, FS_Subset DEF Traded
    <3> QED BY <3>1, SetToSeqFacts
  <2> HIDE DEF t, q
  <2> QED BY <2>1, <2>2
<1>3. ASSUME NEW i \in DOMAIN t
      PROVE  /\ t[i].id = Len(log) + i /\ OwnEvent(t[i]) /\ t[i].symbol = q[i]
             /\ q[i] \in Symbols /\ Books.shares[q[i]] + t[i].shares >= 0
             /\ Held(desk'[q[i]]) = Books.shares[q[i]] + t[i].shares
  <2>1. i \in DOMAIN q /\ i \in Nat /\ q[i] \in Traded(opens, attested)
    <3>1. i \in DOMAIN q BY <1>2
    <3> HIDE DEF q, t
    <3> QED BY <1>2, <3>1
  <2>2. PICK s \in Symbols : s = q[i] /\ (Bought(s, opens[s], attested[s]) \/ Sold(s, opens[s], attested[s]))
    <3> HIDE DEF q, t
    <3> QED BY <2>1 DEF Traded
  <2>3. PICK e : e = Trade(Len(log) + i, s, opens[s]) OBVIOUS
  <2>4. t[i] = e
    <3> HIDE DEF q, t
    <3> QED BY <1>2, <2>1, <2>2, <2>3
  <2>5. PICK d \in Int : d = Len(log) + i BY <1>1, <2>1
  <2>6. /\ OwnEvent(e) /\ e.symbol = s /\ e.id = d
        /\ Books.shares[s] + e.shares >= 0
        /\ Held(Opened(s, opens[s], attested[s])) = Books.shares[s] + e.shares
    BY <1>1, <2>2, <2>3, <2>5, TradeFits
  <2>7. desk'[s] = Opened(s, opens[s], attested[s]) BY <1>0
  <2> HIDE DEF q, t
  <2> QED BY <2>2, <2>4, <2>5, <2>6, <2>7
<1>4. ASSUME NEW s \in Symbols, \A i \in DOMAIN t : t[i].symbol # s
      PROVE  Held(desk'[s]) = Books.shares[s]
  <2>1. s \notin Traded(opens, attested)
    <3> HIDE DEF q, t
    <3> QED BY <1>2, <1>3, <1>4
  <2>2. ~Bought(s, opens[s], attested[s]) /\ ~Sold(s, opens[s], attested[s]) BY <2>1 DEF Traded
  <2>3. desk'[s] = Opened(s, opens[s], attested[s]) BY <1>0
  <2>4. Held(desk'[s]) = Held(desk[s]) BY <1>1, <2>2, <2>3, OpenedHolds
  <2> HIDE DEF t
  <2> QED BY <1>1, <2>4
<1>5. \A s \in Symbols : desk'[s].stage # "flat" => desk'[s].shares > 0
  <2> SUFFICES ASSUME NEW s \in Symbols, desk'[s].stage # "flat" PROVE desk'[s].shares > 0
    OBVIOUS
  <2>1. desk'[s] = Opened(s, opens[s], attested[s]) BY <1>0
  <2>2. desk[s].stage # "flat" /\ desk'[s].shares = desk[s].shares BY <1>1, <2>1, OpenedHolds
  <2> QED BY <1>1, <2>2
<1>6. OwnBatch(Len(log), Books.shares, t)
  <2>1. \A i, j \in DOMAIN t : t[i].symbol = t[j].symbol => i = j
    <3> HIDE DEF t, q
    <3> QED BY <1>2, <1>3
  <2> HIDE DEF t, q
  <2> QED BY <1>3, <2>1 DEF OwnBatch
<1>7. \A i \in DOMAIN t : Held(desk'[t[i].symbol]) = Books.shares[t[i].symbol] + t[i].shares
  <2> HIDE DEF t, q
  <2> QED BY <1>3
<1> HIDE DEF t
<1> QED BY <1>0, <1>1, <1>4, <1>5, <1>6, <1>7, BatchSerial

\* An event of the feed is one the portfolio it was computed from can take.
LEMMA FeedTakes ==
  ASSUME TypeInv, NEW s \in Symbols, NEW id \in Int, NEW e \in FeedEvents(id, s)
  PROVE  Takes(Books, e)
<1>1. PICK n \in Int : n = Books.shares[s] BY CapacityTyped DEF Portfolios
<1>2. s # NoSymbol BY SymbolAssumption
<1>3. e \in (IF n > 0 THEN {CashDividendEvent(id, s, n, 100, session)} ELSE {})
            \cup {SplitEvent(id, s, n, r[1], r[2], session) :
                    r \in {q \in {<<2, 1>>, <<1, 2>>} : SplitDefined(n, q[1], q[2])}}
            \cup {CorrectionEvent(id, 1, -100, session)}
  BY <1>1 DEF FeedEvents
<1>4. CASE n > 0 /\ e = CashDividendEvent(id, s, n, 100, session)
  <2>1. /\ e.type = "cash_dividend" /\ e.symbol = s /\ e.cash = n * 100 /\ e.shares = 0
        /\ e.price = 100
    BY <1>4 DEF CashDividendEvent
  <2>2. n * 100 > 0 BY <1>4
  <2>3. ValidEvent(e) BY <1>2, <2>1, <2>2 DEF ValidEvent, Exits
  <2>4. FitsPosition(Books, e) BY <1>1, <1>2, <1>4, <2>1 DEF FitsPosition
  <2> QED BY <2>1, <2>3, <2>4 DEF Takes
<1>5. CASE e = CorrectionEvent(id, 1, -100, session)
  <2>1. e.type = "correction" /\ e.symbol = NoSymbol /\ e.shares = 0 BY <1>5 DEF CorrectionEvent
  <2>2. ValidEvent(e) BY <2>1 DEF ValidEvent, Exits
  <2>3. FitsPosition(Books, e) BY <2>1 DEF FitsPosition
  <2> QED BY <2>1, <2>2, <2>3 DEF Takes
<1>6. ASSUME NEW a \in {1, 2}, NEW b \in {1, 2}, a # b, SplitDefined(n, a, b),
             e = SplitEvent(id, s, n, a, b, session)
      PROVE  Takes(Books, e)
  <2>1. /\ e.type = "split" /\ e.symbol = s /\ e.cash = 0 /\ e.shares = (n * a) \div b - n
    BY <1>6 DEF SplitEvent
  <2>2. n > 0 /\ (n * a) % b = 0 BY <1>6 DEF SplitDefined
  <2>3. PICK m \in Int : m = (n * a) \div b - n OBVIOUS
  <2>4. m # 0 /\ n + m > 0
    <3>1. CASE a = 2 /\ b = 1
      <4>1. (n * 2) \div 1 = n * 2 OBVIOUS
      <4> QED BY <2>2, <2>3, <3>1, <4>1
    <3>2. CASE a = 1 /\ b = 2
      <4>1. n * 1 = n OBVIOUS
      <4>2. n % 2 = 0 BY <2>2, <3>2, <4>1
      <4>3. n \div 2 > 0 /\ n \div 2 < n BY <2>2, <4>2
      <4> QED BY <2>2, <2>3, <3>2, <4>1, <4>3
    <3> QED BY <1>6, <3>1, <3>2
  <2>5. ValidEvent(e) BY <1>2, <2>1, <2>3, <2>4 DEF ValidEvent, Exits
  <2>6. FitsPosition(Books, e) BY <1>1, <2>1, <2>2, <2>3, <2>4 DEF FitsPosition
  <2> QED BY <1>1, <2>1, <2>3, <2>4, <2>5, <2>6 DEF Takes
<1>7. CASE \E r \in {q \in {<<2, 1>>, <<1, 2>>} : SplitDefined(n, q[1], q[2])} :
             e = SplitEvent(id, s, n, r[1], r[2], session)
  <2>1. PICK r \in {<<2, 1>>, <<1, 2>>} :
               SplitDefined(n, r[1], r[2]) /\ e = SplitEvent(id, s, n, r[1], r[2], session)
    BY <1>7
  <2>2. r[1] \in {1, 2} /\ r[2] \in {1, 2} /\ r[1] # r[2]
    OBVIOUS
  <2> QED BY <1>6, <2>1, <2>2
<1> QED BY <1>3, <1>4, <1>5, <1>7

\* Computing one keeps SerialInv.
LEMMA ComputeSerial ==
  ASSUME DeskInv, SerialInv, Compute
  PROVE  SerialInv'
<1>0. TypeInv /\ actions \in Nat BY DEF DeskInv, TypeInv
<1>1. PICK s \in Symbols : \E e \in FeedEvents(-(actions + 1), s) : action' = e BY DEF Compute
<1>2. PICK e \in FeedEvents(-(actions + 1), s) : action' = e BY <1>1
<1>3. -(actions + 1) \in Int BY <1>0
<1>4. Takes(Books, e) BY <1>0, <1>3, FeedTakes
<1>5. log' = log /\ desk' = desk /\ raced' = raced BY DEF Compute
<1>6. Books' = Books BY <1>5 DEF Books
<1>7. Takes(Books', action') BY <1>2, <1>4, <1>6
<1> QED BY <1>5, <1>6, <1>7 DEF SerialInv, Projects, Books

\* A split that is followed moves the shares of its own symbol alone.
LEMMA FollowShares ==
  ASSUME TypeInv, NEW e \in PaperEvents, NEW s \in Symbols
  PROVE  /\ FollowSplit(e)[s].stage = desk[s].stage
         /\ e.type # "split" \/ e.symbol # s => FollowSplit(e)[s].shares = desk[s].shares
         /\ (/\ e.type = "split" /\ e.symbol = s /\ desk[s].stage \in {"open", "leaving"}
             /\ Books.shares[s] > 0 /\ Books.shares[s] + e.shares > 0)
              => FollowSplit(e)[s].shares = desk[s].shares + e.shares
<1>0. desk \in [Symbols -> Positions] BY DEF TypeInv
<1>1. FollowSplit(e)[s].stage = desk[s].stage BY FollowFacts
<1>2. ASSUME e.type # "split" \/ e.symbol # s
      PROVE  FollowSplit(e)[s].shares = desk[s].shares
  <2>1. CASE e.type # "split"
    <3>1. FollowSplit(e) = desk BY <2>1 DEF FollowSplit
    <3> QED BY <3>1
  <2>2. CASE e.symbol # s
    <3>1. PICK q : q = SplitPosition(desk[e.symbol], Books.shares[e.symbol], e.shares)
      OBVIOUS
    <3>2. FollowSplit(e) = [desk EXCEPT ![e.symbol] = q] \/ FollowSplit(e) = desk
      BY <3>1 DEF FollowSplit
    <3>3. [desk EXCEPT ![e.symbol] = q][s] = desk[s] BY <1>0, <2>2
    <3>4. FollowSplit(e)[s] = desk[s] BY <3>2, <3>3
    <3> QED BY <3>4
  <2> QED BY <1>2, <2>1, <2>2
<1>3. ASSUME e.type = "split", e.symbol = s, desk[s].stage \in {"open", "leaving"},
             Books.shares[s] > 0, Books.shares[s] + e.shares > 0
      PROVE  FollowSplit(e)[s].shares = desk[s].shares + e.shares
  <2>1. FollowSplit(e) = [desk EXCEPT ![s] = SplitPosition(desk[s], Books.shares[s], e.shares)]
    BY <1>3 DEF FollowSplit
  <2>2. FollowSplit(e)[s] = SplitPosition(desk[s], Books.shares[s], e.shares)
    BY <1>0, <2>1
  <2>3. PICK d \in Positions : d = desk[s] BY <1>0
  <2>4. SplitPosition(d, Books.shares[s], e.shares).shares = d.shares + e.shares
    BY DEF SplitPosition, Positions
  <2> QED BY <2>2, <2>3, <2>4
<1>4. e.type # "split" \/ e.symbol # s => FollowSplit(e)[s].shares = desk[s].shares
  BY <1>2
<1>5. (/\ e.type = "split" /\ e.symbol = s /\ desk[s].stage \in {"open", "leaving"}
       /\ Books.shares[s] > 0 /\ Books.shares[s] + e.shares > 0)
        => FollowSplit(e)[s].shares = desk[s].shares + e.shares
  BY <1>3
<1> QED BY <1>1, <1>4, <1>5

\* Appending it keeps SerialInv: had the log moved on in between, raced would say so.
LEMMA DeliverSerial ==
  ASSUME DeskInv, IdsInv, SerialInv, Deliver
  PROVE  SerialInv'
<1> SUFFICES ASSUME ~raced' PROVE SerialInv' BY DEF SerialInv
<1>0. /\ action # NoAction /\ log' = Append(log, action) /\ action' = NoAction
      /\ desk' = FollowSplit(action) /\ raced' = raced
      /\ \A i \in DOMAIN log : log[i].id # action.id
  BY DEF Deliver, Appendable
<1>1. /\ TypeInv /\ action \in PaperEvents /\ log \in Seq(PaperEvents)
      /\ Books \in Portfolios /\ Books.ok
      /\ \A s \in Symbols : Books.shares[s] = Held(desk[s])
      /\ \A s \in Symbols : desk[s].stage # "flat" => desk[s].shares > 0
      /\ Takes(Books, action)
  <2>1. TypeInv /\ action \in PaperEvents /\ log \in Seq(PaperEvents)
    BY <1>0 DEF DeskInv, TypeInv
  <2>2. Books \in Portfolios BY <2>1, CapacityTyped
  <2>3. ~raced BY <1>0
  <2> QED BY <1>0, <2>1, <2>2, <2>3 DEF SerialInv, Projects, Books
<1>2. PICK e \in PaperEvents : e = action BY <1>1
<1>3. PICK p \in Portfolios : p = Books BY <1>1
<1>4. \A d \in p.seen : d.id # e.id
  <2>1. p.seen \subseteq {log[i] : i \in DOMAIN log} BY <1>1, <1>3, SeenIsRead DEF Books
  <2> QED BY <1>0, <1>2, <2>1
<1>5. ProjectPaperPortfolio(log') = ProjectEvent(p, e)
  <2>1. Projection!Fold(0, Append(log, e)) = ProjectEvent(Projection!Fold(0, log), e)
    BY <1>1, Projection!FoldAppend
  <2>2. p = Projection!Fold(0, log) BY <1>3, ProjectIsFold DEF Books
  <2>3. ProjectPaperPortfolio(Append(log, e)) = Projection!Fold(0, Append(log, e)) BY ProjectIsFold
  <2> QED BY <1>0, <1>2, <2>1, <2>2, <2>3
<1>6. /\ ValidEvent(e) /\ FitsPosition(p, e) /\ p.ok
      /\ e.type = "split" => e.symbol \in Symbols /\ p.shares[e.symbol] + e.shares > 0
      /\ e.type # "split" => e.shares = 0
  BY <1>1, <1>2, <1>3 DEF Takes
<1>7. PICK q : q = ProjectEvent(p, e) OBVIOUS
<1>8. /\ q \in Portfolios /\ q.ok
      /\ q.shares = IF e.symbol = NoSymbol THEN p.shares
                    ELSE [p.shares EXCEPT ![e.symbol] = p.shares[e.symbol] + e.shares]
  BY <1>4, <1>6, <1>7, RoundApplies
<1>9. Projects(log') /\ Books' = q
  <2>1. ProjectPaperPortfolio(log') = q BY <1>5, <1>7
  <2> QED BY <1>8, <2>1 DEF Projects, Books
<1>10. p.shares \in [Symbols -> Int] /\ e.symbol \in Symbols \cup {NoSymbol} /\ e.shares \in Int
  BY DEF Portfolios, PaperEvents
<1>11. ASSUME NEW s \in Symbols
       PROVE  /\ q.shares[s] = Held(desk'[s])
              /\ desk'[s].stage # "flat" => desk'[s].shares > 0
  <2>1. p.shares[s] = Held(desk[s]) BY <1>1, <1>3
  <2>2. desk'[s].stage = desk[s].stage BY <1>0, <1>1, FollowShares
  <2>3. CASE e.type # "split"
    <3>1. desk'[s].shares = desk[s].shares BY <1>0, <1>1, <1>2, <2>3, FollowShares
    <3>2. q.shares[s] = p.shares[s] BY <1>6, <1>8, <1>10, <2>3
    <3> QED BY <1>1, <2>1, <2>2, <3>1, <3>2 DEF Held
  <2>4. CASE e.type = "split" /\ e.symbol # s
    <3>1. desk'[s].shares = desk[s].shares BY <1>0, <1>1, <1>2, <2>4, FollowShares
    <3>2. q.shares[s] = p.shares[s] BY <1>6, <1>8, <1>10, <2>4
    <3> QED BY <1>1, <2>1, <2>2, <3>1, <3>2 DEF Held
  <2>5. CASE e.type = "split" /\ e.symbol = s
    <3>1. e.symbol # NoSymbol BY <2>5, SymbolAssumption
    <3>2. p.shares[s] > 0 /\ p.shares[s] + e.shares > 0 BY <1>6, <2>5, <3>1 DEF FitsPosition
    <3>3. desk[s].stage \in {"open", "leaving"} /\ p.shares[s] = desk[s].shares
      BY <2>1, <3>2 DEF Held
    <3>4. desk'[s].shares = desk[s].shares + e.shares
      BY <1>0, <1>1, <1>2, <1>3, <2>5, <3>2, <3>3, FollowShares
    <3>5. q.shares[s] = p.shares[s] + e.shares BY <1>8, <1>10, <2>5, <3>1
    <3> QED BY <2>2, <3>2, <3>3, <3>4, <3>5 DEF Held
  <2> QED BY <2>3, <2>4, <2>5
<1> QED BY <1>0, <1>9, <1>11 DEF SerialInv

\* The desk starts in SerialInv.
LEMMA SerialStart == ASSUME Init PROVE SerialInv
<1>1. /\ log = <<DepositEvent(1, Deposit, 0)>> /\ action = NoAction
      /\ \A s \in Symbols : desk[s].stage = "flat"
  BY DEF Init, Flat
<1>2. PICK e : e = DepositEvent(1, Deposit, 0) OBVIOUS
<1>3. e \in PaperEvents
  <2>1. Deposit \in Int BY DeskAssumption
  <2> QED BY <1>2, <2>1 DEF DepositEvent, PaperEvents, EventTypes, NoEvent
<1>4. e.type = "deposit" /\ e.symbol = NoSymbol /\ e.shares = 0 BY <1>2 DEF DepositEvent
<1>5. ValidEvent(e) /\ FitsPosition(Nothing, e) BY <1>4 DEF ValidEvent, FitsPosition, Exits
<1>6. Nothing.ok /\ Nothing.seen = {} /\ Nothing.shares = [s \in Symbols |-> 0] BY DEF Nothing
<1>7. Books = ProjectEvent(Nothing, e)
  <2>1. <<>> \in Seq(PaperEvents) /\ Append(<<>>, e) = <<e>> BY <1>3
  <2>2. Projection!Fold(0, Append(<<>>, e)) = ProjectEvent(Projection!Fold(0, <<>>), e)
    BY <1>3, <2>1, Projection!FoldAppend
  <2>3. Projection!Fold(0, <<>>) = Nothing BY Projection!FoldEmpty
  <2>4. Books = Projection!Fold(0, log) BY ProjectIsFold DEF Books
  <2> QED BY <1>1, <1>2, <2>1, <2>2, <2>3, <2>4
<1>8. PICK q : q = ProjectEvent(Nothing, e) OBVIOUS
<1>9. q.ok /\ q.shares = Nothing.shares
  BY <1>3, <1>4, <1>5, <1>6, <1>8, NothingTyped, RoundApplies
<1>10. Projects(log) BY <1>7, <1>8, <1>9 DEF Projects, Books
<1>11. \A s \in Symbols : Books.shares[s] = Held(desk[s]) BY <1>1, <1>6, <1>7, <1>8, <1>9 DEF Held
<1> QED BY <1>1, <1>10, <1>11 DEF SerialInv

\* Every step keeps it.
LEMMA SerialStep == ASSUME DeskInv, IdsInv, SerialInv, [Next]_vars PROVE SerialInv'
<1>0. TypeInv' BY DeskStep DEF DeskInv
<1>1. ASSUME NEW seen \in PerSymbol(Observations), NEW repeated \in {{}, Symbols},
             Close(seen, repeated)
      PROVE  SerialInv'
  BY <1>0, <1>1, CloseSerial
<1>2. ASSUME NEW opens \in PerSymbol(Opens), NEW attested \in PerSymbol(Attestations),
             Open(opens, attested)
      PROVE  SerialInv'
  BY <1>0, <1>2, OpenSerial
<1>3. CASE Compute BY <1>3, ComputeSerial
<1>4. CASE Deliver BY <1>4, DeliverSerial
<1>5. CASE UNCHANGED vars
  <2>1. Books' = Books BY <1>5 DEF vars, Books
  <2> QED BY <1>5, <2>1 DEF vars, SerialInv, Projects, Books
<1> QED BY <1>1, <1>2, <1>3, <1>4, <1>5 DEF Next

\* As long as no event was appended to a log that had moved on since the event was
\* computed, the strict reading takes every event of the log, and holds what the desk does.
THEOREM SerialLogProjectsHolds == Spec => []SerialLogProjects
<1>1. Init => SerialInv BY SerialStart
<1>2. DeskInv /\ IdsInv /\ SerialInv /\ [Next]_vars => SerialInv' BY SerialStep
<1>3. SerialInv => SerialLogProjects BY DEF SerialInv, SerialLogProjects, Held
<1> QED BY <1>1, <1>2, <1>3, DeskInvariance, IdsInvariance, PTL DEF Spec
=============================================================================
