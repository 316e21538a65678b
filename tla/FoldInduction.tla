---------------------------- MODULE FoldInduction ----------------------------
(***************************************************************************)
(* What a left fold computes, proved for every step Op and every starting  *)
(* value Base.  The modules about the reducers of src/ (a projection of    *)
(* events, a ranking, an allocation) instantiate this one with theirs; the *)
(* first argument of both operators is what else the reducer looks at.     *)
(*                                                                         *)
(* Induction over the natural numbers is stated for a set P of numbers     *)
(* instead of a predicate, and so is induction over sequences: the number  *)
(* that is least outside P does the work.  FoldLeft is defined through a   *)
(* choice of a recursive function on sets of positions; Unfolds is that    *)
(* function's equation, of which a solution is built place by place.       *)
(***************************************************************************)
EXTENDS Integers, SequencesExt, WellFoundedInduction, TLAPS

CONSTANTS
    Op(_, _, _),    \* one step of the fold: what else there is, the value so far, the element
    Base(_)         \* the value it starts from

\* The fold of seq
Fold(c, seq) == FoldLeft(LAMBDA a, e : Op(c, a, e), Base(c), seq)

-----------------------------------------------------------------------------
(* Induction over the natural numbers, in set form *)

\* The order of the natural numbers
NatLess == OpToRel(<, Nat)

\* The order has no infinite descent.
LEMMA LessIsWF == IsWellFoundedOn(NatLess, Nat)
BY NatLessThanWellFounded DEF NatLess

\* What the order relates
LEMMA LessPairs == \A x, y \in Nat : <<x, y>> \in NatLess <=> x < y
BY DEF NatLess, OpToRel

\* Every set of natural numbers but the empty one has a least member.
LEMMA Least ==
  ASSUME NEW T, T \subseteq Nat, T # {}
  PROVE \E x \in T : \A y \in T : x <= y
<1>1. PICK x \in T : \A y \in T : ~ (<<y, x>> \in NatLess)
  BY LessIsWF, WFMin
<1>2. ASSUME NEW y \in T PROVE x <= y
  <2>1. x \in Nat /\ y \in Nat OBVIOUS
  <2>2. ~(y < x) BY <1>1, <2>1, LessPairs
  <2> QED BY <2>1, <2>2
<1> QED BY <1>2

\* A set that has 0, and the successor of each number it has, has every number.
THEOREM NatSetInduction ==
  ASSUME NEW P, 0 \in P, \A n \in Nat : n \in P => n + 1 \in P
  PROVE  \A n \in Nat : n \in P
<1> SUFFICES ASSUME NEW k \in Nat, k \notin P PROVE FALSE
  OBVIOUS
<1> DEFINE T == {n \in Nat : n \notin P}
<1>1. PICK x \in T : \A y \in T : x <= y
  <2>1. T \subseteq Nat /\ T # {} OBVIOUS
  <2> HIDE DEF T
  <2> QED BY <2>1, Least
<1>2. x # 0 /\ x \in Nat OBVIOUS
<1>3. x - 1 \in Nat /\ x - 1 \notin T BY <1>1, <1>2
<1> QED BY <1>2, <1>3

-----------------------------------------------------------------------------
(* The function a fold is the value of *)

\* f solves the equation of the fold of seq on the sets of positions up to n.
Unfolds(c, seq, n, f) ==
   f = [s \in SUBSET (1..n) |-> IF s = {} THEN Base(c) ELSE Op(c, f[s \ {Max(s)}], seq[Max(s)])]

\* The greatest of the positions 1 .. n + 1, if n + 1 is one of them
LEMMA MaxOfPart ==
  ASSUME NEW n \in Nat, NEW s \in SUBSET (1 .. n + 1), n + 1 \in s
  PROVE  Max(s) = n + 1 /\ s \ {n + 1} \in SUBSET (1 .. n)
<1>1. \A y \in s : n + 1 >= y OBVIOUS
<1>2. \A x \in s : (\A y \in s : x >= y) => x = n + 1 OBVIOUS
<1>3. Max(s) = n + 1 BY <1>1, <1>2 DEF Max
<1> QED BY <1>3

\* The equation has a solution on one position more.
LEMMA UnfoldsNext ==
  ASSUME NEW c, NEW seq, NEW n \in Nat, NEW f, Unfolds(c, seq, n, f)
  PROVE  \E g : Unfolds(c, seq, n + 1, g)
<1> DEFINE g == [s \in SUBSET (1 .. n + 1) |->
                   IF n + 1 \in s THEN Op(c, f[s \ {n + 1}], seq[n + 1]) ELSE f[s]]
<1>1. ASSUME NEW s \in SUBSET (1 .. n + 1)
      PROVE  g[s] = IF s = {} THEN Base(c) ELSE Op(c, g[s \ {Max(s)}], seq[Max(s)])
  <2>1. CASE n + 1 \in s
    <3>1. Max(s) = n + 1 /\ s \ {n + 1} \in SUBSET (1 .. n) BY <2>1, MaxOfPart
    <3>2. g[s \ {n + 1}] = f[s \ {n + 1}] BY <3>1
    <3> QED BY <2>1, <3>1, <3>2
  <2>2. CASE n + 1 \notin s
    <3>1. s \in SUBSET (1 .. n) BY <2>2
    <3>2. g[s] = f[s] BY <2>2
    <3>3. f[s] = IF s = {} THEN Base(c) ELSE Op(c, f[s \ {Max(s)}], seq[Max(s)]) BY <3>1 DEF Unfolds
    <3>4. g[s \ {Max(s)}] = f[s \ {Max(s)}] BY <2>2
    <3> QED BY <3>2, <3>3, <3>4
  <2> QED BY <2>1, <2>2
<1>2. g = [s \in SUBSET (1 .. n + 1) |->
             IF s = {} THEN Base(c) ELSE Op(c, g[s \ {Max(s)}], seq[Max(s)])]
  <2>1. g = [s \in SUBSET (1 .. n + 1) |-> g[s]] OBVIOUS
  <2> HIDE DEF g
  <2> QED BY <1>1, <2>1
<1> HIDE DEF g
<1> QED BY <1>2 DEF Unfolds

\* The equation has a solution.
LEMMA UnfoldsExists ==
  ASSUME NEW c, NEW seq, NEW n \in Nat
  PROVE  \E f : Unfolds(c, seq, n, f)
<1> DEFINE P == {k \in Nat : \E f : Unfolds(c, seq, k, f)}
<1>1. 0 \in P
  <2>1. Unfolds(c, seq, 0, [s \in SUBSET (1..0) |-> Base(c)]) BY SUBSET (1..0) = {{}} DEF Unfolds
  <2> QED BY <2>1
<1>2. ASSUME NEW k \in Nat, k \in P PROVE k + 1 \in P
  <2>1. PICK f : Unfolds(c, seq, k, f) BY <1>2
  <2>2. \E g : Unfolds(c, seq, k + 1, g) BY <2>1, UnfoldsNext
  <2> QED BY <2>2
<1>3. n \in P
  <2> HIDE DEF P
  <2> QED BY <1>1, <1>2, NatSetInduction
<1> QED BY <1>3

\* No position: the value the fold starts from
LEMMA UnfoldsBase ==
  ASSUME NEW c, NEW seq, NEW n \in Nat, NEW f, Unfolds(c, seq, n, f)
  PROVE  f[1..0] = Base(c)
<1>1. 1..0 \in SUBSET (1..n) /\ 1..0 = {} OBVIOUS
<1> QED BY <1>1 DEF Unfolds

\* One position more: one step of the fold
LEMMA UnfoldsStep ==
  ASSUME NEW c, NEW seq, NEW n \in Nat, NEW f, Unfolds(c, seq, n, f), NEW k \in Nat, k < n
  PROVE  f[1 .. k + 1] = Op(c, f[1..k], seq[k + 1])
<1> DEFINE s == 1 .. k + 1
<1>1. s \in SUBSET (1..n) /\ s # {} OBVIOUS
<1>2. Max(s) = k + 1 BY MaxOfPart
<1>3. s \ {k + 1} = 1..k OBVIOUS
<1>4. f[s] = Op(c, f[s \ {Max(s)}], seq[Max(s)])
  <2> HIDE DEF s
  <2> QED BY <1>1 DEF Unfolds
<1> QED BY <1>2, <1>3, <1>4

\* The sequences have the same first n elements.
Agree(seq, seq2, n) == \A i \in 1..n : seq[i] = seq2[i]

\* Solutions for two sequences agree as far as the sequences do.
LEMMA UnfoldsAgree ==
  ASSUME NEW c, NEW seq, NEW seq2, NEW n \in Nat, NEW m \in Nat, n <= m, NEW f, NEW g,
         Unfolds(c, seq, n, f), Unfolds(c, seq2, m, g), Agree(seq, seq2, n)
  PROVE  f[1..n] = g[1..n]
<1>a. \A j \in Nat : j < n => f[1 .. j + 1] = Op(c, f[1..j], seq[j + 1]) BY UnfoldsStep
<1>b. ASSUME NEW j \in Nat, j < m PROVE g[1 .. j + 1] = Op(c, g[1..j], seq2[j + 1])
  BY <1>b, UnfoldsStep
<1> DEFINE P == {j \in Nat : j <= n => f[1..j] = g[1..j]}
<1>1. 0 \in P
  <2>1. f[1..0] = Base(c) BY UnfoldsBase
  <2>2. g[1..0] = Base(c) BY UnfoldsBase
  <2> QED BY <2>1, <2>2
<1>2. ASSUME NEW j \in Nat, j \in P PROVE j + 1 \in P
  <2> SUFFICES ASSUME j + 1 <= n PROVE f[1 .. j + 1] = g[1 .. j + 1] OBVIOUS
  <2>1. f[1..j] = g[1..j] /\ j < n /\ j < m /\ j + 1 \in 1..n BY <1>2
  <2>2. f[1 .. j + 1] = Op(c, f[1..j], seq[j + 1]) BY <2>1, <1>a
  <2>3. g[1 .. j + 1] = Op(c, g[1..j], seq2[j + 1]) BY <2>1, <1>b
  <2> QED BY <2>1, <2>2, <2>3 DEF Agree
<1>3. n \in P
  <2> HIDE DEF P
  <2> QED BY <1>1, <1>2, NatSetInduction
<1> QED BY <1>3

\* The fold is the value of a solution at all its positions.
LEMMA FoldUnfolds ==
  ASSUME NEW c, NEW S, NEW seq \in Seq(S)
  PROVE  \E f : Unfolds(c, seq, Len(seq), f) /\ Fold(c, seq) = f[1 .. Len(seq)]
<1> DEFINE g == CHOOSE f : Unfolds(c, seq, Len(seq), f)
<1>1. Unfolds(c, seq, Len(seq), g) BY UnfoldsExists
<1>2. Fold(c, seq) = g[1 .. Len(seq)]
  <2>1. DOMAIN seq = 1 .. Len(seq) OBVIOUS
  <2> QED BY <2>1 DEF Fold, FoldLeft, MapThenFoldSet, Unfolds
<1> QED BY <1>1, <1>2

-----------------------------------------------------------------------------
(* Folds, from one end of the sequence to the other *)

\* The fold of the empty sequence is the value it starts from.
THEOREM FoldEmpty == ASSUME NEW c PROVE Fold(c, <<>>) = Base(c)
<1>1. <<>> \in Seq({}) /\ Len(<<>>) = 0 OBVIOUS
<1>2. PICK f : Unfolds(c, <<>>, 0, f) /\ Fold(c, <<>>) = f[1..0] BY <1>1, FoldUnfolds
<1> QED BY <1>2, UnfoldsBase

\* The fold of a sequence with one element more is one step from the fold without.
THEOREM FoldAppend ==
  ASSUME NEW c, NEW S, NEW seq \in Seq(S), NEW e \in S
  PROVE  Fold(c, Append(seq, e)) = Op(c, Fold(c, seq), e)
<1> DEFINE more == Append(seq, e)
<1>0. PICK n \in Nat : n = Len(seq) OBVIOUS
<1>1. more \in Seq(S) /\ Len(more) = n + 1 BY <1>0
<1>2. Agree(seq, more, n) BY <1>0 DEF Agree
<1>3. more[n + 1] = e BY <1>0
<1>4. PICK f : Unfolds(c, seq, n, f) /\ Fold(c, seq) = f[1..n] BY <1>0, FoldUnfolds
<1> HIDE DEF more
<1>5. PICK g : Unfolds(c, more, n + 1, g) /\ Fold(c, more) = g[1 .. n + 1] BY <1>1, FoldUnfolds
<1>6. f[1..n] = g[1..n]
  <2>1. PICK m \in Nat : m = n + 1 /\ n <= m OBVIOUS
  <2>2. Unfolds(c, more, m, g) BY <1>5, <2>1
  <2> QED BY <1>2, <1>4, <2>2, <2>1, UnfoldsAgree
<1>7. g[1 .. n + 1] = Op(c, g[1..n], more[n + 1])
  <2>1. PICK m \in Nat : m = n + 1 /\ n < m OBVIOUS
  <2>2. Unfolds(c, more, m, g) BY <1>5, <2>1
  <2> QED BY <2>1, <2>2, UnfoldsStep
<1>8. Fold(c, more) = Op(c, Fold(c, seq), e) BY <1>3, <1>4, <1>5, <1>6, <1>7
<1> QED BY <1>8 DEF more

\* A set that has the empty sequence, and each of its sequences with one element
\* more, has every sequence.
THEOREM SeqSetInduction ==
  ASSUME NEW S, NEW P, <<>> \in P, \A s \in Seq(S), e \in S : s \in P => Append(s, e) \in P
  PROVE  \A s \in Seq(S) : s \in P
<1> DEFINE Q == {n \in Nat : \A s \in Seq(S) : Len(s) = n => s \in P}
<1>1. 0 \in Q
  <2>1. \A s \in Seq(S) : Len(s) = 0 => s = <<>> OBVIOUS
  <2> QED BY <2>1
<1>2. ASSUME NEW n \in Nat, n \in Q PROVE n + 1 \in Q
  <2>1. ASSUME NEW s \in Seq(S), Len(s) = n + 1 PROVE s \in P
    <3> DEFINE t == SubSeq(s, 1, n)
    <3>1. t \in Seq(S) /\ Len(t) = n BY <2>1
    <3>2. s[n + 1] \in S BY <2>1
    <3>3. s = Append(t, s[n + 1]) BY <2>1
    <3> HIDE DEF t
    <3>4. t \in P BY <1>2, <3>1
    <3>5. Append(t, s[n + 1]) \in P BY <3>1, <3>2, <3>4
    <3> QED BY <3>3, <3>5
  <2> QED BY <2>1
<1>3. ASSUME NEW s \in Seq(S) PROVE s \in P
  <2>1. Len(s) \in Q
    <3> HIDE DEF Q
    <3> QED BY <1>1, <1>2, NatSetInduction
  <2> QED BY <2>1
<1> QED BY <1>3

\* What a fold starts in and every step keeps, the fold of any sequence is in.
THEOREM FoldStaysIn ==
  ASSUME NEW c, NEW S, NEW A, Base(c) \in A, \A a \in A, e \in S : Op(c, a, e) \in A
  PROVE  \A seq \in Seq(S) : Fold(c, seq) \in A
<1> DEFINE P == {s \in Seq(S) : Fold(c, s) \in A}
<1>1. <<>> \in P BY FoldEmpty
<1>2. \A s \in Seq(S), e \in S : s \in P => Append(s, e) \in P BY FoldAppend
<1>3. \A s \in Seq(S) : s \in P
  <2> HIDE DEF P
  <2> QED BY <1>1, <1>2, SeqSetInduction
<1> QED BY <1>3

\* A fold continued over t: it goes through the sets A[0], A[1], ... one by one.
THEOREM FoldAlong ==
  ASSUME NEW c, NEW S, NEW s \in Seq(S), NEW t \in Seq(S), NEW A,
         Fold(c, s) \in A[0],
         \A j \in Nat : j < Len(t) => \A a \in A[j] : Op(c, a, t[j + 1]) \in A[j + 1]
  PROVE  Fold(c, s \o t) \in A[Len(t)]
<1> DEFINE u(j) == s \o SubSeq(t, 1, j)
           P == {j \in Nat : j <= Len(t) => Fold(c, u(j)) \in A[j]}
<1>1. 0 \in P
  <2>1. SubSeq(t, 1, 0) = <<>> /\ s \o <<>> = s OBVIOUS
  <2> QED BY <2>1
<1>2. ASSUME NEW j \in Nat, j \in P PROVE j + 1 \in P
  <2> SUFFICES ASSUME j + 1 <= Len(t) PROVE Fold(c, u(j + 1)) \in A[j + 1] OBVIOUS
  <2>1. j < Len(t) /\ j <= Len(t) /\ t[j + 1] \in S OBVIOUS
  <2>2. SubSeq(t, 1, j + 1) = Append(SubSeq(t, 1, j), t[j + 1]) BY <2>1
  <2>3. SubSeq(t, 1, j) \in Seq(S) BY <2>1
  <2>4. u(j) \in Seq(S) BY <2>3
  <2>5. u(j + 1) = Append(u(j), t[j + 1])
    <3> DEFINE v == SubSeq(t, 1, j)
    <3>1. v \in Seq(S) BY <2>3
    <3> HIDE DEF v
    <3>2. s \o Append(v, t[j + 1]) = Append(s \o v, t[j + 1]) BY <2>1, <3>1
    <3> QED BY <2>2, <3>2 DEF v
  <2> HIDE DEF u
  <2>6. Fold(c, u(j + 1)) = Op(c, Fold(c, u(j)), t[j + 1])
    <3>1. PICK v \in Seq(S), e \in S : v = u(j) /\ e = t[j + 1] BY <2>1, <2>4
    <3>2. Fold(c, Append(v, e)) = Op(c, Fold(c, v), e) BY FoldAppend
    <3> QED BY <2>5, <3>1, <3>2
  <2>7. Fold(c, u(j)) \in A[j] BY <1>2, <2>1
  <2> QED BY <2>1, <2>6, <2>7
<1>3. Len(t) \in P
  <2> HIDE DEF P
  <2> QED BY <1>1, <1>2, NatSetInduction
<1>4. u(Len(t)) = s \o t
  <2>1. SubSeq(t, 1, Len(t)) = t OBVIOUS
  <2> QED BY <2>1
<1> HIDE DEF u
<1>5. Fold(c, u(Len(t))) \in A[Len(t)] BY <1>3
<1> QED BY <1>4, <1>5

\* A continued fold stays in A if every element of t keeps it there.
THEOREM FoldTail ==
  ASSUME NEW c, NEW S, NEW s \in Seq(S), NEW t \in Seq(S), NEW A,
         Fold(c, s) \in A, \A i \in DOMAIN t : \A a \in A : Op(c, a, t[i]) \in A
  PROVE  Fold(c, s \o t) \in A
<1> DEFINE B == [j \in Nat |-> A]
<1>1. Fold(c, s) \in B[0] OBVIOUS
<1>2. \A j \in Nat : j < Len(t) => \A a \in B[j] : Op(c, a, t[j + 1]) \in B[j + 1]
  <2>1. \A j \in Nat : j < Len(t) => j + 1 \in DOMAIN t OBVIOUS
  <2> QED BY <2>1
<1>3. Fold(c, s \o t) \in B[Len(t)]
  <2> HIDE DEF B
  <2> QED BY <1>1, <1>2, FoldAlong
<1> QED BY <1>3
=============================================================================
