---------------------------- MODULE PositionRisk ----------------------------
(***************************************************************************)
(* Market risk, sizing, execution and allocation (modules/policy/          *)
(* market-risk.ts, position-risk.ts, ranking.ts): pure functions of the    *)
(* desk.                                                                   *)
(*                                                                         *)
(* Money is counted in mills, thousandths of the unit prices are quoted    *)
(* in, so that 4 % of a price and an execution cost of 10 basis points are *)
(* whole numbers.  The code's rounding to cents is then exact.             *)
(***************************************************************************)
EXTENDS Integers, FiniteSets, SequencesExt

CONSTANTS
    RiskPercent,       \* POSITION_RISK_FRACTION
    NotionalPercent,   \* MAX_NOTIONAL_FRACTION
    AggregatePercent,  \* MAX_AGGREGATE_LOSS_FRACTION
    MaxOpenPositions   \* MAX_OPEN_POSITIONS

ASSUME RiskAssumption ==
    /\ {RiskPercent, NotionalPercent, AggregatePercent} \subseteq 1..100
    /\ MaxOpenPositions \in Nat

Mills == 1000
AtMost(x, y) == IF x < y THEN x ELSE y
AtLeast(x, y) == IF x < y THEN y ELSE x

-----------------------------------------------------------------------------
(* Market risk *)

\* computeMarketRisk: percentiles, drawdown (as a loss) and normalised ATR in
\* hundredths; the ATR counts from 1 % to 6 %.
EventProximity(sessions) == IF sessions <= 2 THEN 15 ELSE IF sessions <= 5 THEN 8 ELSE 0

MarketRiskIndex(i) ==
    (35 * i.volatility + 20 * AtMost(5 * i.drawdown, 100)
       + 20 * AtLeast(0, AtMost(20 * (i.atr - 1), 100)) + 10 * i.gap
       + 100 * EventProximity(i.sessionsToEvent) + 50) \div 100

-----------------------------------------------------------------------------
(* Sizing *)

StopDistance(price, atr) == AtLeast(2 * atr * Mills, 40 * price)

\* The whole shares within the budgets of the trade, the position and the cash
SharesPerTrade(price, atr, c) ==
    AtMost((RiskPercent * c.equity) \div (100 * StopDistance(price, atr)),
           AtMost((NotionalPercent * c.equity) \div (100 * price * Mills),
                  c.cash \div (price * Mills)))

\* ... and within what the other positions leave of the aggregate loss
WholeShares(price, atr, c) ==
    AtMost(SharesPerTrade(price, atr, c),
           (AggregatePercent * c.equity - 100 * c.plannedLoss)
             \div (100 * StopDistance(price, atr)))

SizingRefused(price, atr, c) ==
    \/ price <= 0 \/ atr < 0 \/ c.equity <= 0 \/ c.cash < 0 \/ c.plannedLoss < 0
    \/ c.positions >= MaxOpenPositions
    \/ AggregatePercent * c.equity <= 100 * c.plannedLoss
    \/ c.cash < price * Mills
    \/ StopDistance(price, atr) >= price * Mills
    \/ WholeShares(price, atr, c) < 1

NoSize == [valid |-> FALSE, shares |-> 0, stop |-> 0, notional |-> 0, plannedLoss |-> 0]

\* sizeLongPosition
SizeLongPosition(price, atr, c) ==
    IF SizingRefused(price, atr, c) THEN NoSize
    ELSE LET shares == WholeShares(price, atr, c)
         IN  [valid |-> TRUE, shares |-> shares,
              stop |-> price * Mills - StopDistance(price, atr),
              notional |-> shares * price * Mills,
              plannedLoss |-> shares * StopDistance(price, atr)]

-----------------------------------------------------------------------------
(* Execution *)

\* applyAdverseExecution
FillPrice(open, side) == open * (IF side = "entry" THEN 1001 ELSE 999)

\* createNextOpenFill: at a later session's open, and for an entry only with
\* an attestation received strictly before it.
Fills(side, cutoff, session, open, attested) ==
    /\ open > 0 /\ session > cutoff
    /\ side = "entry" => attested

-----------------------------------------------------------------------------
(* Allocation *)

\* compareCandidates, down to the symbol; two candidates of one symbol are both
\* rejected, whatever their order.
Before(a, b) ==
    \/ a.risk < b.risk
    \/ a.risk = b.risk /\ a.upProbability > b.upProbability
    \/ a.risk = b.risk /\ a.upProbability = b.upProbability /\ a.rank < b.rank

\* What a candidate is rejected for on its own
RefusedAlone(c, left, equity) ==
    \/ left.cash < 0 \/ equity <= 0 \/ left.plannedLoss < 0
    \/ c.risk \notin 0..100 \/ c.shares <= 0 \/ c.notional <= 0 \/ c.plannedLoss <= 0
    \/ left.positions >= MaxOpenPositions
    \/ 100 * c.notional > NotionalPercent * equity
    \/ c.notional > left.cash
    \/ 100 * (left.plannedLoss + c.plannedLoss) > AggregatePercent * equity

Refused(c, ranked, left, equity) ==
    \/ RefusedAlone(c, left, equity)
    \/ Cardinality({i \in DOMAIN ranked : ranked[i].symbol = c.symbol}) > 1

\* Bug: every candidate is measured against the capacity of the first.
FillWithoutCost(left, c) == [left EXCEPT !.filled = Append(@, c)]

Fill(left, c) ==
    [cash |-> left.cash - c.notional, positions |-> left.positions + 1,
     plannedLoss |-> left.plannedLoss + c.plannedLoss, filled |-> Append(left.filled, c)]

\* The stable sort by compareCandidates: each candidate goes behind those it is
\* not before.
InsertRanked(ranked, c) ==
    InsertAt(ranked, 1 + Cardinality({i \in DOMAIN ranked : ~Before(c, ranked[i])}), c)

Ranked(candidates) == FoldLeft(InsertRanked, <<>>, candidates)

Consider(ranked, equity, left, c) ==
    IF Refused(c, ranked, left, equity) THEN left ELSE Fill(left, c)

Unspent(capacity) ==
    [cash |-> capacity.cash, positions |-> capacity.positions,
     plannedLoss |-> capacity.plannedLoss, filled |-> <<>>]

\* allocateCandidates: the candidates filled, in the order of their rank
AllocateCandidates(candidates, capacity) ==
    LET ranked == Ranked(candidates)
        Next(left, c) == Consider(ranked, capacity.equity, left, c)
    IN  FoldLeft(Next, Unspent(capacity), ranked).filled
=============================================================================
