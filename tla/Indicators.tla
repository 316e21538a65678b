------------------------------ MODULE Indicators ------------------------------
(***************************************************************************)
(* The features of a market (modules/market/features/indicators.ts), as    *)
(* functions of the bars of a symbol and of its benchmark, oldest first.   *)
(*                                                                         *)
(* A price is a positive whole number and a change of price a whole number *)
(* of thousandths, rounded down.  Averages that the code carries along     *)
(* from bar to bar are exact fractions, [n |-> .., d |-> ..].  The annual  *)
(* window and the others have the lengths the constants give them, and     *)
(* the logarithms and the root in the realized volatility are left to the  *)
(* constant RealizedVolatility.                                            *)
(***************************************************************************)
EXTENDS Integers, FiniteSets, SequencesExt

CONSTANTS
    Annual,      \* ANNUALIZATION_SESSIONS, 252
    Window,      \* sessions of a rolling observation, 20
    Period,      \* of Wilder's averages, 14
    Trailing,    \* sessions of the drawdown, 60
    Horizons,    \* FEATURE_HORIZONS, {1, 5, 20, 60, 252}
    StrengthHorizons,   \* relativeStrengthHorizons, {20, 60, 252}
    Averages,    \* MOVING_AVERAGE_WINDOWS, {20, 50, 200}
    FlatBand,    \* TREND_FLAT_BAND, in thousandths
    RealizedVolatility(_)   \* of the closes of a window, a number

ASSUME IndicatorAssumption ==
    /\ {Annual, Window, Period, Trailing} \subseteq Nat \ {0}
    /\ Period < Annual + Window
    /\ Horizons \subseteq 1..Annual /\ StrengthHorizons \subseteq Horizons
    /\ Averages \subseteq 1..Annual
    /\ FlatBand \in Nat

Total(values) == FoldLeft(LAMBDA sum, x : sum + x, 0, values)
Newest(values) == values[Len(values)]
\* slice(-n)
Lately(values, n) == SubSeq(values, IF n < Len(values) THEN Len(values) - n + 1 ELSE 1, Len(values))
Size(x) == IF x < 0 THEN -x ELSE x
Over0(x) == IF x < 0 THEN 0 ELSE x

\* x / y - 1
Change(x, y) == (1000 * x) \div y - 1000

Each(bars, F(_)) == [i \in DOMAIN bars |-> F(bars[i])]

\* Of two neighbours in a sequence each; one shorter than the sequence
Between(values, F(_, _)) == [i \in 1..(Len(values) - 1) |-> F(values[i], values[i + 1])]

\* periodReturn
PeriodReturn(closes, n) == Change(Newest(closes), closes[Len(closes) - n])

\* trendDirection
TrendDirection(change) ==
    IF change > FlatBand THEN "up" ELSE IF change < -FlatBand THEN "down" ELSE "flat"

\* The distance to simpleMovingAverage
MovingAverageDistance(closes, n) == Change(n * Newest(closes), Total(Lately(closes, n)))

\* Wilder's average: the mean of the first Period values, into which each of
\* the others is taken in turn.
WilderAverage(values) ==
    FoldLeft(LAMBDA a, x : [n |-> a.n * (Period - 1) + x * a.d, d |-> a.d * Period],
             [n |-> Total(SubSeq(values, 1, Period)), d |-> Period],
             SubSeq(values, Period + 1, Len(values)))

\* wilderRsi; both averages have the same denominator.
WilderRsi(closes) ==
    LET gain == WilderAverage(Between(closes, LAMBDA x, y : Over0(y - x))).n
        loss == WilderAverage(Between(closes, LAMBDA x, y : Over0(x - y))).n
    IN  IF loss = 0 THEN IF gain = 0 THEN 50 ELSE 100
        ELSE (100 * gain) \div (gain + loss)

TrueRange(before, bar) ==
    Max({bar.high - bar.low, Size(bar.high - before.close), Size(bar.low - before.close)})

\* wilderAtr
WilderAtr(bars) == WilderAverage(Between(bars, TrueRange))

\* An observation for each window there is
Rolling(values, n, F(_)) ==
    [k \in 1..(Len(values) - n + 1) |-> F(SubSeq(values, k, k + n - 1))]

\* rollingRealizedVolatility: a window of returns takes one close more.
Volatilities(closes) == Rolling(closes, Window + 1, RealizedVolatility)

\* gaps, of the unadjusted prices
Gaps(bars) == Between(bars, LAMBDA x, y : Change(y.rawOpen, x.rawClose))

\* rollingAbsoluteMax
GapMaxima(bars) == Rolling(Gaps(bars), Window, LAMBDA w : Max({Size(w[i]) : i \in DOMAIN w}))

\* percentileRank, the number of observations beside that of those not above
PercentileRank(observations, current) ==
    [n |-> Cardinality({i \in DOMAIN observations : observations[i] <= current}),
     d |-> Len(observations)]

RankLately(observations) == PercentileRank(Lately(observations, Annual), Newest(observations))

BenchmarkRegime(closes) ==
    LET above == MovingAverageDistance(closes, Max(Averages)) >= 0
        rising == PeriodReturn(closes, Window) >= 0
    IN  CASE above /\ rising -> "risk_on"
          [] ~above /\ ~rising -> "risk_off"
          [] OTHER -> "mixed"

\* calculateMarketFeatures
CalculateMarketFeatures(bars, benchmarkBars, sessionsToKnownEvent) ==
    LET closes == Each(bars, LAMBDA b : b.close)
        benchmark == Each(benchmarkBars, LAMBDA b : b.close)
        volumes == Each(bars, LAMBDA b : b.volume)
        returns == [h \in Horizons |-> PeriodReturn(closes, h)]
        benchmarkReturns == [h \in StrengthHorizons |-> PeriodReturn(benchmark, h)]
    IN  [returns |-> returns,
         trend |-> [h \in Horizons |-> TrendDirection(returns[h])],
         movingAverageDistance |-> [n \in Averages |-> MovingAverageDistance(closes, n)],
         rsi |-> WilderRsi(closes),
         atr |-> WilderAtr(bars),
         volatilityPercentile |-> RankLately(Volatilities(closes)),
         drawdown |-> Change(Newest(closes), Max(ToSet(Lately(closes, Trailing)))),
         volumeRegime |-> Change(Window * Newest(volumes), Total(Lately(volumes, Window))),
         latestGap |-> Newest(Gaps(bars)),
         gapRiskPercentile |-> RankLately(GapMaxima(bars)),
         relativeStrength |-> [h \in StrengthHorizons |-> returns[h] - benchmarkReturns[h]],
         benchmarkReturns |-> benchmarkReturns,
         benchmarkRegime |-> BenchmarkRegime(benchmark),
         sessionsToKnownEvent |-> sessionsToKnownEvent]
=============================================================================
