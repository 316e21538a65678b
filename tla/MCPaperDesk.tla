---------------------------- MODULE MCPaperDesk ----------------------------
EXTENDS PaperDesk

CONSTANTS S1, S2

MCSymbols == {S1, S2}
MCRank == S1 :> 1 @@ S2 :> 2

Direction(c, up, flat, down) ==
    [choice |-> c, confidence |-> 700,
     probabilities |-> ("up" :> up @@ "flat" :> flat @@ "down" :> down)]
Score(level) ==
    [score |-> level * 1000, confidence |-> 700,
     probabilities |-> [l \in ScoreLevels |-> IF l = level THEN 1000 ELSE 0]]
Answers(d, hazard) ==
    [direction |-> d, setup_quality |-> Score(2), downside_hazard |-> Score(hazard),
     evidence_sufficiency |-> Score(2)]

Rising == [status |-> "completed", answers |-> Answers(Direction("up", 700, 200, 100), 1)]
Sinking == [status |-> "completed", answers |-> Answers(Direction("down", 200, 300, 500), 1)]
Plunging == [status |-> "completed", answers |-> Answers(Direction("down", 100, 200, 700), 1)]
Dangerous == [status |-> "completed", answers |-> Answers(Direction("up", 700, 200, 100), 3)]
Failed == [status |-> "failed", answers |-> NoJudgment]

Seen(judged, lowest) ==
    [judged |-> judged, quality |-> [valid |-> TRUE, fresh |-> TRUE],
     risk |-> [index |-> MarketRiskIndex([volatility |-> 40, drawdown |-> 4, atr |-> 2, gap |-> 30,
                                          sessionsToEvent |-> 9]),
               band |-> "LOW"],
     close |-> 10, atr |-> 0, low |-> lowest]
Stale == [Seen(Rising, 10) EXCEPT !.quality.fresh = FALSE]

\* S1 may be held or not, S2 competes with it for the same cash and may have to go
\* at once.
MCObservations ==
    S1 :> {Seen(Rising, 10), Seen(Rising, 9), Seen(Sinking, 10), Seen(Failed, 10)} @@
    S2 :> {Seen(Rising, 10), Seen(Plunging, 10), Seen(Dangerous, 10), Stale}
MCOpens == S1 :> {0, 11} @@ S2 :> {10}
MCAttestations == S1 :> {TRUE, FALSE} @@ S2 :> {TRUE}
=============================================================================
