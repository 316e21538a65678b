--------------------------- MODULE JudgmentContract ---------------------------
(***************************************************************************)
(* What is asked of the judgment provider and what is taken for an answer  *)
(* (modules/judgment/request.ts and validation.ts, and the fixture         *)
(* provider).                                                              *)
(*                                                                         *)
(* Probabilities and scores are those of PositionPolicy.  A reply is       *)
(* whether its text is JSON, its answers as they are written (a sequence,  *)
(* in which a question may be there twice), its model and whether its      *)
(* usage is in order.  The canonical body of a request is its wire form,   *)
(* and the hash is the body (SHA-256 is taken to have no collisions).      *)
(***************************************************************************)
EXTENDS PositionPolicy

CONSTANTS
    Requested,       \* REQUESTED_JEV_MODEL
    NoBand,          \* undefined: flatBandPercent is left to the contract
    Tickers,         \* names of 1 to 32 of the characters A-Z, 0-9, ".", "_" and "-"
    BytesOf(_),      \* the bytes of a body
    MaxRequestBytes  \* DEFAULT_MAX_REQUEST_BYTES, 65536

QuestionIds == {"direction", "setup_quality", "downside_hazard", "evidence_sufficiency"}

-----------------------------------------------------------------------------
(* The request *)

\* expectedFlatBandPercent, in thousandths; undefined for any other contract
ExpectedFlatBand(mode, horizon) ==
    CASE mode = "position" /\ horizon = 20 -> 20
      [] mode = "sprint" /\ horizon = 1 -> 5
      [] mode = "sprint" /\ horizon = 5 -> 15
      [] OTHER -> NoBand

IssuerEventTypes == {"earnings", "investor_day", "shareholder_meeting", "other"}

\* approvedState: names, a price, and events of a known type that are ahead.  A
\* session is always one of the calendar's, and these are in order.
Approved(state) ==
    /\ {state.symbol, state.benchmarkSymbol} \subseteq Tickers
    /\ state.latestAdjustedClose > 0
    /\ \A h \in DOMAIN state.features.trend : state.features.trend[h] \in Directions
    /\ state.features.benchmarkRegime \in {"risk_on", "mixed", "risk_off"}
    /\ state.features.sessionsToKnownEvent >= 0
    /\ \A e \in state.upcomingKnownEvents : e.type \in IssuerEventTypes /\ e.sessionsAway >= 0

\* The body of a request
Wire(state, mode, horizon) ==
    [model |-> Requested, mode |-> mode, horizon |-> horizon,
     band |-> ExpectedFlatBand(mode, horizon), state |-> state]

\* buildJudgmentRequest, as a set that is empty where it throws
BuildJudgmentRequest(state, mode, horizon, evaluation, band) ==
    LET expected == ExpectedFlatBand(mode, horizon)
        wire == Wire(state, mode, horizon)
    IN  IF /\ evaluation \in {"scored", "sandbox"}
           /\ expected # NoBand /\ band \in {NoBand, expected}
           /\ Approved(state) /\ BytesOf(wire) <= MaxRequestBytes
        THEN {[evaluation |-> evaluation, wire |-> wire, body |-> wire]} ELSE {}

\* validateJudgmentRequest: the request is the one that would be built of what
\* it says itself.
RequestValidates(r) ==
    BuildJudgmentRequest(r.wire.state, r.wire.mode, r.wire.horizon, r.evaluation, r.wire.band) = {r}

-----------------------------------------------------------------------------
(* The reply *)

\* Bug: a choice is taken as it comes.
ChoiceOfAny(a) ==
    /\ a.type = "choice" /\ a.choice \in Directions /\ IsUnit(a.confidence)
    /\ DOMAIN a.probabilities = Directions
    /\ \A d \in Directions : IsUnit(a.probabilities[d])
    /\ Distance(SumFunction(a.probabilities), Unit) <= SumTolerance

\* choiceAnswer, distribution and finiteUnit
ChoiceAnswer(a) ==
    /\ a.type = "choice" /\ a.choice \in Directions /\ IsUnit(a.confidence)
    /\ DOMAIN a.probabilities = Directions
    /\ \A d \in Directions : IsUnit(a.probabilities[d])
    /\ Distance(SumFunction(a.probabilities), Unit) <= SumTolerance
    /\ Max({a.probabilities[d] : d \in Directions}) - a.probabilities[a.choice] <= SumTolerance

\* scoreAnswer; the legend is the one of the question.
ScoreAnswer(a, question) ==
    /\ a.type = "score" /\ IsScore(a.score) /\ IsUnit(a.confidence)
    /\ a.legend = question
    /\ DOMAIN a.probabilities = ScoreLevels
    /\ \A l \in ScoreLevels : IsUnit(a.probabilities[l])
    /\ Distance(SumFunction(a.probabilities), Unit) <= SumTolerance
    /\ Distance(SumFunction([l \in ScoreLevels |-> l * a.probabilities[l]]), a.score)
         <= RoundingTolerance

AnswerAccepted(question, a) ==
    IF question = "direction" THEN ChoiceAnswer(a) ELSE ScoreAnswer(a, question)

\* parseAndValidateDecisionsResponse: no key twice, every question answered and
\* no other, and the model the one that is expected, if one is.
ReplyAccepted(reply, expected) ==
    /\ reply.json
    /\ \A i, j \in DOMAIN reply.answers : reply.answers[i].question = reply.answers[j].question => i = j
    /\ reply.model # "" /\ expected # {} => reply.model \in expected
    /\ {reply.answers[i].question : i \in DOMAIN reply.answers} = QuestionIds
    /\ \A i \in DOMAIN reply.answers :
          AnswerAccepted(reply.answers[i].question, reply.answers[i].answer)
    /\ reply.usage

\* The answers of an accepted reply
AnswersOf(reply) ==
    [q \in QuestionIds |->
        (CHOOSE x \in {reply.answers[i] : i \in DOMAIN reply.answers} : x.question = q).answer]

\* FixtureJevProvider: it answers no request that is to be scored, and what it
\* answers cannot be published.
FixtureAnswers(r) == RequestValidates(r) /\ r.evaluation = "sandbox"
=============================================================================
