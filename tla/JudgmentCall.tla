---------------------------- MODULE JudgmentCall -----------------------------
(***************************************************************************)
(* One judgment asked of OpenRouter (modules/judgment/providers/           *)
(* openrouter.ts, OpenRouterJevProvider.evaluate): attempts with a         *)
(* time-out each, inside one deadline, under a signal by which the caller  *)
(* cancels at any moment.                                                  *)
(*                                                                         *)
(* The clock counts from startedAt.  The event loop may run a timer up to  *)
(* Slack late.  A promise that settles resumes the call in a later         *)
(* microtask: between the two the caller may abort, but no timer runs and  *)
(* no time passes.  Once its signal is aborted the platform's fetch        *)
(* rejects and does not answer.  What an answer contains is reduced to how *)
(* the call treats it.                                                     *)
(*                                                                         *)
(* Definitions introduced as "Bug:" are what a plausible mistake would     *)
(* make of the definition that follows; nothing uses them.                 *)
(***************************************************************************)
EXTENDS Integers, Sequences

CONSTANTS
    Timeout,       \* timeoutMs
    RunDeadline,   \* runDeadlineMs
    MaxAttempts,   \* maxAttempts
    RetryAfterCap, \* the longest Retry-After that is waited out
    RetryAfters,   \* what a Retry-After header may ask for
    NoRetryAfter,  \* no header, or one that is not understood
    Base(_),       \* the longest jitter after each attempt
    Slack          \* how late the event loop may run a timer

ASSUME JudgmentAssumption ==
    /\ Timeout \in Nat \ {0} /\ RunDeadline \in Nat /\ Timeout <= RunDeadline
    /\ MaxAttempts \in 1..3
    /\ RetryAfterCap \in Nat /\ RetryAfters \subseteq Nat
    /\ NoRetryAfter \notin Nat
    /\ \A n \in 1..3 : Base(n) \in Nat
    /\ Slack \in Nat

VARIABLES
    now,       \* the clock, from startedAt
    phase,     \* what the call awaits
    abortedIn, \* the phase in which the caller aborted, or "never"
    attempt,   \* the loop's counter, zero before the first request
    timer,     \* when the attempt's timer aborts its controller, zero if cleared
    fired,     \* whether it has
    wake,      \* when the sleep between two attempts ends
    discarded, \* since when the body of an unwanted answer is being cancelled
    receipts,  \* attempts
    outcome,   \* what the caller has been told
    wire       \* history: each request as the provider's side saw it end

vars == <<now, phase, abortedIn, attempt, timer, fired, wake, discarded,
          receipts, outcome, wire>>

-----------------------------------------------------------------------------
(* What crosses the wire *)

\* A 200 whose declared length is acceptable, one whose length is not, another
\* status of the 2xx range, 429, the other statuses of RETRYABLE_STATUSES, a
\* status with a code of its own (400, 401, 402, 403, 404, 413, 422), any other.
Answers == {"ok", "oversized", "odd", "limited", "transient", "refused", "unlisted"}
Unwanted == Answers \ {"ok", "oversized"}

\* Or no answer: the connection failed, or the call gave up on it.
Ends == Answers \cup {"open", "reset", "body reset", "abandoned"}

Request == [sent: Nat, end: Ends, asked: Nat \cup {NoRetryAfter}, ended: Nat]

Last(s) == s[Len(s)]

\* The end of the request in flight.
Ending(end, asked) ==
    [wire EXCEPT ![Len(wire)] =
        [sent |-> wire[Len(wire)].sent, end |-> end, asked |-> asked, ended |-> now]]

-----------------------------------------------------------------------------
(* What the call tells *)

\* "REFUSED" stands for the codes of the statuses that have one of their own.
FailureCodes == {"CONFIGURATION", "CANCELED", "REFUSED", "RATE_LIMITED", "TIMEOUT",
                 "PROVIDER_UNAVAILABLE", "INVALID_RESPONSE", "MODEL_DRIFT"}

Receipt == [attempt: 1..MaxAttempts, code: FailureCodes \cup {"none"}]
Outcome == [code: FailureCodes \cup {"pending", "judged"}, retryable: BOOLEAN]

Pending == [code |-> "pending", retryable |-> FALSE]
Failed(code) == [code |-> code, retryable |-> FALSE]
Retryable(code) == [code |-> code, retryable |-> TRUE]

CodeFor(answer) ==
    CASE answer = "refused" -> "REFUSED"
      [] answer = "limited" -> "RATE_LIMITED"
      [] answer = "odd" -> "INVALID_RESPONSE"
      [] OTHER -> "PROVIDER_UNAVAILABLE"

\* Bug: whether to retry goes by the code, which other statuses share.
RetryOnByCode(answer) == CodeFor(answer) \in {"RATE_LIMITED", "PROVIDER_UNAVAILABLE"}

\* RETRYABLE_STATUSES
RetryOn(answer) == answer \in {"limited", "transient"}

Phases == {"called", "waiting", "answered", "discarding", "dropping", "reading",
           "parsing", "sleeping", "settled"}

TypeOK ==
    /\ now \in Nat
    /\ phase \in Phases
    /\ abortedIn \in Phases \cup {"never"}
    /\ attempt \in 0..MaxAttempts
    /\ timer \in 0..RunDeadline
    /\ fired \in BOOLEAN
    /\ wake \in 0..RunDeadline
    /\ discarded \in Nat
    /\ receipts \in Seq(Receipt)
    /\ outcome \in Outcome
    /\ wire \in Seq(Request)

Aborted == abortedIn # "never"

Init ==
    /\ now = 0 /\ phase = "called" /\ attempt = 0
    /\ abortedIn \in {"never", "called"}
    /\ timer = 0 /\ fired = FALSE /\ wake = 0 /\ discarded = 0
    /\ receipts = <<>> /\ outcome = Pending /\ wire = <<>>

-----------------------------------------------------------------------------
(* Pieces of the loop *)

\* The call returns or raises, and the finally block clears the timer.
Settle(told) == phase' = "settled" /\ outcome' = told /\ timer' = 0

\* attempts.push
Note(code) == receipts' = Append(receipts, [attempt |-> attempt, code |-> code])

Least(a, b) == IF a < b THEN a ELSE b

\* Bug: an attempt always gets its full time-out.
AttemptEndFull == now + Timeout

\* When the timer of an attempt that starts now is due.
AttemptEnd == now + Least(Timeout, RunDeadline - now)

\* Bug: a call out of time reports the provider unavailable, whatever failed.
OutOfTimeUnavailable == Retryable("PROVIDER_UNAVAILABLE")

\* `attempts.at(-1)?.code ?? "PROVIDER_UNAVAILABLE"`
OutOfTime ==
    Retryable(IF receipts = <<>> \/ Last(receipts).code = "none"
              THEN "PROVIDER_UNAVAILABLE" ELSE Last(receipts).code)

\* The head of the loop.  A request on the wire is an attempt of its own.
StartAttempt ==
    \/ /\ Aborted
       /\ Settle(Failed("CANCELED"))
       /\ UNCHANGED <<attempt, fired, wire>>
    \/ /\ ~Aborted /\ RunDeadline <= now
       /\ Settle(OutOfTime)
       /\ UNCHANGED <<attempt, fired, wire>>
    \/ /\ ~Aborted /\ now < RunDeadline
       /\ phase' = "waiting"
       /\ attempt' = attempt + 1
       /\ timer' = AttemptEnd
       /\ fired' = FALSE
       /\ wire' = Append(wire, [sent |-> now, end |-> "open",
                                asked |-> NoRetryAfter, ended |-> now])
       /\ outcome' = outcome

\* Bug: a Retry-After is cut to the longest jitter.
DelaysCut(asked) ==
    IF asked = NoRetryAfter THEN 0..Base(attempt) ELSE {Least(asked, Base(attempt))}

\* `retryAfterMs ?? Math.floor(random * base)`
Delays(asked) ==
    IF asked = NoRetryAfter THEN 0..Base(attempt) ELSE {Least(asked, RetryAfterCap)}

Fits(delay) == now + delay < RunDeadline

\* waitForRetry; left is what is still armed while it sleeps.
WaitForRetry(asked, code, left) ==
    \E delay \in Delays(asked) :
        \/ /\ ~Fits(delay)
           /\ Settle(Retryable(code))
           /\ wake' = wake
        \/ /\ Fits(delay)
           /\ phase' = "sleeping"
           /\ wake' = now + delay /\ timer' = left
           /\ outcome' = outcome

Caught ==
    IF Aborted THEN "CANCELED" ELSE IF fired THEN "TIMEOUT" ELSE "PROVIDER_UNAVAILABLE"

\* Bug: the last attempt is told from the others before the caller's signal is
\* looked at.
CatchLastFirst ==
    /\ Note(Caught)
    /\ \/ /\ attempt = MaxAttempts
          /\ Settle(Retryable(Caught))
          /\ wake' = wake
       \/ /\ Aborted /\ attempt < MaxAttempts
          /\ Settle(Failed("CANCELED"))
          /\ wake' = wake
       \/ /\ ~Aborted /\ attempt < MaxAttempts
          /\ WaitForRetry(NoRetryAfter, Caught, timer)

\* The outer catch, for anything but an error the try block itself raised.
Catch ==
    /\ Note(Caught)
    /\ \/ /\ Aborted
          /\ Settle(Failed("CANCELED"))
          /\ wake' = wake
       \/ /\ ~Aborted /\ attempt = MaxAttempts
          /\ Settle(Retryable(Caught))
          /\ wake' = wake
       \/ /\ ~Aborted /\ attempt < MaxAttempts
          /\ WaitForRetry(NoRetryAfter, Caught, timer)

-----------------------------------------------------------------------------
(* The call *)

\* evaluate(), its request and its configuration already found valid or not.
Start ==
    /\ phase = "called"
    /\ \/ StartAttempt
       \/ /\ ~Aborted
          /\ Settle(Failed("CONFIGURATION"))
          /\ UNCHANGED <<attempt, fired, wire>>
    /\ UNCHANGED <<now, abortedIn, wake, discarded, receipts>>

Wake ==
    /\ phase = "sleeping" /\ wake <= now
    /\ StartAttempt
    /\ UNCHANGED <<now, abortedIn, wake, discarded, receipts>>

\* The fetch rejects.
FetchFails ==
    /\ phase = "waiting"
    /\ wire' = Ending(IF Aborted \/ fired THEN "abandoned" ELSE "reset", NoRetryAfter)
    /\ Catch
    /\ UNCHANGED <<now, abortedIn, attempt, fired, discarded>>

\* The fetch resolves with a response.
FetchAnswers ==
    /\ phase = "waiting" /\ ~fired /\ ~Aborted
    /\ \E answer \in Answers, asked \in RetryAfters \cup {NoRetryAfter} :
          /\ answer # "limited" => asked = NoRetryAfter
          /\ wire' = Ending(answer, asked)
    /\ phase' = "answered"
    /\ UNCHANGED <<now, abortedIn, attempt, timer, fired, wake, discarded, receipts, outcome>>

\* A 200 is read, unless its declared length is too large.
TakeAnswer ==
    /\ phase = "answered" /\ ~Aborted
    /\ \/ /\ Last(wire).end = "ok"
          /\ phase' = "reading"
          /\ UNCHANGED <<timer, receipts, outcome>>
       \/ /\ Last(wire).end = "oversized"
          /\ Note("INVALID_RESPONSE")
          /\ Settle(Failed("INVALID_RESPONSE"))
    /\ UNCHANGED <<now, abortedIn, attempt, fired, wake, discarded, wire>>

\* Any other answer has its receipt, and its body is cancelled.
RejectAnswer ==
    /\ phase = "answered" /\ ~Aborted
    /\ Last(wire).end \in Unwanted
    /\ Note(CodeFor(Last(wire).end))
    /\ phase' = "discarding" /\ discarded' = now
    /\ UNCHANGED <<now, abortedIn, attempt, timer, fired, wake, outcome, wire>>

\* The caller aborted as the answer came.
DropAnswer ==
    /\ phase = "answered" /\ Aborted
    /\ phase' = "dropping" /\ discarded' = now
    /\ UNCHANGED <<now, abortedIn, attempt, timer, fired, wake, receipts, outcome, wire>>

\* Bug: a dropped answer leaves no receipt.
DroppedUncounted ==
    /\ phase = "dropping"
    /\ Settle(Failed("CANCELED"))
    /\ UNCHANGED <<now, abortedIn, attempt, fired, wake, discarded, receipts, wire>>

\* The body of a dropped answer is cancelled.
Dropped ==
    /\ phase = "dropping"
    /\ Note("CANCELED")
    /\ Settle(Failed("CANCELED"))
    /\ UNCHANGED <<now, abortedIn, attempt, fired, wake, discarded, wire>>

\* The body of a rejected answer is cancelled: retry or raise.
Discarded ==
    /\ phase = "discarding"
    /\ \/ /\ ~RetryOn(Last(wire).end)
          /\ Settle(Failed(CodeFor(Last(wire).end)))
          /\ wake' = wake
       \/ /\ RetryOn(Last(wire).end) /\ attempt = MaxAttempts
          /\ Settle(Retryable(CodeFor(Last(wire).end)))
          /\ wake' = wake
       \/ /\ RetryOn(Last(wire).end) /\ attempt < MaxAttempts
          /\ WaitForRetry(Last(wire).asked, CodeFor(Last(wire).end), 0)
    /\ UNCHANGED <<now, abortedIn, attempt, fired, discarded, receipts, wire>>

\* The body has arrived whole.
BodyEnds ==
    /\ phase = "reading" /\ ~Aborted /\ ~fired
    /\ phase' = "parsing"
    /\ UNCHANGED <<now, abortedIn, attempt, timer, fired, wake, discarded, receipts, outcome, wire>>

\* It is what was asked for, malformed, or of another model.
Parse ==
    /\ phase = "parsing"
    /\ Note("none")
    /\ \E told \in {[code |-> "judged", retryable |-> FALSE],
                    Failed("INVALID_RESPONSE"), Failed("MODEL_DRIFT")} : Settle(told)
    /\ UNCHANGED <<now, abortedIn, attempt, fired, wake, discarded, wire>>

\* The body exceeds its limit, or its connection fails.
BodyFails ==
    /\ phase = "reading" /\ ~Aborted /\ ~fired
    /\ \E end \in {"oversized", "body reset"} : wire' = Ending(end, NoRetryAfter)
    /\ Note("INVALID_RESPONSE")
    /\ Settle(Failed("INVALID_RESPONSE"))
    /\ UNCHANGED <<now, abortedIn, attempt, fired, wake, discarded>>

\* Bug: the reading of a body listens to the caller's signal alone.
BodyAbortedByCaller ==
    /\ phase = "reading" /\ Aborted
    /\ wire' = Ending("abandoned", NoRetryAfter)
    /\ Catch
    /\ UNCHANGED <<now, abortedIn, attempt, fired, discarded>>

\* The controller is aborted while the body is read.
BodyAborted ==
    /\ phase = "reading" /\ (Aborted \/ fired)
    /\ wire' = Ending("abandoned", NoRetryAfter)
    /\ Catch
    /\ UNCHANGED <<now, abortedIn, attempt, fired, discarded>>

-----------------------------------------------------------------------------
(* Its surroundings *)

\* The caller aborts its signal.
Abort ==
    /\ ~Aborted /\ phase \notin {"called", "settled"}
    /\ abortedIn' = phase
    /\ UNCHANGED <<now, phase, attempt, timer, fired, wake, discarded, receipts, outcome, wire>>

Armed == timer # 0 /\ ~fired

\* The attempt's timer aborts its controller.
TimerFires ==
    /\ Armed /\ timer <= now
    /\ phase \in {"waiting", "reading", "discarding", "dropping", "sleeping"}
    /\ fired' = TRUE
    /\ UNCHANGED <<now, phase, abortedIn, attempt, timer, wake, discarded, receipts, outcome, wire>>

\* Time passes while the call awaits something, and no further than Slack
\* beyond a timer that is due or the answer whose body is being cancelled.
Tick ==
    /\ phase \in {"waiting", "reading", "discarding", "dropping", "sleeping"}
    /\ phase \in {"waiting", "reading"} => ~Aborted /\ ~fired
    /\ Armed => now < timer + Slack
    /\ phase \in {"discarding", "dropping"} => now < discarded + Slack
    /\ phase = "sleeping" => now < wake + Slack
    /\ now' = now + 1
    /\ UNCHANGED <<phase, abortedIn, attempt, timer, fired, wake, discarded, receipts, outcome, wire>>

Next ==
    \/ Start \/ Wake
    \/ FetchFails \/ FetchAnswers
    \/ TakeAnswer \/ RejectAnswer \/ DropAnswer \/ Dropped \/ Discarded
    \/ BodyEnds \/ Parse \/ BodyFails \/ BodyAborted
    \/ Abort \/ TimerFires \/ Tick

Spec == Init /\ [][Next]_vars

\* The event loop runs what is due and the clock goes on.  Nothing is assumed
\* of the other side, which may never answer nor finish a body.
Fairness ==
    /\ WF_vars(Start \/ Wake \/ TakeAnswer \/ RejectAnswer \/ DropAnswer)
    /\ WF_vars(Dropped \/ Discarded \/ Parse \/ BodyAborted)
    /\ WF_vars((Aborted \/ fired) /\ FetchFails)
    /\ WF_vars(TimerFires)
    /\ WF_vars(Tick)

FairSpec == Spec /\ Fairness

-----------------------------------------------------------------------------
(* What must hold *)

\* Every request that left has exactly one receipt, in order, but for the one
\* in flight, whichever way each attempt ended: a lost or doubled receipt falsifies
\* what retries are billed (docs/research/jev-openrouter-integration.md:520).
ReceiptPerRequest ==
    /\ Len(wire) = attempt
    /\ \A i \in 1..Len(receipts) : receipts[i].attempt = i
    /\ Len(receipts) = IF phase \in {"waiting", "answered", "dropping", "reading", "parsing"}
                       THEN attempt - 1 ELSE attempt

TransientEnds == {"limited", "transient", "reset", "abandoned"}

\* The caller is told of the last request: its error has the code of the last
\* receipt, and is retryable exactly if that request ended in a way that may not
\* last and the caller did not cancel.
OutcomeTellsLastRequest ==
    phase = "settled" /\ attempt # 0 =>
        /\ outcome.code = "judged" => Last(wire).end = "ok"
        /\ outcome.code \notin {"judged", "CANCELED"} =>
              Last(receipts).code \in {outcome.code, "none"}
        /\ outcome = Retryable(outcome.code) <=>
              Last(wire).end \in TransientEnds /\ outcome.code # "CANCELED"

\* A request is repeated only after an end that may not last, before the
\* deadline, and no sooner after a Retry-After than the smaller of what it asked
\* for and the cap of parseRetryAfter (openrouter.ts:61-63).  The notes ask for
\* more: "Honor a valid `Retry-After` header when it fits inside the run deadline"
\* (docs/research/jev-openrouter-integration.md:520), which the code does only up
\* to the cap.
RetriesAreEarned ==
    \A i \in 1..(Len(wire) - 1) :
        /\ wire[i].end \in TransientEnds
        /\ wire[i + 1].sent < RunDeadline
        /\ wire[i].asked # NoRetryAfter =>
              wire[i].ended + Least(wire[i].asked, RetryAfterCap) <= wire[i + 1].sent

\* A caller that aborted is told so, and that alone, unless the call had its
\* answer by then: it was parsing one, or disposing of one it had rejected.
CancelIsTold ==
    phase = "settled" =>
        /\ abortedIn \notin {"never", "parsing", "discarding"} => outcome = Failed("CANCELED")
        /\ outcome.code = "CANCELED" => Aborted

\* What the caller gets is what happened: his own cancellation, if it came in time,
\* or what became of the last request, and whether to try again.
OutcomeIsHonest == OutcomeTellsLastRequest /\ CancelIsTold

\* A call is over by its deadline, but for the two timers it may last await and
\* which the event loop may run late, whatever the other side does.
SettlesInTime == now <= RunDeadline + 2 * Slack

\* Every call settles, even if the other side never answers or stalls amid a body.
EveryCallSettles == <>(phase = "settled")

\* A connection that fails is worth a retry, as the classification of failures
\* has it: "network reset, DNS error, timeout | Yes | TIMEOUT or
\* PROVIDER_UNAVAILABLE" (docs/research/jev-openrouter-integration.md:506).
ResetIsRetryable ==
    phase = "settled" /\ attempt # 0 /\ ~Aborted =>
        (Last(wire).end \in {"reset", "body reset"} => outcome = Retryable(outcome.code))
=============================================================================
