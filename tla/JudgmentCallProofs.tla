-------------------------- MODULE JudgmentCallProofs --------------------------
(***************************************************************************)
(* What holds of every judgment call, whatever its time-outs, its deadline *)
(* and the lateness of its timers: the safety properties of JudgmentCall,  *)
(* from the inductive invariant CallInv.                                   *)
(***************************************************************************)
EXTENDS JudgmentCall, TLAPS

\* The awaits in which the attempt's timer bounds the wait.
Timed == {"waiting", "answered", "reading", "parsing"}

\* Where the clock may be.  Each await is bounded by what wakes it.
ClockOK ==
    /\ phase = "called" => now = 0 /\ attempt = 0
    /\ phase \in Timed => timer \in 1..RunDeadline /\ now <= timer + Slack
    /\ phase \in {"discarding", "dropping"} =>
          discarded <= RunDeadline + Slack /\ now <= discarded + Slack
    /\ phase = "sleeping" => wake < RunDeadline /\ now <= wake + Slack
    /\ SettlesInTime

\* The last request in each phase, and what was noted of it.
LastOK ==
    /\ phase \notin {"called", "settled"} => attempt # 0
    /\ phase = "answered" => Last(wire).end \in Answers
    /\ phase \in {"reading", "parsing"} => Last(wire).end = "ok"
    /\ phase = "discarding" =>
          /\ Last(wire).end \in Unwanted
          /\ Last(wire).ended <= now
          /\ Last(receipts).code = CodeFor(Last(wire).end)
    /\ phase \in {"answered"} => Last(wire).ended <= now
    /\ phase = "sleeping" =>
          /\ Last(wire).end \in TransientEnds
          /\ Last(receipts).code \notin {"none", "CANCELED"}
          /\ attempt < MaxAttempts
          /\ Last(wire).asked # NoRetryAfter =>
                Last(wire).ended + Least(Last(wire).asked, RetryAfterCap) <= wake

\* In which phases the caller can have aborted.
AbortOK ==
    /\ phase \notin {"settled", "sleeping", "dropping"} => abortedIn \in {"never", phase}
    /\ phase = "sleeping" => abortedIn \in {"never", "discarding", "sleeping"}
    /\ phase = "dropping" => abortedIn = "answered"
    /\ CancelIsTold

CallInv ==
    /\ TypeOK
    /\ ReceiptPerRequest
    /\ ClockOK
    /\ LastOK
    /\ AbortOK
    /\ RetriesAreEarned
    /\ OutcomeTellsLastRequest

-----------------------------------------------------------------------------
(* Sequences *)

\* Closing the request in flight changes no other and not when it was sent
\* (the history the model keeps of openrouter.ts, evaluate).
LEMMA EndingFacts ==
  ASSUME wire \in Seq(Request), wire # <<>>, now \in Nat,
         NEW end \in Ends, NEW asked \in Nat \cup {NoRetryAfter}
  PROVE  /\ Ending(end, asked) \in Seq(Request)
         /\ Len(Ending(end, asked)) = Len(wire)
         /\ Last(Ending(end, asked)).end = end
         /\ Last(Ending(end, asked)).asked = asked
         /\ Last(Ending(end, asked)).ended = now
         /\ \A i \in 1..(Len(wire) - 1) :
               /\ Ending(end, asked)[i] = wire[i]
               /\ Ending(end, asked)[i + 1].sent = wire[i + 1].sent
<1> DEFINE r == [sent |-> wire[Len(wire)].sent, end |-> end, asked |-> asked, ended |-> now]
<1>1. Len(wire) \in 1..Len(wire) /\ wire[Len(wire)] \in Request
  OBVIOUS
<1>2. r \in Request
  BY <1>1 DEF Request
<1>3. /\ Ending(end, asked) = [wire EXCEPT ![Len(wire)] = r]
      /\ Ending(end, asked) \in Seq(Request)
      /\ Len(Ending(end, asked)) = Len(wire)
  BY <1>2 DEF Ending
<1>4. Last(Ending(end, asked)) = r
  BY <1>1, <1>3 DEF Last
<1>5. ASSUME NEW i \in 1..(Len(wire) - 1)
      PROVE  /\ Ending(end, asked)[i] = wire[i]
             /\ Ending(end, asked)[i + 1].sent = wire[i + 1].sent
  <2>1. i \in 1..Len(wire) /\ i # Len(wire) /\ i + 1 \in 1..Len(wire)
    BY <1>1
  <2>2. Ending(end, asked)[i] = wire[i]
    BY <2>1, <1>3
  <2>3. CASE i + 1 = Len(wire)
    BY <2>1, <2>2, <2>3, <1>3
  <2>4. CASE i + 1 # Len(wire)
    BY <2>1, <2>2, <2>4, <1>3
  <2>5. QED
    BY <2>3, <2>4
<1>6. QED
  BY <1>3, <1>4, <1>5

\* What a receipt adds to attempts.
LEMMA NoteFacts ==
  ASSUME receipts \in Seq(Receipt), attempt \in 1..MaxAttempts,
         NEW code \in FailureCodes \cup {"none"}, Note(code)
  PROVE  /\ receipts' \in Seq(Receipt)
         /\ Len(receipts') = Len(receipts) + 1
         /\ Last(receipts').code = code
         /\ receipts'[Len(receipts) + 1].attempt = attempt
         /\ \A i \in 1..Len(receipts) : receipts'[i] = receipts[i]
<1>1. [attempt |-> attempt, code |-> code] \in Receipt
  BY DEF Receipt
<1>2. QED
  BY <1>1 DEF Note, Last

-----------------------------------------------------------------------------
(* Parts of the steps *)

\* An error and a verdict are outcomes.
LEMMA OutcomeTypes ==
  /\ Pending \in Outcome
  /\ \A code \in FailureCodes : Failed(code) \in Outcome /\ Retryable(code) \in Outcome
  /\ [code |-> "judged", retryable |-> FALSE] \in Outcome
BY DEF Pending, Failed, Retryable, Outcome, FailureCodes

\* The codes the call derives are codes of failures.
LEMMA CodeTypes ==
  /\ \A answer \in Answers : CodeFor(answer) \in FailureCodes \ {"CANCELED"}
  /\ Caught \in FailureCodes
  /\ ~Aborted => Caught # "CANCELED"
BY DEF CodeFor, FailureCodes, Caught, Aborted, Answers

\* The head of the loop from a call that has not started an attempt or has slept
\* (openrouter.ts:166-198).
LEMMA StartAttemptKeeps ==
  ASSUME CallInv, phase \in {"called", "sleeping"}, StartAttempt,
         phase = "sleeping" => wake <= now,
         UNCHANGED <<now, abortedIn, wake, discarded, receipts>>
  PROVE  CallInv'
<1> USE JudgmentAssumption
<1>1. /\ TypeOK /\ ReceiptPerRequest /\ ClockOK /\ LastOK /\ AbortOK
      /\ RetriesAreEarned /\ OutcomeTellsLastRequest
  BY DEF CallInv
<1>2. /\ attempt = Len(wire) /\ Len(receipts) = attempt
      /\ phase = "called" => attempt = 0
      /\ phase = "sleeping" => attempt \in 1..(MaxAttempts - 1)
      /\ now <= RunDeadline + Slack
  BY <1>1 DEF ReceiptPerRequest, ClockOK, LastOK, TypeOK
<1>3. CASE Aborted /\ Settle(Failed("CANCELED")) /\ UNCHANGED <<attempt, fired, wire>>
  <2>1. TypeOK'
    BY <1>1, <1>3, OutcomeTypes DEF TypeOK, Settle, Phases, FailureCodes
  <2>2. ReceiptPerRequest'
    BY <1>1, <1>2, <1>3 DEF ReceiptPerRequest, Settle
  <2>3. ClockOK' /\ LastOK'
    BY <1>1, <1>2, <1>3 DEF ClockOK, LastOK, Settle, SettlesInTime, Timed, TypeOK
  <2>4. AbortOK'
    BY <1>1, <1>3 DEF AbortOK, CancelIsTold, Settle, Aborted
  <2>5. RetriesAreEarned'
    BY <1>1, <1>3 DEF RetriesAreEarned
  <2>6. OutcomeTellsLastRequest'
    BY <1>3 DEF OutcomeTellsLastRequest, Settle, Failed, Retryable
  <2>7. QED
    BY <2>1, <2>2, <2>3, <2>4, <2>5, <2>6 DEF CallInv
<1>4. CASE /\ ~Aborted /\ RunDeadline <= now /\ Settle(OutOfTime)
           /\ UNCHANGED <<attempt, fired, wire>>
  <2>1. phase = "sleeping" => Last(receipts).code \in FailureCodes \ {"CANCELED"}
    <3>1. phase = "sleeping" => Last(receipts) \in Receipt
      BY <1>1, <1>2 DEF TypeOK, Last
    <3>2. QED
      BY <1>1, <3>1 DEF LastOK, Receipt
  <2>2. phase = "sleeping" => OutOfTime = Retryable(Last(receipts).code)
    BY <1>1, <1>2 DEF OutOfTime, LastOK
  <2>3. \E code \in FailureCodes \ {"CANCELED"} : OutOfTime = Retryable(code)
    <3>1. CASE phase = "sleeping"
      BY <2>1, <2>2, <3>1
    <3>2. CASE phase = "called"
      BY <1>1, <1>4, <3>2 DEF ClockOK
    <3>3. QED
      BY <3>1, <3>2
  <2>4. TypeOK'
    BY <1>1, <1>4, <2>3, OutcomeTypes DEF TypeOK, Settle, Phases
  <2>5. ReceiptPerRequest'
    BY <1>1, <1>2, <1>4 DEF ReceiptPerRequest, Settle
  <2>6. ClockOK' /\ LastOK'
    BY <1>1, <1>2, <1>4 DEF ClockOK, LastOK, Settle, SettlesInTime, Timed, TypeOK
  <2>7. AbortOK'
    BY <1>1, <1>4, <2>3 DEF AbortOK, CancelIsTold, Settle, Aborted, Retryable
  <2>8. RetriesAreEarned'
    BY <1>1, <1>4 DEF RetriesAreEarned
  <2>9. OutcomeTellsLastRequest'
    <3>1. CASE phase = "sleeping"
      BY <1>1, <1>4, <2>1, <2>2, <3>1
         DEF OutcomeTellsLastRequest, Settle, Retryable, LastOK, FailureCodes
    <3>2. CASE phase = "called"
      BY <1>2, <1>4, <3>2 DEF OutcomeTellsLastRequest
    <3>3. QED
      BY <3>1, <3>2
  <2>10. QED
    BY <2>4, <2>5, <2>6, <2>7, <2>8, <2>9 DEF CallInv
<1>5. CASE /\ ~Aborted /\ now < RunDeadline
           /\ phase' = "waiting" /\ attempt' = attempt + 1
           /\ timer' = AttemptEnd /\ fired' = FALSE
           /\ wire' = Append(wire, [sent |-> now, end |-> "open",
                                    asked |-> NoRetryAfter, ended |-> now])
           /\ outcome' = outcome
  <2> DEFINE r == [sent |-> now, end |-> "open", asked |-> NoRetryAfter, ended |-> now]
  <2>1. r \in Request
    BY <1>1 DEF Request, Ends, TypeOK
  <2>2. /\ wire' \in Seq(Request) /\ Len(wire') = Len(wire) + 1
        /\ wire'[Len(wire) + 1] = r
        /\ \A i \in 1..Len(wire) : wire'[i] = wire[i]
    BY <1>1, <1>5, <2>1 DEF TypeOK
  <2>3. AttemptEnd \in 1..RunDeadline /\ now <= AttemptEnd
    BY <1>1, <1>5 DEF AttemptEnd, Least, TypeOK
  <2>4. attempt + 1 \in 1..MaxAttempts
    BY <1>2
  <2>5. TypeOK'
    <3>1. attempt' \in 0..MaxAttempts /\ timer' \in 0..RunDeadline
      BY <1>5, <2>3, <2>4
    <3>2. phase' \in Phases /\ fired' \in BOOLEAN /\ outcome' \in Outcome
      BY <1>1, <1>5 DEF TypeOK, Phases
    <3>3. QED
      BY <1>1, <2>2, <3>1, <3>2 DEF TypeOK
  <2>6. ReceiptPerRequest'
    BY <1>1, <1>2, <1>5, <2>2 DEF ReceiptPerRequest
  <2>7. ClockOK' /\ LastOK'
    BY <1>1, <1>2, <1>5, <2>3, <2>4 DEF ClockOK, LastOK, SettlesInTime, Timed, TypeOK
  <2>8. AbortOK'
    BY <1>1, <1>5 DEF AbortOK, CancelIsTold, Aborted
  <2>9. RetriesAreEarned'
    <3>1. ASSUME NEW i \in 1..(Len(wire') - 1)
          PROVE  /\ wire'[i].end \in TransientEnds
                 /\ wire'[i + 1].sent < RunDeadline
                 /\ wire'[i].asked # NoRetryAfter =>
                      wire'[i].ended + Least(wire'[i].asked, RetryAfterCap) <= wire'[i + 1].sent
      <4>1. CASE i = Len(wire)
        <5>1. phase = "sleeping" /\ wire # <<>>
          BY <1>1, <1>2, <4>1, <3>1, <2>2 DEF TypeOK
        <5>2. wire'[i] = Last(wire) /\ wire'[i + 1] = r
          BY <2>2, <4>1, <3>1 DEF Last
        <5>3. Last(wire) \in Request
          BY <5>1, <1>1 DEF TypeOK, Last
        <5>4. r.sent = now /\ wake <= now
          BY <5>1
        <5>5. Last(wire).asked # NoRetryAfter =>
                 Last(wire).ended + Least(Last(wire).asked, RetryAfterCap) <= now
          BY <5>1, <5>3, <5>4, <1>1 DEF LastOK, TypeOK, Request, Least
        <5>6. QED
          BY <5>1, <5>2, <5>4, <5>5, <1>1, <1>5 DEF LastOK
      <4>2. CASE i # Len(wire)
        <5>1. i \in 1..(Len(wire) - 1)
          BY <1>1, <2>2, <3>1, <4>2 DEF TypeOK
        <5>2. wire'[i] = wire[i] /\ wire'[i + 1] = wire[i + 1]
          BY <1>1, <2>2, <5>1 DEF TypeOK
        <5>3. QED
          BY <1>1, <5>1, <5>2 DEF RetriesAreEarned
      <4>3. QED
        BY <4>1, <4>2
    <3>2. QED
      BY <3>1 DEF RetriesAreEarned
  <2>10. OutcomeTellsLastRequest'
    BY <1>5 DEF OutcomeTellsLastRequest
  <2>11. QED
    BY <2>5, <2>6, <2>7, <2>8, <2>9, <2>10 DEF CallInv
<1>6. QED
  BY <1>3, <1>4, <1>5 DEF StartAttempt

\* Closing the last request earns or loses no retry.
LEMMA EarnedStays ==
  ASSUME TypeOK, RetriesAreEarned, attempt = Len(wire), attempt # 0,
         NEW end \in Ends, NEW asked \in Nat \cup {NoRetryAfter}, wire' = Ending(end, asked)
  PROVE  RetriesAreEarned'
<1> DEFINE closed == Ending(end, asked)
<1>0. wire \in Seq(Request) /\ wire # <<>> /\ now \in Nat
  BY DEF TypeOK
<1>1. /\ Len(wire') = Len(wire)
      /\ \A i \in 1..(Len(wire) - 1) :
            wire'[i] = wire[i] /\ wire'[i + 1].sent = wire[i + 1].sent
  <2>1. /\ Len(closed) = Len(wire)
        /\ \A i \in 1..(Len(wire) - 1) :
              closed[i] = wire[i] /\ closed[i + 1].sent = wire[i + 1].sent
    BY <1>0, EndingFacts, Zenon
  <2>2. QED
    BY <2>1
<1>2. QED
  BY <1>1 DEF RetriesAreEarned

\* What the call may end with, and with which receipts and wire.
LEMMA SettleKeeps ==
  ASSUME CallInv, phase \notin {"called", "settled"},
         NEW told \in Outcome, Settle(told),
         UNCHANGED <<now, abortedIn, attempt, fired, wake, discarded>>,
         receipts' \in Seq(Receipt), Len(receipts') = attempt,
         \A i \in 1..attempt : receipts'[i].attempt = i,
         wire' \in Seq(Request), Len(wire') = attempt, RetriesAreEarned',
         told.code = "judged" => Last(wire').end = "ok",
         told.code \notin {"judged", "CANCELED"} => Last(receipts').code \in {told.code, "none"},
         told = Retryable(told.code) <=>
            Last(wire').end \in TransientEnds /\ told.code # "CANCELED",
         abortedIn \notin {"never", "parsing", "discarding"} => told = Failed("CANCELED"),
         told.code = "CANCELED" => Aborted
  PROVE  CallInv'
<1>1. /\ TypeOK /\ SettlesInTime
  BY DEF CallInv, ClockOK
<1>2. TypeOK'
  BY <1>1, JudgmentAssumption DEF TypeOK, Settle, Phases
<1>3. ReceiptPerRequest'
  BY DEF ReceiptPerRequest, Settle
<1>4. ClockOK' /\ LastOK'
  BY <1>1 DEF ClockOK, LastOK, Settle, SettlesInTime, Timed
<1>5. AbortOK'
  BY DEF AbortOK, CancelIsTold, Settle, Aborted
<1>6. OutcomeTellsLastRequest'
  BY DEF OutcomeTellsLastRequest, Settle
<1>7. QED
  BY <1>2, <1>3, <1>4, <1>5, <1>6 DEF CallInv

\* When the call may go to sleep, and until when.
LEMMA SleepKeeps ==
  ASSUME CallInv, phase \in {"waiting", "reading", "discarding"}, attempt < MaxAttempts,
         NEW delay \in Nat, now + delay < RunDeadline,
         phase' = "sleeping", wake' = now + delay, timer' \in {0, timer},
         UNCHANGED <<now, abortedIn, attempt, fired, discarded, outcome>>,
         receipts' \in Seq(Receipt), Len(receipts') = attempt,
         \A i \in 1..attempt : receipts'[i].attempt = i,
         Last(receipts').code \notin {"none", "CANCELED"},
         wire' \in Seq(Request), Len(wire') = attempt, RetriesAreEarned',
         Last(wire').end \in TransientEnds,
         Last(wire').asked # NoRetryAfter =>
            Last(wire').ended + Least(Last(wire').asked, RetryAfterCap) <= wake',
         phase # "discarding" => ~Aborted
  PROVE  CallInv'
<1>1. TypeOK /\ AbortOK /\ ClockOK /\ LastOK
  BY DEF CallInv
<1>2. TypeOK'
  <2>1. wake' \in 0..RunDeadline /\ timer' \in 0..RunDeadline
    BY <1>1, JudgmentAssumption DEF TypeOK
  <2>2. phase' \in Phases
    BY DEF Phases
  <2>3. QED
    BY <1>1, <2>1, <2>2 DEF TypeOK
<1>3. ReceiptPerRequest'
  BY DEF ReceiptPerRequest
<1>4. ClockOK'
  BY <1>1, <1>2, JudgmentAssumption DEF ClockOK, SettlesInTime, Timed, TypeOK
<1>5. LastOK'
  BY <1>1 DEF LastOK
<1>6. AbortOK'
  BY <1>1 DEF AbortOK, CancelIsTold, Aborted
<1>7. OutcomeTellsLastRequest'
  BY DEF OutcomeTellsLastRequest
<1>8. QED
  BY <1>2, <1>3, <1>4, <1>5, <1>6, <1>7 DEF CallInv

\* The outer catch (openrouter.ts:332-354), after a request that brought no
\* whole answer.
LEMMA CatchKeeps ==
  ASSUME CallInv, phase \in {"waiting", "reading"},
         NEW end \in {"reset", "abandoned"}, wire' = Ending(end, NoRetryAfter), Catch,
         UNCHANGED <<now, abortedIn, attempt, fired, discarded>>
  PROVE  CallInv'
<1>1. /\ TypeOK /\ ReceiptPerRequest /\ LastOK /\ AbortOK /\ RetriesAreEarned
  BY DEF CallInv
<1>2. /\ attempt = Len(wire) /\ attempt \in 1..MaxAttempts
      /\ Len(receipts) = attempt - 1
      /\ \A i \in 1..(attempt - 1) : receipts[i].attempt = i
  BY <1>1 DEF ReceiptPerRequest, LastOK, TypeOK
<1>3. /\ Caught \in FailureCodes
      /\ Aborted => Caught = "CANCELED"
      /\ ~Aborted => Caught # "CANCELED"
  BY CodeTypes DEF Caught
<1>4. /\ receipts' \in Seq(Receipt) /\ Len(receipts') = attempt
      /\ \A i \in 1..attempt : receipts'[i].attempt = i
      /\ Last(receipts').code = Caught
  BY <1>1, <1>2, <1>3, NoteFacts DEF Catch, TypeOK
<1> end \in Ends
  BY DEF Ends
<1>5. /\ wire' \in Seq(Request) /\ Len(wire') = attempt
      /\ Last(wire').end = end /\ Last(wire').asked = NoRetryAfter
  <2> DEFINE closed == Ending(end, NoRetryAfter)
  <2>1. wire \in Seq(Request) /\ wire # <<>> /\ now \in Nat /\ end \in Ends
    BY <1>1, <1>2 DEF TypeOK
  <2>2. /\ closed \in Seq(Request) /\ Len(closed) = attempt
        /\ Last(closed).end = end /\ Last(closed).asked = NoRetryAfter
    BY <1>2, <2>1, EndingFacts
  <2>3. QED
    BY <2>2
<1>6. RetriesAreEarned'
  <2>1. end \in Ends /\ attempt # 0
    BY <1>2
  <2>2. QED
    BY <1>1, <1>2, <2>1, EarnedStays
<1>7. end \in TransientEnds
  BY DEF TransientEnds
<1>8. Caught # "none" /\ Caught # "judged"
  BY <1>3 DEF FailureCodes
<1>9. abortedIn \notin {"parsing", "discarding"}
  BY <1>1 DEF AbortOK
<1>10. CASE Aborted /\ Settle(Failed("CANCELED")) /\ wake' = wake
  <2>1. Failed("CANCELED") \in Outcome /\ Failed("CANCELED").code = "CANCELED"
    BY OutcomeTypes DEF FailureCodes, Failed
  <2>2. Failed("CANCELED") # Retryable("CANCELED")
    BY DEF Failed, Retryable
  <2>3. QED
    BY <1>4, <1>5, <1>6, <1>10, <2>1, <2>2, SettleKeeps
<1>11. ASSUME ~Aborted, Settle(Retryable(Caught)), wake' = wake PROVE CallInv'
  <2>1. Retryable(Caught) \in Outcome /\ Retryable(Caught).code = Caught
    BY <1>3, OutcomeTypes DEF Retryable
  <2>2. abortedIn = "never"
    BY <1>11 DEF Aborted
  <2>3. QED
    BY <1>3, <1>4, <1>5, <1>6, <1>7, <1>8, <1>11, <2>1, <2>2, SettleKeeps
<1>12. ASSUME ~Aborted, attempt < MaxAttempts, WaitForRetry(NoRetryAfter, Caught, timer)
       PROVE  CallInv'
  <2>1. PICK delay \in Delays(NoRetryAfter) :
          \/ ~Fits(delay) /\ Settle(Retryable(Caught)) /\ wake' = wake
          \/ /\ Fits(delay) /\ phase' = "sleeping" /\ wake' = now + delay
             /\ timer' = timer /\ outcome' = outcome
    BY <1>12 DEF WaitForRetry
  <2>2. CASE ~Fits(delay) /\ Settle(Retryable(Caught)) /\ wake' = wake
    BY <1>11, <1>12, <2>2
  <2>3. CASE /\ Fits(delay) /\ phase' = "sleeping" /\ wake' = now + delay
             /\ timer' = timer /\ outcome' = outcome
    <3>1. delay \in Nat
      BY <1>2, JudgmentAssumption DEF Delays
    <3>2. QED
      BY <1>3, <1>4, <1>5, <1>6, <1>7, <1>8, <1>12, <2>3, <3>1, SleepKeeps DEF Fits
  <2>4. QED
    BY <2>1, <2>2, <2>3
<1>13. QED
  BY <1>10, <1>11, <1>12 DEF Catch

\* The call ends with a receipt of its own for the last request, as for an answer
\* dropped, too large or cut short, and for a body that was parsed.
LEMMA NotedSettles ==
  ASSUME CallInv, phase \in {"answered", "dropping", "reading", "parsing"},
         NEW code \in FailureCodes \cup {"none"}, Note(code),
         NEW told \in Outcome, Settle(told),
         UNCHANGED <<now, abortedIn, attempt, fired, wake, discarded>>,
         wire' \in Seq(Request), Len(wire') = attempt, RetriesAreEarned',
         told.code = "judged" => Last(wire').end = "ok",
         told.code \notin {"judged", "CANCELED"} => code \in {told.code, "none"},
         told # Retryable(told.code),
         told.code # "CANCELED" => Last(wire').end \notin TransientEnds,
         Aborted /\ phase # "parsing" => told = Failed("CANCELED"),
         told.code = "CANCELED" => Aborted
  PROVE  CallInv'
<1>1. /\ TypeOK /\ ReceiptPerRequest /\ LastOK /\ AbortOK
  BY DEF CallInv
<1>2. /\ attempt = Len(wire) /\ attempt \in 1..MaxAttempts
      /\ Len(receipts) = attempt - 1
      /\ \A i \in 1..(attempt - 1) : receipts[i].attempt = i
  BY <1>1 DEF ReceiptPerRequest, LastOK, TypeOK
<1>3. /\ receipts' \in Seq(Receipt) /\ Len(receipts') = attempt
      /\ \A i \in 1..attempt : receipts'[i].attempt = i
      /\ Last(receipts').code = code
  BY <1>1, <1>2, NoteFacts DEF TypeOK
<1>4. abortedIn \notin {"never", "parsing", "discarding"} => Aborted /\ phase # "parsing"
  BY <1>1 DEF Aborted, AbortOK
<1>5. QED
  BY <1>3, <1>4, SettleKeeps

\* An answer taken, rejected or dropped.
LEMMA AnswerKeeps ==
  ASSUME CallInv, TakeAnswer \/ RejectAnswer \/ DropAnswer
  PROVE  CallInv'
<1>1. /\ TypeOK /\ ReceiptPerRequest /\ ClockOK /\ LastOK /\ AbortOK
      /\ RetriesAreEarned /\ OutcomeTellsLastRequest
  BY DEF CallInv
<1>2. /\ phase = "answered"
      /\ UNCHANGED <<now, abortedIn, attempt, fired, wake, wire>>
  BY DEF TakeAnswer, RejectAnswer, DropAnswer
<1>3. /\ attempt = Len(wire) /\ attempt \in 1..MaxAttempts
      /\ Len(receipts) = attempt - 1
      /\ \A i \in 1..(attempt - 1) : receipts[i].attempt = i
  BY <1>1, <1>2 DEF ReceiptPerRequest, LastOK, TypeOK
<1>4. RetriesAreEarned'
  BY <1>1, <1>2 DEF RetriesAreEarned
<1>5. now <= RunDeadline + Slack
  BY <1>1, <1>2, JudgmentAssumption DEF ClockOK, Timed, TypeOK
<1>6. CASE /\ ~Aborted /\ Last(wire).end = "ok" /\ phase' = "reading"
           /\ UNCHANGED <<timer, receipts, outcome, discarded>>
  <2>1. TypeOK' /\ ReceiptPerRequest'
    BY <1>1, <1>2, <1>3, <1>6 DEF TypeOK, Phases, ReceiptPerRequest
  <2>2. ClockOK' /\ LastOK' /\ AbortOK'
    BY <1>1, <1>2, <1>6
       DEF ClockOK, LastOK, AbortOK, SettlesInTime, Timed, CancelIsTold, Aborted
  <2>3. OutcomeTellsLastRequest'
    BY <1>6 DEF OutcomeTellsLastRequest
  <2>4. QED
    BY <1>4, <2>1, <2>2, <2>3 DEF CallInv
<1>7. CASE /\ ~Aborted /\ Last(wire).end = "oversized" /\ discarded' = discarded
           /\ Note("INVALID_RESPONSE") /\ Settle(Failed("INVALID_RESPONSE"))
  <2>1. /\ Failed("INVALID_RESPONSE") \in Outcome
        /\ Failed("INVALID_RESPONSE").code = "INVALID_RESPONSE"
        /\ Failed("INVALID_RESPONSE") # Retryable("INVALID_RESPONSE")
        /\ "INVALID_RESPONSE" \in FailureCodes \cup {"none"}
    BY OutcomeTypes DEF FailureCodes, Failed, Retryable
  <2>2. wire' \in Seq(Request) /\ Len(wire') = attempt /\ Last(wire').end = "oversized"
    BY <1>1, <1>2, <1>3, <1>7 DEF TypeOK
  <2>3. QED
    BY <1>2, <1>4, <1>7, <2>1, <2>2, NotedSettles DEF TransientEnds
<1>8. CASE RejectAnswer
  <2>1. /\ ~Aborted /\ Last(wire).end \in Unwanted
        /\ Note(CodeFor(Last(wire).end)) /\ phase' = "discarding" /\ discarded' = now
        /\ UNCHANGED <<timer, outcome>>
    BY <1>8 DEF RejectAnswer
  <2>2. CodeFor(Last(wire).end) \in FailureCodes
    BY <2>1, CodeTypes DEF Unwanted
  <2>3. /\ receipts' \in Seq(Receipt) /\ Len(receipts') = attempt
        /\ \A i \in 1..attempt : receipts'[i].attempt = i
        /\ Last(receipts').code = CodeFor(Last(wire).end)
    BY <1>1, <1>3, <2>1, <2>2, NoteFacts DEF TypeOK
  <2>4. TypeOK' /\ ReceiptPerRequest'
    BY <1>1, <1>2, <1>3, <2>1, <2>3 DEF TypeOK, Phases, ReceiptPerRequest
  <2>5. ClockOK' /\ AbortOK'
    BY <1>1, <1>2, <1>5, <2>1, JudgmentAssumption
       DEF ClockOK, AbortOK, SettlesInTime, Timed, CancelIsTold, Aborted, TypeOK
  <2>6. LastOK'
    BY <1>1, <1>2, <2>1, <2>3 DEF LastOK
  <2>7. OutcomeTellsLastRequest'
    BY <2>1 DEF OutcomeTellsLastRequest
  <2>8. QED
    BY <1>4, <2>4, <2>5, <2>6, <2>7 DEF CallInv
<1>9. CASE DropAnswer
  <2>1. /\ Aborted /\ phase' = "dropping" /\ discarded' = now
        /\ UNCHANGED <<timer, receipts, outcome>>
    BY <1>9 DEF DropAnswer
  <2>2. TypeOK' /\ ReceiptPerRequest'
    BY <1>1, <1>2, <1>3, <2>1 DEF TypeOK, Phases, ReceiptPerRequest
  <2>3. ClockOK' /\ LastOK'
    BY <1>1, <1>2, <1>5, <2>1, JudgmentAssumption
       DEF ClockOK, LastOK, SettlesInTime, Timed, TypeOK
  <2>4. AbortOK'
    BY <1>1, <1>2, <2>1 DEF AbortOK, CancelIsTold, Aborted
  <2>5. OutcomeTellsLastRequest'
    BY <2>1 DEF OutcomeTellsLastRequest
  <2>6. QED
    BY <1>4, <2>2, <2>3, <2>4, <2>5 DEF CallInv
<1>10. QED
  BY <1>6, <1>7, <1>8, <1>9 DEF TakeAnswer

\* The body of a rejected answer is cancelled (openrouter.ts:229-242).
LEMMA DiscardedKeeps == ASSUME CallInv, Discarded PROVE CallInv'
<1> DEFINE end == Last(wire).end
<1> DEFINE code == CodeFor(end)
<1>1. /\ TypeOK /\ ReceiptPerRequest /\ ClockOK /\ LastOK /\ AbortOK /\ RetriesAreEarned
  BY DEF CallInv
<1>2. /\ phase = "discarding" /\ end \in Unwanted /\ Last(wire).ended <= now
      /\ Last(receipts).code = code
      /\ UNCHANGED <<now, abortedIn, attempt, fired, discarded, receipts, wire>>
  BY <1>1 DEF Discarded, LastOK
<1>3. /\ attempt = Len(wire) /\ attempt \in 1..MaxAttempts
      /\ receipts' \in Seq(Receipt) /\ Len(receipts') = attempt
      /\ \A i \in 1..attempt : receipts'[i].attempt = i
      /\ wire' \in Seq(Request) /\ Len(wire') = attempt
  BY <1>1, <1>2 DEF ReceiptPerRequest, LastOK, TypeOK
<1>4. RetriesAreEarned'
  BY <1>1, <1>2 DEF RetriesAreEarned
<1>5. code \in FailureCodes \ {"CANCELED"} /\ code \notin {"none", "judged"}
  <2>1. code \in FailureCodes \ {"CANCELED"}
    BY <1>2, CodeTypes DEF Unwanted
  <2>2. QED
    BY <2>1 DEF FailureCodes
<1>6. RetryOn(end) <=> end \in TransientEnds
  BY <1>2 DEF RetryOn, TransientEnds, Unwanted, Answers
<1>7. abortedIn \in {"never", "discarding"}
  BY <1>1, <1>2 DEF AbortOK
<1>8. Last(receipts').code = code /\ Last(wire').end = end
  BY <1>2
<1>9. ASSUME ~RetryOn(end), Settle(Failed(code)), wake' = wake PROVE CallInv'
  <2>1. /\ Failed(code) \in Outcome /\ Failed(code).code = code
        /\ Failed(code) # Retryable(code)
    BY <1>5, OutcomeTypes DEF Failed, Retryable
  <2>2. QED
    BY <1>2, <1>3, <1>4, <1>5, <1>6, <1>7, <1>8, <1>9, <2>1, SettleKeeps
<1>10. ASSUME RetryOn(end), Settle(Retryable(code)), wake' = wake PROVE CallInv'
  <2>1. Retryable(code) \in Outcome /\ Retryable(code).code = code
    BY <1>5, OutcomeTypes DEF Retryable
  <2>2. QED
    BY <1>2, <1>3, <1>4, <1>5, <1>6, <1>7, <1>8, <1>10, <2>1, SettleKeeps
<1>11. ASSUME RetryOn(end), attempt < MaxAttempts, WaitForRetry(Last(wire).asked, code, 0)
       PROVE  CallInv'
  <2>1. PICK delay \in Delays(Last(wire).asked) :
          \/ ~Fits(delay) /\ Settle(Retryable(code)) /\ wake' = wake
          \/ /\ Fits(delay) /\ phase' = "sleeping" /\ wake' = now + delay
             /\ timer' = 0 /\ outcome' = outcome
    BY <1>11 DEF WaitForRetry
  <2>2. CASE ~Fits(delay) /\ Settle(Retryable(code)) /\ wake' = wake
    BY <1>10, <1>11, <2>2
  <2>3. CASE /\ Fits(delay) /\ phase' = "sleeping" /\ wake' = now + delay
             /\ timer' = 0 /\ outcome' = outcome
    <3>1. Last(wire) \in Request
      BY <1>2, <1>3 DEF Last
    <3>2. delay \in Nat
      BY <1>3, <3>1, JudgmentAssumption DEF Delays, Request, Least
    <3>3. Last(wire).asked # NoRetryAfter => delay = Least(Last(wire).asked, RetryAfterCap)
      BY DEF Delays
    <3>4. Last(wire').asked # NoRetryAfter =>
             Last(wire').ended + Least(Last(wire').asked, RetryAfterCap) <= wake'
      BY <1>1, <1>2, <2>3, <3>1, <3>2, <3>3 DEF Request, TypeOK
    <3>5. QED
      BY <1>2, <1>3, <1>4, <1>5, <1>6, <1>8, <1>11, <2>3, <3>2, <3>4, SleepKeeps DEF Fits
  <2>4. QED
    BY <2>1, <2>2, <2>3
<1>12. QED
  BY <1>9, <1>10, <1>11 DEF Discarded

\* The body of a dropped answer is cancelled, a body is parsed, or fails.
LEMMA BodyKeeps ==
  ASSUME CallInv, Dropped \/ Parse \/ BodyFails
  PROVE  CallInv'
<1>1. /\ TypeOK /\ ReceiptPerRequest /\ LastOK /\ AbortOK /\ RetriesAreEarned
  BY DEF CallInv
<1>2. /\ phase \in {"dropping", "parsing", "reading"}
      /\ UNCHANGED <<now, abortedIn, attempt, fired, wake, discarded>>
  BY DEF Dropped, Parse, BodyFails
<1>3. attempt = Len(wire) /\ attempt \in 1..MaxAttempts
  BY <1>1, <1>2 DEF ReceiptPerRequest, LastOK, TypeOK
<1>4. /\ \A code \in FailureCodes :
            /\ Failed(code) \in Outcome /\ Failed(code).code = code
            /\ Failed(code) # Retryable(code)
      /\ {"CANCELED", "INVALID_RESPONSE", "MODEL_DRIFT"} \subseteq FailureCodes
  BY OutcomeTypes DEF FailureCodes, Failed, Retryable
<1>5. CASE Dropped
  <2>1. wire' = wire /\ RetriesAreEarned'
    BY <1>1, <1>5 DEF Dropped, RetriesAreEarned
  <2>2. Aborted
    BY <1>1, <1>5 DEF Dropped, AbortOK, Aborted
  <2>3. QED
    BY <1>1, <1>2, <1>3, <1>4, <1>5, <2>1, <2>2, NotedSettles DEF Dropped, TypeOK
<1>6. CASE Parse
  <2>1. wire' = wire /\ RetriesAreEarned' /\ Last(wire').end = "ok"
    BY <1>1, <1>6 DEF Parse, RetriesAreEarned, LastOK
  <2> DEFINE judged == [code |-> "judged", retryable |-> FALSE]
  <2>2. /\ judged \in Outcome /\ judged.code = "judged" /\ judged # Retryable("judged")
        /\ phase = "parsing" /\ wire' \in Seq(Request) /\ Len(wire') = attempt
        /\ "ok" \notin TransientEnds
    BY <1>1, <1>3, <1>6, <2>1, OutcomeTypes DEF Parse, TypeOK, Retryable, TransientEnds
  <2>3. PICK told \in {judged, Failed("INVALID_RESPONSE"), Failed("MODEL_DRIFT")} :
          Settle(told) /\ Note("none")
    BY <1>6 DEF Parse
  <2>4. /\ told \in Outcome /\ told # Retryable(told.code) /\ told.code # "CANCELED"
    BY <1>4, <2>2, <2>3
  <2>5. QED
    BY <1>2, <2>1, <2>2, <2>3, <2>4, NotedSettles
<1>7. CASE BodyFails
  <2>1. PICK end \in {"oversized", "body reset"} : wire' = Ending(end, NoRetryAfter)
    BY <1>7 DEF BodyFails
  <2>2. end \in Ends /\ end \notin TransientEnds
    BY <2>1 DEF Ends, Answers, TransientEnds
  <2>3. wire \in Seq(Request) /\ wire # <<>> /\ now \in Nat /\ attempt # 0
    <3>1. wire \in Seq(Request) /\ now \in Nat
      BY <1>1 DEF TypeOK
    <3>2. attempt # 0
      BY <1>1, <1>2 DEF LastOK
    <3>3. wire # <<>>
      <4>1. SUFFICES ASSUME wire = <<>> PROVE FALSE
        OBVIOUS
      <4>2. Len(wire) = 0
        BY <4>1
      <4>3. QED
        BY <1>3, <3>2, <4>2
    <3>4. QED
      BY <3>1, <3>2, <3>3
  <2>4. wire' \in Seq(Request) /\ Len(wire') = attempt /\ Last(wire').end = end
    <3> DEFINE closed == Ending(end, NoRetryAfter)
    <3>1. closed \in Seq(Request) /\ Len(closed) = attempt /\ Last(closed).end = end
      BY <1>3, <2>2, <2>3, EndingFacts
    <3>2. QED
      BY <2>1, <3>1
  <2>5. RetriesAreEarned'
    BY <1>1, <1>3, <2>1, <2>2, <2>3, EarnedStays
  <2>6. phase = "reading" /\ ~Aborted /\ Note("INVALID_RESPONSE") /\ Settle(Failed("INVALID_RESPONSE"))
    BY <1>7 DEF BodyFails
  <2>7. QED
    BY <1>2, <1>4, <2>2, <2>4, <2>5, <2>6, NotedSettles
<1>8. QED
  BY <1>5, <1>6, <1>7

\* The fetch answers.
LEMMA FetchAnswersKeeps == ASSUME CallInv, FetchAnswers PROVE CallInv'
<1>1. /\ TypeOK /\ ReceiptPerRequest /\ ClockOK /\ LastOK /\ AbortOK /\ RetriesAreEarned
  BY DEF CallInv
<1>2. /\ phase = "waiting" /\ ~Aborted /\ phase' = "answered"
      /\ UNCHANGED <<now, abortedIn, attempt, timer, fired, wake, discarded, receipts, outcome>>
  BY DEF FetchAnswers
<1>3. PICK end \in Answers, asked \in RetryAfters \cup {NoRetryAfter} : wire' = Ending(end, asked)
  BY DEF FetchAnswers
<1>4. end \in Ends /\ asked \in Nat \cup {NoRetryAfter}
  BY JudgmentAssumption DEF Ends
<1>5. attempt = Len(wire) /\ attempt \in 1..MaxAttempts
  BY <1>1, <1>2 DEF ReceiptPerRequest, LastOK, TypeOK
<1>6. wire \in Seq(Request) /\ wire # <<>> /\ now \in Nat /\ attempt # 0
  <2>1. wire \in Seq(Request) /\ now \in Nat
    BY <1>1 DEF TypeOK
  <2>2. attempt # 0 /\ Len(wire) # 0
    BY <1>5
  <2>3. QED
    BY <2>1, <2>2
<1>7. /\ wire' \in Seq(Request) /\ Len(wire') = attempt
      /\ Last(wire').end = end /\ Last(wire').ended = now
  <2> DEFINE closed == Ending(end, asked)
  <2>1. /\ closed \in Seq(Request) /\ Len(closed) = attempt
        /\ Last(closed).end = end /\ Last(closed).ended = now
    BY <1>4, <1>5, <1>6, EndingFacts
  <2>2. QED
    BY <1>3, <2>1
<1>8. RetriesAreEarned'
  BY <1>1, <1>3, <1>4, <1>5, <1>6, EarnedStays
<1>9. TypeOK' /\ ReceiptPerRequest'
  BY <1>1, <1>2, <1>5, <1>7 DEF TypeOK, Phases, ReceiptPerRequest
<1>10. ClockOK' /\ AbortOK'
  BY <1>1, <1>2 DEF ClockOK, AbortOK, SettlesInTime, Timed, CancelIsTold, Aborted
<1>11. LastOK'
  BY <1>1, <1>2, <1>3, <1>6, <1>7 DEF LastOK
<1>12. OutcomeTellsLastRequest'
  BY <1>2 DEF OutcomeTellsLastRequest
<1>13. QED
  BY <1>8, <1>9, <1>10, <1>11, <1>12 DEF CallInv

\* The last of a body, the caller's abort, the attempt's timer and the clock leave
\* the receipts and the wire alone.
LEMMA QuietKeeps ==
  ASSUME CallInv, BodyEnds \/ Abort \/ TimerFires \/ Tick
  PROVE  CallInv'
<1>1. /\ TypeOK /\ ReceiptPerRequest /\ ClockOK /\ LastOK /\ AbortOK
      /\ RetriesAreEarned /\ OutcomeTellsLastRequest
  BY DEF CallInv
<1>2. /\ UNCHANGED <<attempt, timer, wake, discarded, receipts, outcome, wire>>
      /\ phase \notin {"called", "settled"} /\ phase' # "settled"
  BY DEF BodyEnds, Abort, TimerFires, Tick
<1>3. RetriesAreEarned' /\ OutcomeTellsLastRequest'
  BY <1>1, <1>2 DEF RetriesAreEarned, OutcomeTellsLastRequest
<1>4. CASE BodyEnds
  <2>1. phase = "reading" /\ ~Aborted /\ phase' = "parsing" /\ UNCHANGED <<now, abortedIn, fired>>
    BY <1>4 DEF BodyEnds
  <2>2. TypeOK' /\ ReceiptPerRequest'
    BY <1>1, <1>2, <2>1 DEF TypeOK, Phases, ReceiptPerRequest
  <2>3. ClockOK' /\ LastOK' /\ AbortOK'
    BY <1>1, <1>2, <2>1
       DEF ClockOK, LastOK, AbortOK, SettlesInTime, Timed, CancelIsTold, Aborted
  <2>4. QED
    BY <1>3, <2>2, <2>3 DEF CallInv
<1>5. CASE Abort
  <2>1. ~Aborted /\ abortedIn' = phase /\ UNCHANGED <<now, phase, fired>>
    BY <1>5 DEF Abort
  <2>2. TypeOK' /\ ReceiptPerRequest'
    BY <1>1, <1>2, <2>1 DEF TypeOK, Phases, ReceiptPerRequest
  <2>3. ClockOK' /\ LastOK'
    BY <1>1, <1>2, <2>1 DEF ClockOK, LastOK, SettlesInTime, Timed
  <2>4. AbortOK'
    BY <1>1, <1>2, <2>1 DEF AbortOK, CancelIsTold, Aborted
  <2>5. QED
    BY <1>3, <2>2, <2>3, <2>4 DEF CallInv
<1>6. CASE TimerFires
  <2>1. fired' = TRUE /\ UNCHANGED <<now, phase, abortedIn>>
    BY <1>6 DEF TimerFires
  <2>2. TypeOK' /\ ReceiptPerRequest'
    BY <1>1, <1>2, <2>1 DEF TypeOK, ReceiptPerRequest
  <2>3. ClockOK' /\ LastOK' /\ AbortOK'
    BY <1>1, <1>2, <2>1
       DEF ClockOK, LastOK, AbortOK, SettlesInTime, Timed, CancelIsTold, Aborted
  <2>4. QED
    BY <1>3, <2>2, <2>3 DEF CallInv
<1>7. CASE Tick
  <2>1. /\ phase \in {"waiting", "reading", "discarding", "dropping", "sleeping"}
        /\ phase \in {"waiting", "reading"} => ~fired
        /\ Armed => now < timer + Slack
        /\ phase \in {"discarding", "dropping"} => now < discarded + Slack
        /\ phase = "sleeping" => now < wake + Slack
        /\ now' = now + 1 /\ UNCHANGED <<phase, abortedIn, fired>>
    BY <1>7 DEF Tick
  <2>2. TypeOK' /\ ReceiptPerRequest'
    BY <1>1, <1>2, <2>1 DEF TypeOK, ReceiptPerRequest
  <2>3. ClockOK'
    <3>1. phase \in {"waiting", "reading"} => now < timer + Slack
      BY <1>1, <2>1 DEF ClockOK, Timed, Armed
    <3>2. QED
      BY <1>1, <1>2, <2>1, <3>1, JudgmentAssumption DEF ClockOK, SettlesInTime, Timed, TypeOK
  <2>4. LastOK'
    <3>1. phase = "discarding" => Last(wire) \in Request
      BY <1>1, <1>2 DEF TypeOK, ReceiptPerRequest, LastOK, Last
    <3>2. QED
      BY <1>1, <1>2, <2>1, <3>1 DEF LastOK, TypeOK, Request
  <2>5. AbortOK'
    BY <1>1, <1>2, <2>1 DEF AbortOK, CancelIsTold, Aborted
  <2>6. QED
    BY <1>3, <2>2, <2>3, <2>4, <2>5 DEF CallInv
<1>8. QED
  BY <1>4, <1>5, <1>6, <1>7

-----------------------------------------------------------------------------
(* The theorems *)

\* CallInv holds of every call: it holds before the first request and each step of
\* evaluate, of its caller, its timers and its clock keeps it.
LEMMA CallInvariance == Spec => []CallInv
<1>1. Init => CallInv
  <2> SUFFICES ASSUME Init PROVE CallInv
    OBVIOUS
  <2>1. Pending \in Outcome
    BY OutcomeTypes
  <2>2. TypeOK
    <3>1. /\ now \in Nat /\ attempt \in 0..MaxAttempts /\ discarded \in Nat
          /\ timer \in 0..RunDeadline /\ wake \in 0..RunDeadline
      BY JudgmentAssumption DEF Init
    <3>2. phase \in Phases /\ abortedIn \in Phases \cup {"never"} /\ fired \in BOOLEAN
      BY DEF Init, Phases
    <3>3. outcome \in Outcome /\ receipts \in Seq(Receipt) /\ wire \in Seq(Request)
      BY <2>1 DEF Init
    <3>4. QED
      BY <3>1, <3>2, <3>3 DEF TypeOK
  <2>3. ReceiptPerRequest /\ RetriesAreEarned /\ OutcomeTellsLastRequest
    BY DEF Init, ReceiptPerRequest, RetriesAreEarned, OutcomeTellsLastRequest
  <2>4. ClockOK /\ LastOK /\ AbortOK
    BY JudgmentAssumption
       DEF Init, ClockOK, LastOK, AbortOK, SettlesInTime, CancelIsTold, Timed
  <2>5. QED
    BY <2>2, <2>3, <2>4 DEF CallInv
<1>2. CallInv /\ [Next]_vars => CallInv'
  <2> SUFFICES ASSUME CallInv, [Next]_vars PROVE CallInv'
    OBVIOUS
  <2>1. CASE Start
    <3>1. CASE StartAttempt /\ UNCHANGED <<now, abortedIn, wake, discarded, receipts>>
      BY <2>1, <3>1, StartAttemptKeeps DEF Start
    <3>2. CASE /\ ~Aborted /\ Settle(Failed("CONFIGURATION"))
               /\ UNCHANGED <<attempt, fired, wire, now, abortedIn, wake, discarded, receipts>>
      <4>1. Failed("CONFIGURATION") \in Outcome /\ Failed("CONFIGURATION").code # "CANCELED"
        BY OutcomeTypes DEF FailureCodes, Failed
      <4>2. /\ TypeOK /\ ReceiptPerRequest /\ ClockOK /\ RetriesAreEarned
            /\ phase = "called" /\ attempt = 0
        BY <2>1 DEF CallInv, Start, ClockOK
      <4>3. TypeOK' /\ ReceiptPerRequest' /\ RetriesAreEarned'
        BY <3>2, <4>1, <4>2, JudgmentAssumption
           DEF TypeOK, ReceiptPerRequest, RetriesAreEarned, Settle, Phases
      <4>4. ClockOK' /\ LastOK'
        BY <3>2, <4>2 DEF ClockOK, LastOK, Settle, SettlesInTime, Timed
      <4>5. AbortOK' /\ OutcomeTellsLastRequest'
        BY <3>2, <4>1, <4>2 DEF AbortOK, CancelIsTold, OutcomeTellsLastRequest, Settle, Aborted
      <4>6. QED
        BY <4>3, <4>4, <4>5 DEF CallInv
    <3>3. QED
      BY <2>1, <3>1, <3>2 DEF Start
  <2>2. CASE Wake
    BY <2>2, StartAttemptKeeps DEF Wake
  <2>3. CASE FetchFails
    BY <2>3, CatchKeeps DEF FetchFails
  <2>4. CASE BodyAborted
    BY <2>4, CatchKeeps DEF BodyAborted
  <2>5. CASE UNCHANGED vars
    <3>1. /\ TypeOK' /\ ReceiptPerRequest' /\ RetriesAreEarned' /\ OutcomeTellsLastRequest'
      BY <2>5 DEF CallInv, vars, TypeOK, ReceiptPerRequest, RetriesAreEarned,
                  OutcomeTellsLastRequest
    <3>2. ClockOK' /\ LastOK' /\ AbortOK'
      BY <2>5 DEF CallInv, vars, ClockOK, LastOK, AbortOK, SettlesInTime, CancelIsTold, Aborted
    <3>3. QED
      BY <3>1, <3>2 DEF CallInv
  <2>6. QED
    BY <2>1, <2>2, <2>3, <2>4, <2>5, AnswerKeeps, DiscardedKeeps, BodyKeeps,
       FetchAnswersKeeps, QuietKeeps DEF Next
<1>3. QED
  BY <1>1, <1>2, PTL DEF Spec

\* The state of a call always has its type.
THEOREM CallTypes == Spec => []TypeOK
BY CallInvariance, PTL DEF CallInv

\* Every request that left has one receipt, in order, but for the one in flight.
THEOREM ReceiptPerRequestHolds == Spec => []ReceiptPerRequest
BY CallInvariance, PTL DEF CallInv

\* What the caller is told, and whether it is retryable, is what became of the last
\* request.
THEOREM OutcomeTellsLastRequestHolds == Spec => []OutcomeTellsLastRequest
BY CallInvariance, PTL DEF CallInv

\* A request is repeated only after an end that may not last, before the deadline,
\* and no sooner after a Retry-After than the smaller of what it asked for and the cap.
THEOREM RetriesAreEarnedHolds == Spec => []RetriesAreEarned
BY CallInvariance, PTL DEF CallInv

\* A caller that aborted is told so, unless the call had its answer by then.
THEOREM CancelIsToldHolds == Spec => []CancelIsTold
<1>1. CallInv => CancelIsTold
  BY DEF CallInv, AbortOK
<1>2. QED
  BY <1>1, CallInvariance, PTL

\* Both together: the caller's outcome is honest.
THEOREM OutcomeIsHonestHolds == Spec => []OutcomeIsHonest
<1>1. CallInv => OutcomeIsHonest
  BY DEF CallInv, AbortOK, OutcomeIsHonest
<1>2. QED
  BY <1>1, CallInvariance, PTL

\* No call outlasts its deadline by more than two late timers.
THEOREM SettlesInTimeHolds == Spec => []SettlesInTime
<1>1. CallInv => SettlesInTime
  BY DEF CallInv, ClockOK
<1>2. QED
  BY <1>1, CallInvariance, PTL
=============================================================================
