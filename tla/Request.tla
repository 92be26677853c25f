------------------------------- MODULE Request -------------------------------
(***************************************************************************)
(* One call of Client.raw (src/internal/scm/bitbucketdc/client.go): a GET  *)
(* sent, answered and retried, under a context that may be cancelled at    *)
(* any moment, with every request reported to Options.OnRequest.           *)
(***************************************************************************)
EXTENDS Naturals, Sequences

CONSTANTS
  MaxRetries,  \* Client.maxRetries
  RetryAfters  \* the Retry-After values the instance may send, in seconds

ASSUME RequestAssumption ==
  /\ MaxRetries \in Nat
  /\ RetryAfters \subseteq Nat

(* How an attempt ends: with a 2xx; with a 429 or 5xx; with a body that     *)
(* breaks off; without a response; without one for a reason that will not  *)
(* change (a certificate, a redirect elsewhere); with any other 4xx.       *)
Success   == "2xx"
Transient == {"throttled", "truncated", "unreachable"}
Final     == {"4xx", "deterministic"}
Answers   == {Success} \cup Transient \cup Final

MinOf(a, b) == IF a <= b THEN a ELSE b

(* backoff without its jitter, which only subtracts: 1s, 2s, 4s, ... up to *)
(* the 16s ceiling, the exponent clamped before the shift.                 *)
Backoff(attempt) == 2 ^ MinOf(attempt - 1, 4)

(* Mutation: the instance is taken at its word. *)
RetryAfterUncapped(secs) == secs

(* retryAfter caps what the instance asks for. *)
RetryAfter(secs) == MinOf(secs, 60)

VARIABLES
  pc,        \* where raw is
  attempt,   \* its loop counter
  delay,     \* seconds the present sleep lasts at most
  lastErr,   \* the answer behind lastErr, or "none"
  result,    \* what raw returned
  cancelled, \* the context
  sent,      \* requests put on the wire
  answers,   \* the answers read, in order
  events     \* the attempt numbers handed to OnRequest, in order
vars == <<pc, attempt, delay, lastErr, result, cancelled, sent, answers, events>>

Init ==
  /\ pc = "sending"
  /\ attempt = 0
  /\ delay = 0
  /\ lastErr = "none"
  /\ result = "none"
  /\ cancelled = FALSE
  /\ sent = 0
  /\ answers = <<>>
  /\ events = <<>>

Cancel ==
  /\ pc # "returned" /\ ~cancelled
  /\ cancelled' = TRUE
  /\ UNCHANGED <<pc, attempt, delay, lastErr, result, sent, answers, events>>

Return(what) ==
  /\ pc' = "returned"
  /\ result' = what

(* httpClient.Do: the request goes out unless the context is already done, *)
(* which the transport checks first.                                       *)
Send ==
  /\ pc = "sending" /\ ~cancelled
  /\ sent' = sent + 1
  /\ pc' = "inflight"
  /\ UNCHANGED <<attempt, delay, lastErr, result, cancelled, answers, events>>

(* Mutation: nothing was sent, so the attempt is made again. *)
SendCancelledAgain ==
  /\ pc = "sending" /\ cancelled
  /\ pc' = "backoff"
  /\ delay' = Backoff(attempt + 1)
  /\ UNCHANGED <<attempt, lastErr, result, cancelled, sent, answers, events>>

SendCancelled ==
  /\ pc = "sending" /\ cancelled
  /\ Return("cancelled")
  /\ UNCHANGED <<attempt, delay, lastErr, cancelled, sent, answers, events>>

(* The context ends while Do waits: raw returns without an event. *)
InFlightCancelled ==
  /\ pc = "inflight" /\ cancelled
  /\ Return("cancelled")
  /\ UNCHANGED <<attempt, delay, lastErr, cancelled, sent, answers, events>>

(* Mutation: an attempt without a response is not reported. *)
AnsweredUnheard(a) ==
  /\ pc = "inflight"
  /\ answers' = Append(answers, a)
  /\ events' = IF a = "unreachable" THEN events ELSE Append(events, attempt)

(* The attempt ends with answer a, and OnRequest hears of it. *)
Answered(a) ==
  /\ pc = "inflight"
  /\ answers' = Append(answers, a)
  /\ events' = Append(events, attempt)

Succeed ==
  /\ Answered(Success)
  /\ Return("body")
  /\ UNCHANGED <<attempt, delay, lastErr, cancelled, sent>>

(* Mutation: one retry too many. *)
NextAttemptTooMany(err) ==
  IF attempt <= MaxRetries
  THEN /\ attempt' = attempt + 1
       /\ delay' = Backoff(attempt + 1)
       /\ pc' = "backoff"
       /\ UNCHANGED result
  ELSE /\ Return(err)
       /\ UNCHANGED <<attempt, delay>>

(* The end of the loop body: the next attempt's backoff, or the last error. *)
NextAttempt(err) ==
  IF attempt < MaxRetries
  THEN /\ attempt' = attempt + 1
       /\ delay' = Backoff(attempt + 1)
       /\ pc' = "backoff"
       /\ UNCHANGED result
  ELSE /\ Return(err)
       /\ UNCHANGED <<attempt, delay>>

(* Mutation: a refusal is treated like any other error. *)
GiveUpRetries(a) ==
  /\ Answered(a)
  /\ NextAttempt(a)
  /\ UNCHANGED <<lastErr, cancelled, sent>>

(* An answer that would be the same next time is not asked for again.      *)
(* Without a response, a cancelled context comes first.                    *)
GiveUp(a) ==
  /\ a = "deterministic" => ~cancelled
  /\ Answered(a)
  /\ Return(a)
  /\ UNCHANGED <<attempt, delay, lastErr, cancelled, sent>>

(* Mutation: the first error is the one remembered. *)
RetryFirstError(a) ==
  /\ Answered(a)
  /\ lastErr' = IF lastErr = "none" THEN a ELSE lastErr
  /\ NextAttempt(lastErr')
  /\ UNCHANGED <<cancelled, sent>>

(* Anything transient is remembered and tried again. *)
Retry(a) ==
  /\ a = "unreachable" => ~cancelled
  /\ Answered(a)
  /\ lastErr' = a
  /\ NextAttempt(a)
  /\ UNCHANGED <<cancelled, sent>>

(* A throttled answer may also say how long to stay away; that wait comes  *)
(* before the backoff, and after the last attempt too.                     *)
Throttled(secs) ==
  /\ Answered("throttled")
  /\ lastErr' = "throttled"
  /\ delay' = RetryAfter(secs)
  /\ pc' = "waiting"
  /\ UNCHANGED <<attempt, result, cancelled, sent>>

ToldToWaitOver ==
  /\ pc = "waiting"
  /\ NextAttempt(lastErr)
  /\ UNCHANGED <<lastErr, cancelled, sent, answers, events>>

(* Both sleeps end early on a cancelled context; if the timer fires in the *)
(* same instant either branch of the select may run.                       *)
SleepCancelled ==
  /\ pc \in {"waiting", "backoff"} /\ cancelled
  /\ Return("cancelled")
  /\ UNCHANGED <<attempt, delay, lastErr, cancelled, sent, answers, events>>

BackoffOver ==
  /\ pc = "backoff"
  /\ pc' = "sending"
  /\ UNCHANGED <<attempt, delay, lastErr, result, cancelled, sent, answers, events>>

Step ==
  \/ Send \/ SendCancelled \/ InFlightCancelled
  \/ Succeed
  \/ \E a \in Final : GiveUp(a)
  \/ \E a \in Transient : Retry(a)
  \/ \E secs \in RetryAfters : Throttled(secs)
  \/ ToldToWaitOver \/ SleepCancelled \/ BackoffOver

Returned == pc = "returned" /\ UNCHANGED vars

Next == Cancel \/ Step \/ Returned

Spec == Init /\ [][Next]_vars

(* An attempt is answered or runs into http.Client.Timeout, and timers     *)
(* fire; nothing says the context is ever cancelled.                       *)
FairSpec == Spec /\ WF_vars(Step)

-----------------------------------------------------------------------------
TypeOK ==
  /\ pc \in {"sending", "inflight", "waiting", "backoff", "returned"}
  /\ attempt \in 0..MaxRetries
  /\ delay \in Nat
  /\ lastErr \in {"none"} \cup Transient
  /\ result \in {"none", "body", "cancelled"} \cup Final \cup Transient
  /\ cancelled \in BOOLEAN
  /\ sent \in 0..(MaxRetries + 1)
  /\ answers \in Seq(Answers)
  /\ events \in Seq(0..MaxRetries)

(* OnRequest hears of every answer exactly once and in order, numbered by  *)
(* attempt from 0: what the tracer's totals and its "retry n" marks rest   *)
(* on, whichever of the exits the call takes.                              *)
OneEventPerAnswer ==
  /\ Len(events) = Len(answers)
  /\ \A i \in DOMAIN events : events[i] = i - 1

(* Only a transient answer is followed by another request: a refusal that  *)
(* will not change is never retried, nor a success asked for twice.        *)
OnlyTransientRetried ==
  /\ \A i \in 1..(Len(answers) - 1) : answers[i] \in Transient
  /\ pc \notin {"inflight", "returned"} =>
       \A i \in DOMAIN answers : answers[i] \in Transient

(* What raw returns is what the instance said last: a body only after a    *)
(* success, an error that names the last answer otherwise, and a transient *)
(* one only once every retry is used up.                                   *)
ResultTellsTheTruth ==
  /\ result = "body" => answers # <<>> /\ answers[Len(answers)] = Success
  /\ result \in Final \cup Transient => answers # <<>> /\ answers[Len(answers)] = result
  /\ result \in Transient => Len(answers) = MaxRetries + 1
  /\ result = "cancelled" => cancelled

(* No answer is overruled, by another request or by what is returned. *)
AnswersAreHeeded == OnlyTransientRetried /\ ResultTellsTheTruth

(* The budget: one request and at most MaxRetries more, and at most one of *)
(* them without an answer.                                                 *)
WithinBudget == sent <= MaxRetries + 1 /\ sent - Len(answers) \in {0, 1}

(* No single sleep outlasts a minute, whatever the instance asks for and   *)
(* however many retries a caller of the package configures: a scan that is *)
(* told to wait an hour ends in an error and does not hang.                *)
NoLongSleep == delay <= 60 /\ (pc = "backoff" => delay <= 16)

(* A call is bounded in requests and in time whatever the instance answers: *)
(* both bounds hold over any chain of retries.                             *)
CallsAreBounded == WithinBudget /\ NoLongSleep

(* The call returns: retries and sleeps run out. *)
Returns == <>(pc = "returned")
==============================================================================
