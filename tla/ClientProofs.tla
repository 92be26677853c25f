----------------------------- MODULE ClientProofs -----------------------------
(***************************************************************************)
(* The HTTP client: Request, one call of raw, and Paging, one walk of      *)
(* getPaged, whose pages are such calls.                                   *)
(***************************************************************************)
EXTENDS Request, Paging, FiniteSetTheorems, TLAPS

-----------------------------------------------------------------------------
(* Request, for every number of retries and every Retry-After.  The        *)
(* invariants the runs check say what holds at the end of a call; what     *)
(* makes them inductive is where the call is on its way there (Position)   *)
(* and what it remembers of the answers behind it (Memory).                *)

(* How attempts, requests and answers keep step. *)
Position ==
  /\ pc = "sending" => sent = attempt /\ Len(answers) = attempt
  /\ pc = "backoff" => sent = attempt /\ Len(answers) = attempt
  /\ pc = "inflight" => sent = attempt + 1 /\ Len(answers) = attempt
  /\ pc = "waiting" => sent = attempt + 1 /\ Len(answers) = attempt + 1
  /\ sent <= MaxRetries + 1
  /\ sent = Len(answers) \/ sent = Len(answers) + 1

(* A call still under way has heard nothing but transient answers, and     *)
(* lastErr is the last of them when it is about to be used.                *)
Memory ==
  /\ pc # "returned" => result = "none"
  /\ pc # "returned" => \A i \in DOMAIN answers : answers[i] \in Transient
  /\ pc = "waiting" => lastErr = answers[Len(answers)] /\ lastErr \in Transient

IInv ==
  /\ TypeOK
  /\ Position
  /\ Memory
  /\ OneEventPerAnswer
  /\ OnlyTransientRetried
  /\ ResultTellsTheTruth
  /\ NoLongSleep

(* The sleeps are whole seconds from 1 to 16, and at most a minute. *)
LEMMA BackoffBound == \A n \in Nat \ {0} : Backoff(n) \in 1..16
<1> TAKE n \in Nat \ {0}
<1>1. PICK k \in 0..4 : k = MinOf(n - 1, 4)
  BY DEF MinOf
<1>2. 2 ^ 0 = 1 /\ 2 ^ 1 = 2 /\ 2 ^ 2 = 4 /\ 2 ^ 3 = 8 /\ 2 ^ 4 = 16
  OBVIOUS
<1>3. k = 0 \/ k = 1 \/ k = 2 \/ k = 3 \/ k = 4
  OBVIOUS
<1>4. \/ 2 ^ k = 2 ^ 0 \/ 2 ^ k = 2 ^ 1 \/ 2 ^ k = 2 ^ 2
      \/ 2 ^ k = 2 ^ 3 \/ 2 ^ k = 2 ^ 4
  BY <1>3, Zenon
<1>5. 2 ^ k \in 1..16
  BY <1>2, <1>4
<1> QED
  BY <1>1, <1>5 DEF Backoff

(* retryAfter never asks for more than a minute. *)
LEMMA RetryAfterBound == \A secs \in RetryAfters : RetryAfter(secs) \in 0..60
BY RequestAssumption DEF RetryAfter, MinOf

(* One more answer at the end of the list. *)
LEMMA AppendFacts ==
  ASSUME NEW S, NEW s \in Seq(S), NEW e \in S
  PROVE  /\ Append(s, e) \in Seq(S)
         /\ Len(Append(s, e)) = Len(s) + 1
         /\ Append(s, e)[Len(s) + 1] = e
         /\ \A i \in 1..Len(s) : Append(s, e)[i] = s[i]
         /\ DOMAIN s = 1..Len(s) /\ DOMAIN Append(s, e) = 1..(Len(s) + 1)
         /\ Len(s) \in Nat
OBVIOUS

(* The call starts with the invariant. *)
LEMMA InitIInv == Init => IInv
<1> SUFFICES ASSUME Init PROVE IInv
  OBVIOUS
<1>1. TypeOK
  <2>1. cancelled \in BOOLEAN
    BY DEF Init
  <2>2. /\ attempt \in 0..MaxRetries /\ sent \in 0..(MaxRetries + 1) /\ delay \in Nat
        /\ answers \in Seq(Answers) /\ events \in Seq(0..MaxRetries)
        /\ pc = "sending" /\ lastErr = "none" /\ result = "none"
    BY RequestAssumption DEF Init
  <2> QED
    BY <2>1, <2>2 DEF TypeOK
<1>2. Len(answers) = 0 /\ Len(events) = 0 /\ DOMAIN answers = {} /\ DOMAIN events = {}
  BY DEF Init
<1>3. Position /\ Memory /\ NoLongSleep
  BY <1>2, RequestAssumption DEF Init, Position, Memory, NoLongSleep
<1>4. OneEventPerAnswer /\ OnlyTransientRetried /\ ResultTellsTheTruth
  BY <1>2 DEF Init, OneEventPerAnswer, OnlyTransientRetried, ResultTellsTheTruth,
     Final, Transient
<1> QED
  BY <1>1, <1>3, <1>4 DEF IInv

(* An answer is appended and reported; whatever the call does next, the    *)
(* lists stay in step.                                                     *)
LEMMA AnsweredFacts ==
  ASSUME IInv, NEW a \in Answers, Answered(a)
  PROVE  /\ answers' \in Seq(Answers) /\ events' \in Seq(0..MaxRetries)
         /\ Len(answers') = attempt + 1
         /\ DOMAIN answers' = 1..(attempt + 1)
         /\ answers'[attempt + 1] = a
         /\ \A i \in 1..attempt : answers'[i] \in Transient
         /\ OneEventPerAnswer'
         /\ sent = attempt + 1 /\ attempt \in 0..MaxRetries
         /\ result = "none"
<1>1. /\ attempt \in 0..MaxRetries /\ answers \in Seq(Answers)
      /\ events \in Seq(0..MaxRetries)
      /\ sent = attempt + 1 /\ Len(answers) = attempt /\ Len(events) = attempt
      /\ result = "none"
      /\ \A i \in DOMAIN answers : answers[i] \in Transient
      /\ \A i \in DOMAIN events : events[i] = i - 1
  BY DEF IInv, TypeOK, Position, Memory, OneEventPerAnswer, Answered
<1>2. /\ answers' = Append(answers, a) /\ events' = Append(events, attempt)
  BY DEF Answered
<1>3. /\ answers' \in Seq(Answers)
      /\ Len(answers') = attempt + 1
      /\ DOMAIN answers' = 1..(attempt + 1)
      /\ answers'[attempt + 1] = a
      /\ \A i \in 1..attempt : answers'[i] = answers[i]
      /\ DOMAIN answers = 1..attempt
  BY <1>1, <1>2, AppendFacts
<1>4. /\ events' \in Seq(0..MaxRetries)
      /\ Len(events') = attempt + 1
      /\ DOMAIN events' = 1..(attempt + 1)
      /\ events'[attempt + 1] = attempt
      /\ \A i \in 1..attempt : events'[i] = events[i]
      /\ DOMAIN events = 1..attempt
  BY <1>1, <1>2, AppendFacts
<1>5. \A i \in DOMAIN events' : events'[i] = i - 1
  <2> TAKE i \in DOMAIN events'
  <2>1. i \in 1..attempt \/ i = attempt + 1
    BY <1>1, <1>4
  <2> QED
    BY <2>1, <1>1, <1>4
<1> QED
  BY <1>1, <1>3, <1>4, <1>5 DEF OneEventPerAnswer

(* Return, after an answer that ends the call. *)
LEMMA StepSettled ==
  ASSUME IInv, NEW a \in {Success} \cup Final, Answered(a),
         Return(IF a = Success THEN "body" ELSE a),
         UNCHANGED <<attempt, delay, lastErr, cancelled, sent>>
  PROVE  IInv'
<1>1. a \in Answers /\ a \notin Transient
  BY DEF Answers, Success, Final, Transient
<1> DEFINE what == IF a = Success THEN "body" ELSE a
<1>2. /\ pc' = "returned" /\ result' = what
      /\ what \in {"body"} \cup Final /\ what \notin Transient /\ what # "cancelled"
      /\ what = "body" => a = Success
      /\ what \in Final => a = what
  BY DEF Return, Success, Final, Transient
<1> HIDE DEF what
<1>3. TypeOK'
  BY <1>1, <1>2, AnsweredFacts DEF IInv, TypeOK
<1>4. Position'
  <2>1. Len(answers') = attempt + 1 /\ sent = attempt + 1 /\ attempt \in 0..MaxRetries
    BY <1>1, AnsweredFacts
  <2> QED
    BY <1>2, <2>1, RequestAssumption DEF Position
<1>5. Memory' /\ NoLongSleep'
  BY <1>2 DEF Memory, IInv, NoLongSleep
<1>6. OneEventPerAnswer' /\ OnlyTransientRetried'
  BY <1>1, <1>2, AnsweredFacts DEF OnlyTransientRetried
<1>7. answers' # <<>> /\ answers'[Len(answers')] = a
  BY <1>1, AnsweredFacts
<1>8. ResultTellsTheTruth'
  BY <1>2, <1>7 DEF ResultTellsTheTruth, Final
<1> QED
  BY <1>3, <1>4, <1>5, <1>6, <1>8 DEF IInv

(* The end of the loop body, after a transient answer: once it has been    *)
(* remembered, the call backs off or hands it on.                          *)
LEMMA NextAttemptKeeps ==
  ASSUME IInv, NEW e \in Transient, NextAttempt(e),
         answers' \in Seq(Answers), events' \in Seq(0..MaxRetries),
         Len(answers') = attempt + 1, DOMAIN answers' = 1..(attempt + 1),
         answers'[attempt + 1] = e,
         \A i \in 1..attempt : answers'[i] \in Transient,
         OneEventPerAnswer', sent = attempt + 1, sent' = sent,
         result = "none", lastErr' = e, cancelled' = cancelled
  PROVE  IInv'
<1>1. attempt \in 0..MaxRetries /\ delay \in Nat /\ delay <= 60 /\ MaxRetries \in Nat
  BY RequestAssumption DEF IInv, TypeOK, NoLongSleep
<1>2. \A i \in DOMAIN answers' : answers'[i] \in Transient
  <2> TAKE i \in DOMAIN answers'
  <2>1. i \in 1..attempt \/ i = attempt + 1
    BY <1>1
  <2> QED
    BY <2>1
<1>3. CASE attempt < MaxRetries
  <2>1. /\ attempt' = attempt + 1 /\ pc' = "backoff" /\ result' = "none"
        /\ delay' \in 1..16
    <3>1. Backoff(attempt + 1) \in 1..16
      BY <1>1, BackoffBound
    <3> QED
      BY <1>1, <1>3, <3>1 DEF NextAttempt
  <2>2. TypeOK'
    <3>1. attempt' \in 0..MaxRetries /\ delay' \in Nat /\ sent' \in 0..(MaxRetries + 1)
      BY <1>1, <1>3, <2>1
    <3> QED
      BY <2>1, <3>1 DEF IInv, TypeOK
  <2>3. Position' /\ Memory' /\ NoLongSleep'
    BY <1>1, <1>2, <1>3, <2>1 DEF Position, Memory, NoLongSleep
  <2>4. OnlyTransientRetried' /\ ResultTellsTheTruth'
    BY <1>1, <1>2, <2>1 DEF OnlyTransientRetried, ResultTellsTheTruth, Final, Transient
  <2> QED
    BY <2>2, <2>3, <2>4 DEF IInv
<1>4. CASE attempt = MaxRetries
  <2>1. /\ attempt' = attempt /\ pc' = "returned" /\ result' = e /\ delay' = delay
    BY <1>1, <1>4 DEF NextAttempt, Return
  <2>2. e \notin Final /\ e # "body" /\ e # "cancelled"
    BY DEF Final, Transient
  <2>3. TypeOK'
    BY <1>1, <2>1 DEF IInv, TypeOK
  <2>4. Position' /\ Memory' /\ NoLongSleep'
    BY <1>1, <1>4, <2>1 DEF Position, Memory, NoLongSleep
  <2>5. OnlyTransientRetried'
    BY <1>1, <1>2, <2>1 DEF OnlyTransientRetried
  <2>6. answers' # <<>> /\ answers'[Len(answers')] = e
    BY <1>1
  <2>7. ResultTellsTheTruth'
    BY <1>1, <1>4, <2>1, <2>2, <2>6 DEF ResultTellsTheTruth
  <2> QED
    BY <2>3, <2>4, <2>5, <2>7 DEF IInv
<1> QED
  BY <1>1, <1>3, <1>4

(* A transient answer that is tried again, or was the last one allowed. *)
LEMMA StepRetry ==
  ASSUME IInv, NEW a \in Transient, Retry(a)
  PROVE  IInv'
<1>1. a \in Answers /\ Answered(a)
  BY DEF Answers, Retry
<1>2. /\ NextAttempt(a) /\ lastErr' = a /\ sent' = sent /\ cancelled' = cancelled
  BY DEF Retry
<1> QED
  BY <1>1, <1>2, AnsweredFacts, NextAttemptKeeps

(* A throttled answer with a Retry-After. *)
LEMMA StepThrottled ==
  ASSUME IInv, NEW secs \in RetryAfters, Throttled(secs)
  PROVE  IInv'
<1> DEFINE a == "throttled"
<1>1. a \in Answers /\ a \in Transient /\ Answered(a)
  BY DEF Answers, Transient, Throttled
<1>2. /\ lastErr' = a /\ pc' = "waiting" /\ delay' \in 0..60
      /\ attempt' = attempt /\ result' = result /\ cancelled' = cancelled /\ sent' = sent
  BY RetryAfterBound DEF Throttled
<1> HIDE DEF a
<1>3. \A i \in DOMAIN answers' : answers'[i] \in Transient
  <2> TAKE i \in DOMAIN answers'
  <2>1. i \in 1..attempt \/ i = attempt + 1
    BY <1>1, AnsweredFacts
  <2> QED
    BY <2>1, <1>1, AnsweredFacts
<1>4. TypeOK'
  BY <1>1, <1>2, AnsweredFacts DEF IInv, TypeOK
<1>5. Position' /\ Memory' /\ NoLongSleep'
  BY <1>1, <1>2, <1>3, AnsweredFacts, RequestAssumption
     DEF Position, Memory, NoLongSleep
<1>6. OneEventPerAnswer' /\ OnlyTransientRetried' /\ ResultTellsTheTruth'
  BY <1>1, <1>2, <1>3, AnsweredFacts
     DEF OnlyTransientRetried, ResultTellsTheTruth, Final, Transient
<1> QED
  BY <1>4, <1>5, <1>6 DEF IInv

(* The end of that wait. *)
LEMMA StepToldToWaitOver ==
  ASSUME IInv, ToldToWaitOver
  PROVE  IInv'
<1>1. /\ pc = "waiting" /\ NextAttempt(lastErr) /\ lastErr' = lastErr
      /\ answers' = answers /\ events' = events /\ sent' = sent
      /\ cancelled' = cancelled
  BY DEF ToldToWaitOver
<1>2. /\ lastErr \in Transient /\ lastErr = answers[Len(answers)]
      /\ Len(answers) = attempt + 1 /\ sent = attempt + 1 /\ result = "none"
      /\ answers \in Seq(Answers) /\ events \in Seq(0..MaxRetries)
      /\ \A i \in DOMAIN answers : answers[i] \in Transient
      /\ attempt \in 0..MaxRetries /\ OneEventPerAnswer
  BY <1>1 DEF IInv, TypeOK, Position, Memory
<1>3. DOMAIN answers = 1..(attempt + 1) /\ \A i \in 1..attempt : i \in DOMAIN answers
  BY <1>2
<1>4. OneEventPerAnswer'
  BY <1>1, <1>2 DEF OneEventPerAnswer
<1> QED
  BY <1>1, <1>2, <1>3, <1>4, NextAttemptKeeps

(* Every step that returns on the cancelled context. *)
LEMMA StepCancelled ==
  ASSUME IInv, pc # "returned", cancelled, Return("cancelled"),
         UNCHANGED <<attempt, delay, lastErr, cancelled, sent, answers, events>>
  PROVE  IInv'
<1>1. pc' = "returned" /\ result' = "cancelled"
  BY DEF Return
<1>2. TypeOK' /\ Position' /\ Memory' /\ NoLongSleep'
  BY <1>1 DEF IInv, TypeOK, Position, Memory, NoLongSleep
<1>3. OneEventPerAnswer' /\ OnlyTransientRetried' /\ ResultTellsTheTruth'
  BY <1>1 DEF IInv, OneEventPerAnswer, OnlyTransientRetried, ResultTellsTheTruth,
     Final, Transient
<1> QED
  BY <1>2, <1>3 DEF IInv

(* Every step keeps the invariant. *)
LEMMA StepIInv ==
  ASSUME IInv, [Next]_vars
  PROVE  IInv'
<1>1. CASE Cancel \/ Send \/ BackoffOver
  <2>1. TypeOK'
    <3>1. cancelled' \in BOOLEAN
      BY <1>1 DEF Cancel, Send, BackoffOver, IInv, TypeOK
    <3>2. sent' \in 0..(MaxRetries + 1)
      BY <1>1, RequestAssumption DEF Cancel, Send, BackoffOver, IInv, TypeOK, Position
    <3> QED
      BY <1>1, <3>1, <3>2 DEF Cancel, Send, BackoffOver, IInv, TypeOK
  <2>2. Position' /\ Memory' /\ NoLongSleep'
    BY <1>1, RequestAssumption
       DEF Cancel, Send, BackoffOver, IInv, TypeOK, Position, Memory, NoLongSleep
  <2>3. OneEventPerAnswer' /\ OnlyTransientRetried' /\ ResultTellsTheTruth'
    BY <1>1 DEF Cancel, Send, BackoffOver, IInv, Memory, OneEventPerAnswer,
       OnlyTransientRetried, ResultTellsTheTruth, Final, Transient
  <2> QED
    BY <2>1, <2>2, <2>3 DEF IInv
<1>2. CASE SendCancelled \/ InFlightCancelled \/ SleepCancelled
  BY <1>2, StepCancelled DEF SendCancelled, InFlightCancelled, SleepCancelled
<1>3. CASE Succeed
  BY <1>3, StepSettled DEF Succeed
<1>4. ASSUME NEW a \in Final, GiveUp(a) PROVE IInv'
  <2>1. a # Success
    BY DEF Final, Success
  <2> QED
    BY <1>4, <2>1, StepSettled DEF GiveUp
<1>5. ASSUME NEW a \in Transient, Retry(a) PROVE IInv'
  BY <1>5, StepRetry
<1>6. ASSUME NEW secs \in RetryAfters, Throttled(secs) PROVE IInv'
  BY <1>6, StepThrottled
<1>7. CASE ToldToWaitOver
  BY <1>7, StepToldToWaitOver
<1>8. CASE Returned \/ UNCHANGED vars
  BY <1>8 DEF Returned, vars, IInv, TypeOK, Position, Memory, OneEventPerAnswer,
     OnlyTransientRetried, ResultTellsTheTruth, NoLongSleep
<1> QED
  BY <1>1, <1>2, <1>3, <1>4, <1>5, <1>6, <1>7, <1>8 DEF Next, Step

(* The strengthened invariant holds of every call. *)
THEOREM Invariance == Spec => []IInv
BY InitIInv, StepIInv, PTL DEF Spec

(* Every variable keeps its type; attempts never pass the budget. *)
THEOREM TypeCorrect == Spec => []TypeOK
BY Invariance, PTL DEF IInv

(* OnRequest hears of every answer once, in order. *)
THEOREM AnswersAreReported == Spec => []OneEventPerAnswer
BY Invariance, PTL DEF IInv

(* A refusal that would be the same next time is not asked for again. *)
THEOREM RefusalsAreFinal == Spec => []OnlyTransientRetried
BY Invariance, PTL DEF IInv

(* What raw returns is what the instance said last. *)
THEOREM ResultsAreTrue == Spec => []ResultTellsTheTruth
BY Invariance, PTL DEF IInv

(* No answer is overruled, by another request or by what is returned. *)
THEOREM EveryAnswerIsHeeded == Spec => []AnswersAreHeeded
BY RefusalsAreFinal, ResultsAreTrue, PTL DEF AnswersAreHeeded

(* At most MaxRetries + 1 requests, at most one of them unanswered. *)
THEOREM CallsStayWithinBudget == Spec => []WithinBudget
<1>1. IInv => WithinBudget
  BY DEF IInv, TypeOK, Position, WithinBudget
<1> QED
  BY <1>1, Invariance, PTL

(* No sleep is longer than a minute, no backoff longer than 16 seconds,    *)
(* for any MaxRetries and any Retry-After.                                 *)
THEOREM SleepsAreShort == Spec => []NoLongSleep
BY Invariance, PTL DEF IInv

(* Requests and sleeps of a call are bounded together. *)
THEOREM CallsStayBounded == Spec => []CallsAreBounded
BY CallsStayWithinBudget, SleepsAreShort, PTL DEF CallsAreBounded

-----------------------------------------------------------------------------
(* Paging, for a collection of any size, any of it hidden, any page size   *)
(* and any bound on the pages.  The heart of it is ResumesAtTheEnd: the    *)
(* walk goes on exactly where the page ended, whether the instance said so *)
(* or getPaged had to count the items it was given.                        *)

(* What getPaged holds of the collection up to position n. *)
UpTo(n) == [k \in Item |-> IF k \in Visible /\ k < n THEN 1 ELSE 0]

(* While it reads, getPaged holds what lies before start, and that once. *)
WalkInv ==
  /\ WalkTypeOK
  /\ walk = "reading" => got = UpTo(start)
  /\ CompleteIsWhole

(* A page ends between where it starts and the end of the collection. *)
LEMMA EndFacts ==
  ASSUME WalkTypeOK, NEW end \in Ends
  PROVE  start \in Nat /\ end \in Nat /\ start <= end /\ end <= Size
BY PagingAssumption DEF WalkTypeOK, Ends

(* A page nothing was left out of holds as many items as it is long. *)
LEMMA ValuesCounted ==
  ASSUME WalkTypeOK, NEW end \in Ends, Hidden \cap start..(end - 1) = {}
  PROVE  Cardinality(Values(end)) = end - start
<1>1. start \in Nat /\ end \in Nat /\ start <= end /\ end <= Size
  BY EndFacts
<1>2. Values(end) = start..(end - 1)
  BY <1>1, PagingAssumption DEF Values, Visible, Item
<1>3. Cardinality(start..(end - 1)) = IF start > end - 1 THEN 0 ELSE (end - 1) - start + 1
  BY <1>1, FS_Interval
<1> QED
  BY <1>1, <1>2, <1>3

(* Resume is exact: it is the page's end, or no progress is made. *)
LEMMA ResumesAtTheEnd ==
  ASSUME WalkTypeOK, NEW end \in Ends, NEW next \in NextPageStarts(end)
  PROVE  Resume(end, next) = end
<1>1. start \in Nat /\ end \in Nat /\ start <= end /\ end <= Size
  BY EndFacts
<1>2. CASE next = end /\ end > start
  BY <1>1, <1>2 DEF Resume
<1>3. CASE next = end /\ end = start
  <2>1. Hidden \cap start..(end - 1) = {}
    BY <1>1, <1>3
  <2> QED
    BY <1>1, <1>3, <2>1, ValuesCounted DEF Resume
<1>4. CASE next # end
  <2>1. next = 0 /\ Hidden \cap start..(end - 1) = {}
    BY <1>4 DEF NextPageStarts
  <2> QED
    BY <1>1, <2>1, ValuesCounted DEF Resume
<1> QED
  BY <1>1, <1>2, <1>3, <1>4

(* A page appended to what lies before it is what lies before its end. *)
LEMMA PageAppended ==
  ASSUME WalkTypeOK, NEW end \in Ends, got = UpTo(start), Appended(Values(end))
  PROVE  got' = UpTo(end)
<1>1. start \in Nat /\ end \in Nat /\ start <= end
  BY EndFacts
<1>2. ASSUME NEW k \in Item
      PROVE  got'[k] = UpTo(end)[k]
  <2>1. k \in Nat
    BY DEF Item
  <2>2. got'[k] = IF k \in Values(end) THEN got[k] + 1 ELSE got[k]
    BY DEF Appended
  <2>3. got[k] = IF k \in Visible /\ k < start THEN 1 ELSE 0
    BY DEF UpTo
  <2>4. UpTo(end)[k] = IF k \in Visible /\ k < end THEN 1 ELSE 0
    BY DEF UpTo
  <2> QED
    BY <1>1, <2>1, <2>2, <2>3, <2>4 DEF Values
<1>3. got' \in [Item -> Nat] /\ DOMAIN got' = Item
  BY DEF Appended, WalkTypeOK
<1> QED
  BY <1>2, <1>3 DEF UpTo, Appended

(* Appending values keeps the type of out. *)
LEMMA AppendedType ==
  ASSUME WalkTypeOK, NEW values, Appended(values)
  PROVE  got' \in [Item -> Nat]
BY DEF WalkTypeOK, Appended

(* Nothing is read and nothing passed. *)
LEMMA WalkInvStarts == WalkInit => WalkInv
<1> SUFFICES ASSUME WalkInit PROVE WalkInv
  OBVIOUS
<1>1. \A k \in Item : ~(k < 0)
  BY DEF Item
<1>2. WalkTypeOK
  BY PagingAssumption DEF WalkInit, WalkTypeOK
<1>3. got = UpTo(start)
  BY <1>1 DEF WalkInit, UpTo
<1> QED
  BY <1>2, <1>3 DEF WalkInit, WalkInv, CompleteIsWhole

(* Every page keeps the invariant. *)
LEMMA WalkInvKept ==
  ASSUME WalkInv, [WalkNext]_walkVars
  PROVE  WalkInv'
<1> USE DEF WalkInv
<1>1. CASE LastPage
  <2>1. got' = UpTo(Size) /\ walk' = "complete"
    BY <1>1, PageAppended DEF LastPage, Asks
  <2>2. CompleteIsWhole'
    <3> SUFFICES ASSUME NEW k \in Item
                 PROVE  got'[k] = IF k \in Visible THEN 1 ELSE 0
      BY DEF CompleteIsWhole
    <3> QED
      BY <2>1 DEF UpTo, Item
  <2> QED
    BY <1>1, <2>1, <2>2, AppendedType DEF LastPage, WalkTypeOK
<1>2. ASSUME NEW end \in Ends, NEW next \in NextPageStarts(end), AnotherPage(end, next)
      PROVE  WalkInv'
  <2>1. Resume(end, next) = end /\ end \in 0..Size
    BY ResumesAtTheEnd, EndFacts, PagingAssumption
  <2>2. got' \in [Item -> Nat] /\ got' = UpTo(end)
    BY <1>2, PageAppended, AppendedType DEF AnotherPage, Asks
  <2>3. CASE end > start
    <3>1. start' = end /\ pages' = pages + 1 /\ walk' = "reading"
      BY <1>2, <2>1, <2>3 DEF AnotherPage, Asks
    <3>2. pages' \in 0..MaxPages
      BY <1>2, <3>1, PagingAssumption DEF AnotherPage, Asks, WalkTypeOK
    <3> QED
      BY <2>1, <2>2, <3>1, <3>2 DEF WalkTypeOK, CompleteIsWhole
  <2>4. CASE ~(end > start)
    <3>1. start' = start /\ pages' = pages /\ walk' = "stuck"
      BY <1>2, <2>1, <2>4 DEF AnotherPage
    <3> QED
      BY <2>2, <3>1 DEF WalkTypeOK, CompleteIsWhole
  <2> QED
    BY <2>3, <2>4
<1>3. ASSUME NEW end \in Ends, BadItem(end) PROVE WalkInv'
  BY <1>3, AppendedType DEF BadItem, WalkTypeOK, CompleteIsWhole
<1>4. CASE Refused \/ TooManyPages
  BY <1>4 DEF Refused, TooManyPages, WalkTypeOK, CompleteIsWhole
<1>5. CASE WalkOver \/ UNCHANGED walkVars
  BY <1>5 DEF WalkOver, walkVars, WalkTypeOK, CompleteIsWhole, UpTo
<1> QED
  BY <1>1, <1>2, <1>3, <1>4, <1>5 DEF WalkNext, PageStep

(* The strengthened invariant holds of every walk. *)
THEOREM WalkInvariance == WalkSpec => []WalkInv
BY WalkInvStarts, WalkInvKept, PTL DEF WalkSpec

(* The walk stays within the collection and the page limit. *)
THEOREM WalkTypeCorrect == WalkSpec => []WalkTypeOK
BY WalkInvariance, PTL DEF WalkInv

(* A list returned without an error holds every visible item exactly once. *)
THEOREM CompleteListsAreWhole == WalkSpec => []CompleteIsWhole
BY WalkInvariance, PTL DEF WalkInv

(* Every move of the walk goes forward, over what it has read and nothing  *)
(* else.                                                                   *)
THEOREM WalkNeverSkips == WalkSpec => NothingSkippedNorReread
<1> DEFINE A == start' # start =>
                  /\ start' > start
                  /\ \A k \in Item : got'[k] = IF k \in Visible /\ k < start' THEN 1 ELSE 0
<1>1. ASSUME WalkInv, [WalkNext]_walkVars PROVE [A]_walkVars
  <2> SUFFICES ASSUME start' # start PROVE A
    BY <1>1 DEF walkVars
  <2>1. PICK end \in Ends : \E next \in NextPageStarts(end) : AnotherPage(end, next)
    BY <1>1 DEF WalkNext, PageStep, LastPage, BadItem, Refused, TooManyPages, WalkOver, walkVars
  <2>2. PICK next \in NextPageStarts(end) : AnotherPage(end, next)
    BY <2>1
  <2>3. Resume(end, next) = end /\ start' = end /\ end > start
    BY <1>1, <2>2, ResumesAtTheEnd DEF AnotherPage, WalkInv
  <2>4. got' = UpTo(end)
    BY <1>1, <2>2, PageAppended DEF AnotherPage, Asks, WalkInv
  <2> QED
    BY <2>3, <2>4 DEF UpTo
<1> QED
  BY <1>1, WalkInvariance, PTL DEF WalkSpec, NothingSkippedNorReread
===============================================================================
