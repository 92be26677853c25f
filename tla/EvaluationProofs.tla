--------------------------- MODULE EvaluationProofs ---------------------------
(***************************************************************************)
(* Evaluation for any controls, resources, policies and invocations. The   *)
(* invariant says what is finished at each stage (Stages, Comparing), what *)
(* the loops have added up so far in terms of the findings they have       *)
(* visited (Counted, Weighed), and that only an exception in force waives  *)
(* (Waived).                                                               *)
(***************************************************************************)
EXTENDS Evaluation, TLAPS

Untouched(s) == Judged(s) = {} /\ score[s] = None /\ waived[s] = {} /\ broken[s] = {}
Finished(s) == Judged(s) = Due(s) /\ score[s] # None

\* What is finished at each stage.
Stages ==
    /\ input.command = "scan" => side = "after"
    /\ input.command \in {"scan", "diff"}
    /\ pc = "starting" => Untouched("before") /\ Untouched("after")
    /\ pc \in {"starting", "judging", "counting"} => score[side] = None
    /\ side = "before" => Untouched("after")
    /\ side = "after" /\ input.command = "diff" => Finished("before")
    /\ pc = "judging" => left \subseteq Due(side) /\ Judged(side) = Due(side) \ left
    /\ pc = "counting" => left \subseteq Judged(side) /\ Judged(side) = Due(side)
    /\ pc \in {"accepting", "weighing", "comparing"} => Finished(side)
    /\ pc = "weighing" => input.command = "scan" /\ left \subseteq Judged("after")
    /\ pc = "comparing" => input.command = "diff" /\ side = "after"
    /\ pc # "done" => exit = None /\ result = NoResult

Filed == 
    result # NoResult => /\ result = Comparison
                         /\ pc = "done"
                         /\ Finished("before") /\ Finished("after")

\* The findings the loop at hand has visited.
Visited(s) == Judged(s) \ left

\* What Compute has added up so far.
Counted ==
    pc = "counting" =>
        /\ tally.earned <= tally.total
        /\ tally.earned > 0 <=> \E p \in Visited(side) : status[side][p] = "PASS"
        /\ tally.earned < tally.total <=> \E p \in Visited(side) : status[side][p] = "FAIL"

\* What exitStatus has added up so far.
Weighed ==
    pc = "weighing" /\ unread = 0 =>
        \A p \in Visited("after") :
            status["after"][p] = "MANUAL" /\ p[1] \in Automated => p \in waived["after"]

\* Nothing is waived but by an exception in force.
Waived == \A s \in Sides : \A p \in waived[s] : Accepted(p)

IInv ==
    /\ TypeOK
    /\ Stages /\ Filed /\ Counted /\ Weighed /\ Waived
    /\ ScoreIsHonest /\ GreenIsEarned
-----------------------------------------------------------------------------
\* A percentage never claims more than there is.
LEMMA Percent ==
    ASSUME NEW e \in Nat, NEW t \in Nat, t > 0, e <= t
    PROVE  /\ (e * 100) \div t \in 0..100
           /\ (e * 100) \div t = 100 <=> e = t
           /\ e = 0 => (e * 100) \div t = 0
OBVIOUS

\* A finding is of one control and one resource.
LEMMA PairSort ==
    ASSUME NEW p \in Pairs
    PROVE  /\ p[1] \in Controls /\ p[2] \in Resources /\ p = <<p[1], p[2]>>
           /\ p[1] \in OrgControls <=> p[2] = Instance
           /\ p[1] \in RepoControls <=> p[2] \in Repositories
BY EvaluationAssumption DEF EvaluationAssumption, Pairs, Controls, Resources

\* What is counted of a finding is never nothing.
LEMMA WorthSort ==
    ASSUME NEW p \in Pairs
    PROVE  Count(p) \in Nat \ {0} /\ Worth(p) \in Nat \ {0}
<1>1. Count(p) \in Nat \ {0}
  BY PairSort, EvaluationAssumption DEF EvaluationAssumption, Count
<1>2. Weight(Severity[p[1]]) \in {1, 2, 3}
  BY DEF Weight
<1>3. Worth(p) = Count(p) * Weight(Severity[p[1]])
  BY DEF Worth
<1>4. CASE Weight(Severity[p[1]]) = 1
  BY <1>1, <1>3, <1>4
<1>5. CASE Weight(Severity[p[1]]) = 2
  BY <1>1, <1>3, <1>5
<1>6. CASE Weight(Severity[p[1]]) = 3
  BY <1>1, <1>3, <1>6
<1> QED BY <1>1, <1>2, <1>4, <1>5, <1>6

LEMMA FollowingSort ==
    ASSUME left # {}
    PROVE  Following \in left
BY DEF Following

\* Every report is made of findings.
LEMMA DueSort ==
    ASSUME TypeOK, NEW s \in Sides
    PROVE  Due(s) \subseteq Pairs /\ InScope(s) \subseteq Repositories /\ config \in Configs
<1>1. input.snap[s] \in Snapshots /\ config \in Configs
  BY EvaluationAssumption DEF EvaluationAssumption, TypeOK, config
<1> QED BY <1>1 DEF Snapshots, Due, InScope, Captured, Pairs

\* Two reports of one configuration put the same controls to a resource of both.
LEMMA SameControls ==
    ASSUME TypeOK, NEW s \in Sides, NEW t \in Sides, NEW p \in Due(s), NEW q \in Due(t),
           p[2] = q[2]
    PROVE  p \in Due(t)
<1>1. p \in Pairs /\ q \in Pairs
  BY DueSort
<1>2. InScope(t) \subseteq Repositories
  BY DueSort
<1>3. CASE p[1] \in OrgControls
  BY <1>1, <1>3, PairSort DEF Due
<1>4. CASE p[1] \notin OrgControls
  <2>1. q[2] \in Repositories /\ q[2] # Instance
    BY <1>1, <1>4, PairSort DEF Controls, Resources
  <2>2. q[2] \in InScope(t)
    BY <2>1 DEF Due
  <2>3. p[1] \in RepoControls \cap Selected
    BY <1>4 DEF Due
  <2> QED BY <1>1, <2>2, <2>3, PairSort DEF Due
<1> QED BY <1>3, <1>4

LEMMA ComparisonSort ==
    /\ Comparison \in [regressed : SUBSET Pairs, fixed : SUBSET Pairs, new : SUBSET Pairs,
                       changed : SUBSET Pairs, departed : SUBSET Resources]
    /\ \A m, n \in Statuses \cup {None} : Moved(m, n) \subseteq Pairs
<1>1. \A m, n \in Statuses \cup {None} : Moved(m, n) \subseteq Pairs
  BY DEF Moved
<1>2. OtherMoves \subseteq Pairs
  BY <1>1 DEF OtherMoves
<1>3. Departed \subseteq Resources
  BY PairSort DEF Departed, Judged
<1> QED BY <1>1, <1>2, <1>3 DEF Comparison, Statuses
-----------------------------------------------------------------------------
LEMMA Initially == Init => IInv
<1> SUFFICES ASSUME Init PROVE IInv
  OBVIOUS
<1>1. input.command \in {"scan", "diff"}
  BY EvaluationAssumption DEF EvaluationAssumption, Init
<1>2. TypeOK
  BY <1>1 DEF Init, TypeOK, Sides, NoTally, NoResult
<1>3. Untouched("before") /\ Untouched("after")
  BY DEF Init, Untouched, Judged, Sides
<1>4. Stages /\ Filed /\ Counted /\ Weighed
  BY <1>1, <1>3 DEF Init, Stages, Filed, Counted, Weighed, Sides
<1>5. Waived /\ ScoreIsHonest
  BY DEF Init, Waived, ScoreIsHonest, Sides
<1>6. GreenIsEarned
  BY EvaluationAssumption DEF EvaluationAssumption, Init, GreenIsEarned
<1> QED BY <1>2, <1>4, <1>5, <1>6 DEF IInv

\* A step of Judge gives one finding of one report its verdict.
LEMMA JudgeStep ==
    ASSUME TypeOK, Judge
    PROVE  /\ Following \in left /\ Following \in Pairs /\ side \in Sides
           /\ status' \in [Sides -> [Pairs -> Statuses \cup {None}]]
           /\ status'[side][Following] \in Statuses
           /\ \A p \in Pairs \ {Following} : status'[side][p] = status[side][p]
           /\ \A s \in Sides \ {side} : status'[s] = status[s]
<1>1. Following \in left /\ Following \in Pairs /\ side \in Sides
  BY FollowingSort DEF Judge, TypeOK
<1>2. PICK v \in Statuses : status' = [status EXCEPT ![side][Following] = v]
  <2>1. "MANUAL" \in Statuses /\ "NA" \in Statuses
    BY DEF Statuses
  <2> QED BY <2>1 DEF Judge
<1>3. status \in [Sides -> [Pairs -> Statuses \cup {None}]]
  BY DEF TypeOK
<1>4. /\ status'[side] = [status[side] EXCEPT ![Following] = v]
      /\ \A s \in Sides \ {side} : status'[s] = status[s]
  BY <1>1, <1>2, <1>3
<1>5. status' \in [Sides -> [Pairs -> Statuses \cup {None}]]
  BY <1>1, <1>2, <1>3
<1> QED BY <1>1, <1>3, <1>4, <1>5

\* A turn of the loop of Compute credits what passed, and counts what was decided.
LEMMA AddStep ==
    ASSUME TypeOK, Add
    PROVE  /\ Following \in left /\ Following \in Pairs
           /\ tally' \in [passed : Nat, failed : Nat, earned : Nat, total : Nat]
           /\ status[side][Following] = "PASS" =>
                 \E n \in Nat \ {0} : /\ tally'.earned = tally.earned + n
                                      /\ tally'.total = tally.total + n
           /\ status[side][Following] = "FAIL" =>
                 \E n \in Nat \ {0} : /\ tally'.earned = tally.earned
                                      /\ tally'.total = tally.total + n
           /\ status[side][Following] \notin {"PASS", "FAIL"} => tally' = tally
<1>1. Following \in left /\ Following \in Pairs
  BY FollowingSort DEF Add, TypeOK
<1>2. Count(Following) \in Nat \ {0} /\ Worth(Following) \in Nat \ {0}
  BY <1>1, WorthSort
<1>3. tally \in [passed : Nat, failed : Nat, earned : Nat, total : Nat]
  BY DEF TypeOK
<1> DEFINE n == Count(Following)
           w == Worth(Following)
<1>n. n \in Nat \ {0} /\ w \in Nat \ {0}
  BY <1>2
<1>4. CASE status[side][Following] = "PASS"
  <2>1. tally' = [tally EXCEPT !.passed = @ + n, !.earned = @ + w, !.total = @ + w]
    BY <1>4 DEF Add
  <2> HIDE DEF n, w
  <2>2. tally' = [passed |-> tally.passed + n, failed |-> tally.failed,
                 earned |-> tally.earned + w, total |-> tally.total + w]
    BY <1>3, <2>1
  <2>3. /\ tally' \in [passed : Nat, failed : Nat, earned : Nat, total : Nat]
        /\ tally'.earned = tally.earned + w /\ tally'.total = tally.total + w
    BY <1>n, <1>3, <2>2
  <2> QED BY <1>1, <1>n, <1>4, <2>3
<1>5. CASE status[side][Following] = "FAIL"
  <2>1. tally' = [tally EXCEPT !.failed = @ + n, !.total = @ + w]
    BY <1>5 DEF Add
  <2> HIDE DEF n, w
  <2>2. tally' = [passed |-> tally.passed, failed |-> tally.failed + n,
                 earned |-> tally.earned, total |-> tally.total + w]
    BY <1>3, <2>1
  <2>3. /\ tally' \in [passed : Nat, failed : Nat, earned : Nat, total : Nat]
        /\ tally'.earned = tally.earned /\ tally'.total = tally.total + w
    BY <1>n, <1>3, <2>2
  <2> QED BY <1>1, <1>n, <1>5, <2>3
<1>6. CASE status[side][Following] \notin {"PASS", "FAIL"}
  <2>1. tally' = tally
    BY <1>6 DEF Add
  <2> QED BY <1>1, <1>3, <1>6, <2>1
<1> QED BY <1>4, <1>5, <1>6

\* What a tally comes to.
LEMMA ValueSort ==
    ASSUME TypeOK, tally.earned <= tally.total
    PROVE  /\ Value(tally) \in 0..100
           /\ Value(tally) = 100 <=> tally.earned > 0 /\ ~(tally.earned < tally.total)
           /\ tally.earned = 0 => Value(tally) = 0
<1> DEFINE e == tally.earned
           t == tally.total
<1>1. e \in Nat /\ t \in Nat /\ e <= t
  BY DEF TypeOK
<1>2. Value(tally) = IF t = 0 THEN 0 ELSE (e * 100) \div t
  BY DEF Value
<1> HIDE DEF e, t
<1>3. CASE t = 0
  <2>1. Value(tally) = 0 /\ e = 0
    BY <1>1, <1>2, <1>3
  <2> QED BY <1>1, <1>3, <2>1 DEF e, t
<1>4. CASE t # 0
  <2> DEFINE v == (e * 100) \div t
  <2>1. Value(tally) = v
    BY <1>2, <1>4
  <2>2. t > 0
    BY <1>1, <1>4
  <2>3. v \in 0..100 /\ (v = 100 <=> e = t) /\ (e = 0 => v = 0)
    BY <1>1, <2>2, Percent
  <2> HIDE DEF v
  <2>4. v = 100 <=> e > 0 /\ ~(e < t)
    BY <1>1, <2>2, <2>3
  <2> QED BY <2>1, <2>3, <2>4 DEF e, t
<1> QED BY <1>3, <1>4

\* Every step keeps the types.
LEMMA TypeStep == IInv /\ Next => TypeOK'
<1> SUFFICES ASSUME IInv, Next PROVE TypeOK'
  OBVIOUS
<1>0. TypeOK
  BY DEF IInv
<1> USE <1>0
<1>a. side \in Sides /\ Due(side) \subseteq Pairs /\ Due("after") \subseteq Pairs
  BY DueSort DEF TypeOK, Sides
<1>b. Judged("before") \subseteq Pairs /\ Judged("after") \subseteq Pairs
  BY DEF Judged
<1>1. CASE Start
  BY <1>1, <1>a DEF Start, Exit, TypeOK
<1>2. CASE Judge
  <2>1. broken' \in [Sides -> SUBSET Pairs]
    BY <1>2, <1>a, JudgeStep DEF Judge, TypeOK
  <2> QED BY <1>2, <2>1, JudgeStep DEF Judge, TypeOK
<1>3. CASE NotEncoded
  BY <1>3 DEF NotEncoded, Exit, TypeOK
<1>4. CASE AllJudged
  BY <1>4, <1>a, <1>b DEF AllJudged, TypeOK, NoTally, Sides
<1>5. CASE Add
  BY <1>5, AddStep DEF Add, TypeOK
<1>6. CASE Score
  <2>1. Value(tally) \in 0..100
    BY <1>6, ValueSort DEF Score, IInv, Counted
  <2>2. score' \in [Sides -> Scores \cup {None}]
    BY <1>6, <1>a, <2>1 DEF Score, Scores, TypeOK
  <2> QED BY <1>6, <2>2 DEF Score, TypeOK
<1>7. CASE ApplyExceptions
  <2>1. waived' \in [Sides -> SUBSET Pairs]
    BY <1>7, <1>a, <1>b DEF ApplyExceptions, TypeOK, Sides
  <2> QED BY <1>7, <2>1, <1>a, <1>b DEF ApplyExceptions, TypeOK, Sides
<1>8. CASE CountUnread
  <2>1. Following \in Pairs
    BY <1>8, FollowingSort DEF CountUnread, TypeOK
  <2>2. unread' \in Nat
    BY <1>8, <2>1, WorthSort DEF CountUnread, TypeOK
  <2> QED BY <1>8, <2>2 DEF CountUnread, TypeOK
<1>9. CASE Gate
  BY <1>9 DEF Gate, Exit, TypeOK
<1>10. CASE Compare
  BY <1>10, ComparisonSort DEF Compare, Exit, TypeOK
<1>11. CASE Over
  BY <1>11 DEF Over, vars, TypeOK
<1> QED BY <1>1, <1>2, <1>3, <1>4, <1>5, <1>6, <1>7, <1>8, <1>9, <1>10, <1>11 DEF Next
-----------------------------------------------------------------------------
\* What an invocation was asked for does not change, nor does what follows from it.
LEMMA Steady ==
    ASSUME Next
    PROVE  /\ input' = input /\ config' = config
           /\ Selected' = Selected
           /\ \A s \in Sides : InScope(s)' = InScope(s) /\ Due(s)' = Due(s)
           /\ \A p : Accepted(p)' = Accepted(p)
<1>1. input' = input
  BY DEF Next, Start, Judge, NotEncoded, AllJudged, Add, Score, ApplyExceptions, CountUnread,
         Gate, Compare, Over, vars
<1>2. config' = config /\ Selected' = Selected
  BY <1>1 DEF config, Selected
<1>3. \A s \in Sides : InScope(s)' = InScope(s)
  BY <1>1, <1>2 DEF InScope, Captured
<1>4. \A s \in Sides : Due(s)' = Due(s)
  BY <1>2, <1>3 DEF Due
<1>5. \A p : Accepted(p)' = Accepted(p)
  BY <1>2 DEF Accepted, Names
<1> QED BY <1>1, <1>2, <1>3, <1>4, <1>5

\* The counters say of the findings visited whether some passed and whether some failed.
LEMMA CountedStep ==
    ASSUME IInv, Add, side' = side, Judged(side)' = Judged(side)
    PROVE  Counted'
<1>1. TypeOK /\ Counted
  BY DEF IInv
<1>2. /\ pc = "counting" /\ status' = status /\ left' = left \ {Following}
      /\ left \subseteq Judged(side)
  BY DEF Add, IInv, Stages
<1>3. Visited(side)' = Visited(side) \cup {Following} /\ Following \in Judged(side)
  BY <1>1, <1>2, AddStep DEF Visited
<1>4. tally.earned \in Nat /\ tally.total \in Nat
  BY <1>1 DEF TypeOK
<1>5. /\ tally.earned <= tally.total
      /\ tally.earned > 0 <=> \E p \in Visited(side) : status[side][p] = "PASS"
      /\ tally.earned < tally.total <=> \E p \in Visited(side) : status[side][p] = "FAIL"
  BY <1>1, <1>2 DEF Counted
<1> DEFINE v == status[side][Following]
           passes == \E p \in Visited(side) : status[side][p] = "PASS"
           fails == \E p \in Visited(side) : status[side][p] = "FAIL"
<1>6. /\ (\E p \in Visited(side)' : status[side][p] = "PASS") <=> passes \/ v = "PASS"
      /\ (\E p \in Visited(side)' : status[side][p] = "FAIL") <=> fails \/ v = "FAIL"
  BY <1>3
<1>7. /\ tally'.earned <= tally'.total
      /\ tally'.earned > 0 <=> passes \/ v = "PASS"
      /\ tally'.earned < tally'.total <=> fails \/ v = "FAIL"
  <2> HIDE DEF v, passes, fails
  <2>0. /\ tally.earned > 0 <=> passes
        /\ tally.earned < tally.total <=> fails
    BY <1>5 DEF passes, fails
  <2>1. CASE v = "PASS"
    <3>1. \E n \in Nat \ {0} : /\ tally'.earned = tally.earned + n
                               /\ tally'.total = tally.total + n
      BY <1>1, <2>1, AddStep DEF v
    <3> QED BY <1>4, <1>5, <2>0, <2>1, <3>1
  <2>2. CASE v = "FAIL"
    <3>1. \E n \in Nat \ {0} : /\ tally'.earned = tally.earned
                               /\ tally'.total = tally.total + n
      BY <1>1, <2>2, AddStep DEF v
    <3> QED BY <1>4, <1>5, <2>0, <2>2, <3>1
  <2>3. CASE v \notin {"PASS", "FAIL"}
    <3>1. tally' = tally
      BY <1>1, <2>3, AddStep DEF v
    <3> QED BY <1>4, <1>5, <2>0, <2>3, <3>1
  <2> QED BY <2>1, <2>2, <2>3
<1> QED BY <1>2, <1>6, <1>7, side' = side DEF Counted

\* What failed to be read and is not waived adds to the count.
LEMMA WeighedStep ==
    ASSUME IInv, CountUnread, Judged("after")' = Judged("after")
    PROVE  Weighed'
<1>1. TypeOK /\ Weighed
  BY DEF IInv
<1>2. /\ pc = "weighing" /\ status' = status /\ waived' = waived
      /\ left' = left \ {Following} /\ left \subseteq Judged("after")
  BY DEF CountUnread, IInv, Stages
<1>3. Following \in left /\ Following \in Pairs
  BY <1>1, FollowingSort DEF CountUnread, TypeOK
<1>4. Visited("after")' = Visited("after") \cup {Following}
  BY <1>2, <1>3 DEF Visited
<1>5. Count(Following) \in Nat \ {0} /\ unread \in Nat
  BY <1>1, <1>3, WorthSort DEF TypeOK
<1>6. CASE /\ status["after"][Following] = "MANUAL" /\ Following[1] \in Automated
           /\ Following \notin waived["after"]
  <2>1. unread' = unread + Count(Following)
    BY <1>6 DEF CountUnread
  <2> QED BY <1>5, <2>1 DEF Weighed
<1>7. CASE ~(/\ status["after"][Following] = "MANUAL" /\ Following[1] \in Automated
             /\ Following \notin waived["after"])
  <2>1. unread' = unread
    BY <1>7 DEF CountUnread
  <2> QED BY <1>1, <1>2, <1>4, <1>7, <2>1 DEF Weighed
<1> QED BY <1>6, <1>7

\* A gate that exits with 0 has seen all of it.
LEMMA GateStep ==
    ASSUME IInv, Next, Gate
    PROVE  GreenIsEarned'
<1> SUFFICES ASSUME exit' = 0 PROVE GreenIsEarned'
  BY DEF GreenIsEarned
<1>1. TypeOK /\ Weighed /\ Waived /\ ScoreIsHonest
  BY DEF IInv
<1>2. /\ pc = "weighing" /\ left = {} /\ status' = status /\ broken' = broken
      /\ ~Uncovered /\ broken["after"] = {} /\ ~Breached
  BY EvaluationAssumption DEF EvaluationAssumption, Gate, Exit
<1>3. input.command = "scan" /\ side = "after" /\ Judged("after") = Due("after")
  BY <1>2 DEF IInv, Stages, Finished
<1>4. score["after"] \in Scores /\ score["after"] # None /\ unread \in Nat
  BY <1>1, <1>2, <1>3 DEF IInv, Stages, Finished, TypeOK, Sides
<1>5. config \in Configs
  BY <1>1, DueSort DEF Sides
<1>6. InScope("after") # {}
  BY <1>2 DEF Uncovered
<1>7. \A c \in Selected \cap RepoControls : \A r \in InScope("after") :
        status["after"][<<c, r>>] # None
  BY <1>3 DEF Due, Judged
<1>8. ASSUME NEW p \in Pairs, status["after"][p] = "FAIL"
      PROVE  /\ \/ config.failOn = 0 \/ Weight(Severity[p[1]]) < config.failOn
                \/ \E x \in config.exceptions : ~x.lapsed /\ Names(x, p)
             /\ config.failUnder < 100
  <2>1. p \in Judged("after")
    BY <1>8, EvaluationAssumption DEF EvaluationAssumption, Judged, Statuses
  <2>2. config.failOn = 0 \/ p \in waived["after"] \/ ~(Weight(Severity[p[1]]) >= config.failOn)
    BY <1>2, <1>8, <2>1 DEF Breached, Failing
  <2>3. Weight(Severity[p[1]]) \in Int /\ config.failOn \in Int
    BY <1>5 DEF Weight, Configs
  <2>4. p \in waived["after"] => \E x \in config.exceptions : ~x.lapsed /\ Names(x, p)
    BY <1>1 DEF Waived, Accepted, Sides
  <2>5. score["after"].value # 100
    BY <1>1, <1>4, <1>8 DEF ScoreIsHonest, Sides
  <2>6. score["after"].value \in 0..100 /\ config.failUnder \in 0..100
    BY <1>4, <1>5 DEF Scores, Configs
  <2>7. ~(score["after"].value < config.failUnder)
    BY <1>2 DEF Breached
  <2>8. config.failUnder < 100
    BY <2>5, <2>6, <2>7
  <2> QED BY <2>2, <2>3, <2>4, <2>8
<1>9. ASSUME NEW p \in Pairs, status["after"][p] = "MANUAL", p[1] \in Automated,
             config.maxManual = 0
      PROVE  \E x \in config.exceptions : ~x.lapsed /\ Names(x, p)
  <2>1. unread = 0
    <3> DEFINE decided == score["after"].passed + score["after"].failed
    <3>1. decided \in Nat
      BY <1>4 DEF Scores
    <3>2. ~(0 >= 0 /\ decided + unread > 0 /\ unread * 100 > 0 * (decided + unread))
      BY <1>2, <1>9 DEF Breached, TooMuchUnread
    <3> HIDE DEF decided
    <3> QED BY <1>4, <3>1, <3>2
  <2>2. p \in Judged("after") \ left
    BY <1>2, <1>9, EvaluationAssumption DEF EvaluationAssumption, Judged, Statuses
  <2>3. p \in waived["after"]
    BY <1>1, <1>2, <1>9, <2>1, <2>2 DEF Weighed, Visited
  <2> QED BY <1>1, <2>3 DEF Waived, Accepted, Sides
<1>10. /\ input' = input /\ config' = config /\ Selected' = Selected
       /\ InScope("after")' = InScope("after")
  BY Steady DEF Sides
<1> QED BY <1>2, <1>6, <1>7, <1>8, <1>9, <1>10 DEF GreenIsEarned, Names
-----------------------------------------------------------------------------
\* Every step keeps the invariant.
LEMMA Step == IInv /\ Next => IInv'
<1> SUFFICES ASSUME IInv, Next PROVE IInv'
  OBVIOUS
<1>a. TypeOK /\ TypeOK'
  BY TypeStep DEF IInv
<1>b. /\ Stages /\ Filed /\ Counted /\ Weighed /\ Waived /\ ScoreIsHonest /\ GreenIsEarned
      /\ side \in Sides /\ None \notin Scores /\ None # 0
  BY <1>a, EvaluationAssumption DEF EvaluationAssumption, IInv, TypeOK
<1>c. /\ input' = input /\ \A s \in Sides : Due(s)' = Due(s) /\ Due(s) \subseteq Pairs
      /\ \A p : Accepted(p)' = Accepted(p)
  BY <1>a, Steady, DueSort
<1>d. ASSUME status' = status
      PROVE  \A s \in Sides : Judged(s)' = Judged(s)
  BY <1>d DEF Judged
<1>e. ASSUME status' = status, score' = score
      PROVE  /\ ScoreIsHonest'
             /\ \A s \in Sides : Finished(s)' = Finished(s)
             /\ waived' = waived /\ broken' = broken =>
                   \A s \in Sides : Untouched(s)' = Untouched(s)
  BY <1>b, <1>c, <1>d, <1>e DEF ScoreIsHonest, Finished, Untouched, Judged
<1>f. waived' = waived => Waived'
  BY <1>b, <1>c DEF Waived
<1>1. CASE Start
  <2>1. Stages' /\ Filed'
    BY <1>1, <1>a, <1>b, <1>c, <1>d, <1>e DEF Start, Exit, Stages, Filed, Untouched, Sides
  <2>2. Counted' /\ Weighed' /\ GreenIsEarned'
    BY <1>1, <1>b DEF Start, Exit, Stages, Counted, Weighed, GreenIsEarned
  <2> QED BY <1>1, <1>a, <1>e, <1>f, <2>1, <2>2 DEF Start, IInv
<1>2. CASE Judge
  <2>1. /\ Following \in left /\ Following \in Pairs
        /\ status'[side][Following] \in Statuses
        /\ \A p \in Pairs \ {Following} : status'[side][p] = status[side][p]
        /\ \A s \in Sides \ {side} : status'[s] = status[s]
    BY <1>2, <1>a, JudgeStep
  <2>2. /\ pc = "judging" /\ pc' = pc /\ side' = side /\ left' = left \ {Following}
        /\ score' = score /\ waived' = waived /\ exit' = exit /\ result' = result
        /\ left \subseteq Due(side) /\ Judged(side) = Due(side) \ left
        /\ score[side] = None
        /\ \A s \in Sides \ {side} : broken'[s] = broken[s]
    BY <1>2, <1>a, <1>b DEF Judge, Stages, TypeOK
  <2>3. Judged(side)' = Due(side) \ left'
    <3>1. Judged(side)' = Judged(side) \cup {Following}
      BY <2>1, <2>2, EvaluationAssumption DEF EvaluationAssumption, Judged
    <3> QED BY <2>1, <2>2, <3>1
  <2>4. \A s \in Sides \ {side} : /\ Judged(s)' = Judged(s)
                                /\ Finished(s)' = Finished(s)
                                /\ Untouched(s)' = Untouched(s)
    BY <1>c, <2>1, <2>2 DEF Judged, Finished, Untouched
  <2>5. Stages' /\ Filed'
    BY <1>b, <1>c, <2>2, <2>3, <2>4 DEF Stages, Filed, Sides
  <2>6. ScoreIsHonest'
    BY <1>b, <2>1, <2>2 DEF ScoreIsHonest
  <2>7. Counted' /\ Weighed' /\ GreenIsEarned'
    BY <1>b, <2>2 DEF Stages, Counted, Weighed, GreenIsEarned
  <2> QED BY <1>a, <1>f, <2>2, <2>5, <2>6, <2>7 DEF IInv
<1>3. CASE NotEncoded
  <2>1. Stages' /\ Filed'
    BY <1>3, <1>a, <1>b, <1>c, <1>d, <1>e DEF NotEncoded, Exit, Stages, Filed, Sides
  <2>2. Counted' /\ Weighed' /\ GreenIsEarned'
    BY <1>3 DEF NotEncoded, Exit, Counted, Weighed, GreenIsEarned
  <2> QED BY <1>3, <1>a, <1>e, <1>f, <2>1, <2>2 DEF NotEncoded, IInv
<1>4. CASE AllJudged
  <2>1. Judged(side) = Due(side) /\ Judged(side)' = Judged(side) /\ Judged(side) \subseteq Pairs
    BY <1>4, <1>b, <1>d DEF AllJudged, Stages, Judged
  <2>2. Stages' /\ Filed'
    BY <1>4, <1>b, <1>c, <1>d, <1>e, <2>1 DEF AllJudged, Stages, Filed, Sides
  <2>3. Visited(side)' = {} /\ side' = side
    BY <1>4, <2>1 DEF AllJudged, Visited
  <2>4. Counted'
    BY <1>4, <2>3 DEF AllJudged, NoTally, Counted
  <2>5. Weighed' /\ GreenIsEarned'
    BY <1>4, <1>b DEF AllJudged, Stages, Weighed, GreenIsEarned
  <2> QED BY <1>4, <1>a, <1>e, <1>f, <2>2, <2>4, <2>5 DEF AllJudged, IInv
<1>5. CASE Add
  <2>1. Judged(side)' = Judged(side) /\ side' = side
    BY <1>5, <1>b, <1>d DEF Add
  <2>2. Stages' /\ Filed'
    BY <1>5, <1>b, <1>c, <1>d, <1>e, <2>1 DEF Add, Stages, Filed, Sides
  <2>3. Counted'
    BY <1>5, <2>1, CountedStep
  <2>4. Weighed' /\ GreenIsEarned'
    BY <1>5, <1>b DEF Add, Stages, Weighed, GreenIsEarned
  <2> QED BY <1>5, <1>a, <1>e, <1>f, <2>2, <2>3, <2>4 DEF Add, IInv
<1>6. CASE Score
  <2>1. /\ pc = "counting" /\ left = {} /\ status' = status /\ side' = side
        /\ \A s \in Sides \ {side} : score'[s] = score[s]
        /\ score'[side].value = Value(tally)
        /\ Judged(side) = Due(side)
    BY <1>6, <1>a, <1>b DEF Score, Stages, TypeOK
  <2>2. tally.earned <= tally.total
    BY <1>b, <2>1 DEF Counted
  <2>3. score'[side] # None
    <3>1. score'[side] = [value |-> Value(tally), passed |-> tally.passed, failed |-> tally.failed]
      BY <1>6, <1>a, <1>b DEF Score, TypeOK
    <3>2. Value(tally) \in 0..100
      BY <1>a, <2>2, ValueSort
    <3>3. score'[side] \in Scores
      BY <1>a, <3>1, <3>2 DEF Scores, TypeOK
    <3> QED BY <1>b, <3>3
  <2>4. Visited(side) = Judged(side)
    BY <2>1 DEF Visited
  <2>5. /\ tally.earned > 0 <=> \E p \in Pairs : status[side][p] = "PASS"
        /\ tally.earned < tally.total <=> \E p \in Pairs : status[side][p] = "FAIL"
    <3>1. \A p \in Pairs : status[side][p] \in {"PASS", "FAIL"} => p \in Judged(side)
      BY EvaluationAssumption DEF EvaluationAssumption, Statuses, Judged
    <3>2. Judged(side) \subseteq Pairs
      BY DEF Judged
    <3> QED BY <1>b, <2>1, <2>4, <3>1, <3>2 DEF Counted
  <2>6. /\ Value(tally) = 100 <=> tally.earned > 0 /\ ~(tally.earned < tally.total)
        /\ ~(tally.earned > 0) => Value(tally) = 0
    <3>1. tally.earned \in Nat
      BY <1>a DEF TypeOK
    <3> QED BY <1>a, <2>2, <3>1, ValueSort
  <2>7. ScoreIsHonest'
    <3>1. ASSUME NEW s \in Sides, s # side, score'[s] # None
          PROVE  /\ score'[s].value = 100 <=> /\ \E p \in Pairs : status'[s][p] = "PASS"
                                             /\ \A p \in Pairs : status'[s][p] # "FAIL"
                 /\ (\A p \in Pairs : status'[s][p] # "PASS") => score'[s].value = 0
      BY <1>b, <2>1, <3>1 DEF ScoreIsHonest
    <3> QED BY <2>1, <2>5, <2>6, <3>1 DEF ScoreIsHonest
  <2>8. \A s \in Sides \ {side} : /\ Finished(s)' = Finished(s)
                                /\ Untouched(s)' = Untouched(s)
    BY <1>6, <1>c, <1>d, <2>1 DEF Score, Finished, Untouched
  <2>9. Finished(side)'
    BY <1>b, <1>c, <1>d, <2>1, <2>3 DEF Finished
  <2>10. Stages' /\ Filed'
    BY <1>6, <1>b, <1>c, <2>1, <2>8, <2>9 DEF Score, Stages, Filed, Sides
  <2>11. Counted' /\ Weighed' /\ GreenIsEarned'
    BY <1>6, <1>b DEF Score, Stages, Counted, Weighed, GreenIsEarned
  <2> QED BY <1>6, <1>a, <1>f, <2>7, <2>10, <2>11 DEF Score, IInv
<1>7. CASE ApplyExceptions
  <2>1. /\ pc = "accepting" /\ status' = status /\ score' = score /\ broken' = broken
        /\ exit' = exit /\ result' = result /\ unread' = unread
        /\ Finished(side) /\ exit = None /\ result = NoResult
        /\ \A s \in Sides \ {side} : waived'[s] = waived[s]
        /\ \A p \in waived'[side] : Accepted(p)
    BY <1>7, <1>a, <1>b DEF ApplyExceptions, Stages, TypeOK
  <2>2. Waived'
    BY <1>b, <1>c, <2>1 DEF Waived
  <2>3. \A s \in Sides : Judged(s)' = Judged(s) /\ Finished(s)' = Finished(s)
    BY <1>d, <1>e, <2>1
  <2>4. \A s \in Sides \ {side} : Untouched(s)' = Untouched(s)
    BY <2>1, <2>3 DEF Untouched
  <2>5. Filed' /\ Counted' /\ GreenIsEarned'
    BY <1>7, <1>b, <2>1 DEF ApplyExceptions, Filed, Counted, GreenIsEarned
  <2>6. CASE input.command = "scan"
    <3>1. pc' = "weighing" /\ side' = side /\ left' = Judged(side) /\ side = "after"
      BY <1>7, <1>b, <2>6 DEF ApplyExceptions, Stages
    <3>2. Visited("after")' = {}
      BY <2>3, <3>1 DEF Visited, Sides
    <3>3. Stages' /\ Weighed'
      BY <1>b, <1>c, <2>1, <2>3, <2>6, <3>1, <3>2 DEF Stages, Weighed, Sides
    <3> QED BY <1>a, <1>e, <2>1, <2>2, <2>5, <3>3 DEF IInv
  <2>7. CASE input.command = "diff" /\ side = "before"
    <3>1. pc' = "judging" /\ side' = "after" /\ left' = Due("after")
      BY <1>7, <2>7 DEF ApplyExceptions
    <3>2. Judged("after") = {} /\ score["after"] = None
      BY <1>b, <2>7 DEF Stages, Untouched
    <3>3. Stages' /\ Weighed'
      BY <1>b, <1>c, <2>1, <2>3, <2>7, <3>1, <3>2 DEF Stages, Weighed, Sides
    <3> QED BY <1>a, <1>e, <2>1, <2>2, <2>5, <3>3 DEF IInv
  <2>8. CASE input.command = "diff" /\ side = "after"
    <3>1. pc' = "comparing" /\ side' = side /\ left' = {}
      BY <1>7, <2>8 DEF ApplyExceptions
    <3>2. Stages' /\ Weighed'
      BY <1>b, <1>c, <2>1, <2>3, <2>8, <3>1 DEF Stages, Weighed, Sides
    <3> QED BY <1>a, <1>e, <2>1, <2>2, <2>5, <3>2 DEF IInv
  <2> QED BY <1>b, <2>6, <2>7, <2>8 DEF Stages, Sides
<1>8. CASE CountUnread
  <2>1. Judged("after")' = Judged("after") /\ side' = side
    BY <1>8, <1>d DEF CountUnread, Sides
  <2>2. Stages' /\ Filed'
    BY <1>8, <1>b, <1>c, <1>d, <1>e, <2>1 DEF CountUnread, Stages, Filed, Sides
  <2>3. Weighed'
    BY <1>8, <2>1, WeighedStep
  <2>4. Counted' /\ GreenIsEarned'
    BY <1>8, <1>b DEF CountUnread, Stages, Counted, GreenIsEarned
  <2> QED BY <1>8, <1>a, <1>e, <1>f, <2>2, <2>3, <2>4 DEF CountUnread, IInv
<1>9. CASE Gate
  <2>1. Stages' /\ Filed'
    BY <1>9, <1>b, <1>c, <1>d, <1>e DEF Gate, Exit, Stages, Filed, Sides
  <2>2. Counted' /\ Weighed'
    BY <1>9 DEF Gate, Exit, Counted, Weighed
  <2>3. GreenIsEarned'
    BY <1>9, GateStep
  <2> QED BY <1>9, <1>a, <1>e, <1>f, <2>1, <2>2, <2>3 DEF Gate, IInv
<1>10. CASE Compare
  <2>1. /\ status' = status /\ score' = score /\ pc' = "done" /\ side' = side
        /\ waived' = waived /\ broken' = broken
        /\ Finished("before") /\ Finished("after") /\ input.command = "diff"
    BY <1>10, <1>b DEF Compare, Exit, Stages
  <2>2. Stages'
    BY <1>b, <1>c, <1>d, <1>e, <2>1 DEF Stages, Sides
  <2>3. Comparison' = Comparison
    <3>1. \A m, n : Moved(m, n)' = Moved(m, n)
      BY <2>1 DEF Moved
    <3>2. OtherMoves' = OtherMoves
      BY <3>1 DEF OtherMoves
    <3>3. Departed' = Departed
      BY <1>d, <2>1 DEF Departed, Sides
    <3> QED BY <3>1, <3>2, <3>3 DEF Comparison
  <2>4. result' = result \/ result' = Comparison
    BY <1>10 DEF Compare
  <2>5. Filed'
    BY <1>b, <1>e, <2>1, <2>3, <2>4 DEF Filed, Sides
  <2>6. Counted' /\ Weighed' /\ GreenIsEarned'
    BY <1>c, <2>1 DEF Counted, Weighed, GreenIsEarned
  <2> QED BY <1>a, <1>e, <1>f, <2>1, <2>2, <2>5, <2>6 DEF IInv
<1>11. CASE Over
  BY <1>11, <1>a, <1>b DEF Over, vars, IInv, TypeOK, Stages, Filed, Counted, Weighed, Waived,
        ScoreIsHonest, GreenIsEarned, Untouched, Finished, Visited, Judged, Due, InScope,
        Captured, Selected, config, Accepted, Names, Comparison, Moved, OtherMoves, Departed
<1> QED BY <1>1, <1>2, <1>3, <1>4, <1>5, <1>6, <1>7, <1>8, <1>9, <1>10, <1>11 DEF Next
-----------------------------------------------------------------------------
\* The invariant holds of every report and comparison.
THEOREM Invariance == Spec => []IInv
<1>1. IInv /\ UNCHANGED vars => IInv'
  BY DEF vars, IInv, TypeOK, Stages, Filed, Counted, Weighed, Waived,
        ScoreIsHonest, GreenIsEarned, Untouched, Finished, Visited, Judged, Due, InScope,
        Captured, Selected, config, Accepted, Names, Comparison, Moved, OtherMoves, Departed
<1>2. IInv /\ [Next]_vars => IInv'
  BY <1>1, Step
<1> QED BY <1>2, Initially, PTL DEF Spec

\* Every variable keeps its type, whatever the policies say.
THEOREM TypeCorrect == Spec => []TypeOK
<1>1. IInv => TypeOK
  BY DEF IInv
<1> QED BY <1>1, Invariance, PTL

\* 100 is said only of a report in which nothing failed, however large it is.
THEOREM ScoreIsHonestHolds == Spec => []ScoreIsHonest
<1>1. IInv => ScoreIsHonest
  BY DEF IInv
<1> QED BY <1>1, Invariance, PTL

\* An exit status of 0 is earned, whatever is configured.
THEOREM GreenIsEarnedHolds == Spec => []GreenIsEarned
<1>1. IInv => GreenIsEarned
  BY DEF IInv
<1> QED BY <1>1, Invariance, PTL

\* Two complete reports of one configuration cannot differ but where a comparison says.
LEMMA Filing == IInv => ChangesAreFiled
<1> SUFFICES ASSUME IInv, result # NoResult PROVE ChangesAreFiled
  BY DEF ChangesAreFiled
<1>1. /\ TypeOK /\ result = Comparison
      /\ Judged("before") = Due("before") /\ Judged("after") = Due("after")
  BY DEF IInv, Filed, Finished
<1>2. None \notin Statuses /\ status \in [Sides -> [Pairs -> Statuses \cup {None}]]
  BY <1>1, EvaluationAssumption DEF EvaluationAssumption, TypeOK
<1> DEFINE classes == {"regressed", "fixed", "new", "changed"}
<1>3. \A p \in Pairs : LET m == status["before"][p]
                          n == status["after"][p]
                      IN /\ p \in result.regressed <=> m = "PASS" /\ n = "FAIL"
                         /\ p \in result.fixed <=> m = "FAIL" /\ n = "PASS"
                         /\ p \in result.new <=> m = None /\ n = "FAIL"
                         /\ p \in result.changed <=>
                               \/ m = None /\ n = "MANUAL"
                               \/ /\ m \in Statuses /\ n \in Statuses /\ m # n
                                  /\ ~(m = "PASS" /\ n = "FAIL") /\ ~(m = "FAIL" /\ n = "PASS")
  <2>1. \A p \in Pairs : p \in OtherMoves <=>
          LET m == status["before"][p]
              n == status["after"][p]
          IN /\ m \in Statuses /\ n \in Statuses /\ m # n
             /\ ~(m = "PASS" /\ n = "FAIL") /\ ~(m = "FAIL" /\ n = "PASS")
    <3> DEFINE moves == {n \in Statuses \X Statuses :
                           n[1] # n[2] /\ n \notin {<<"PASS", "FAIL">>, <<"FAIL", "PASS">>}}
    <3>1. OtherMoves = UNION {Moved(m[1], m[2]) : m \in moves}
      BY DEF OtherMoves
    <3> HIDE DEF moves
    <3>2. \A p \in Pairs : p \in OtherMoves <=>
            <<status["before"][p], status["after"][p]>> \in moves
      <4>1. \A m \in moves : m = <<m[1], m[2]>>
        BY DEF moves
      <4> QED BY <3>1, <4>1 DEF Moved
    <3> QED BY <3>2 DEF moves
  <2> QED BY <1>1, <2>1 DEF Comparison, Moved
<1>4. /\ result.regressed \subseteq Pairs /\ result.fixed \subseteq Pairs
      /\ result.new \subseteq Pairs /\ result.changed \subseteq Pairs
      /\ result.departed = {p[2] : p \in Due("before") \ Due("after")}
  BY <1>1, ComparisonSort DEF Comparison, Departed
<1>5. \A k, l \in classes : k # l => result[k] \cap result[l] = {}
  BY <1>2, <1>3, <1>4 DEF Statuses
<1>6. ASSUME NEW p \in Pairs, status["before"][p] # status["after"][p]
      PROVE  \/ \E k \in classes : p \in result[k]
             \/ p[2] \in result.departed
             \/ status["before"][p] = None /\ status["after"][p] \in {"PASS", "NA"}
  <2>1. CASE status["after"][p] = None
    BY <1>1, <1>4, <1>6, <2>1 DEF Judged
  <2>2. CASE status["before"][p] = None
    BY <1>2, <1>3, <1>6, <2>2 DEF Statuses, Sides
  <2>3. CASE status["before"][p] # None /\ status["after"][p] # None
    <3>1. status["before"][p] \in Statuses /\ status["after"][p] \in Statuses
      BY <1>2, <2>3 DEF Sides
    <3> QED BY <1>3, <1>6, <3>1
  <2> QED BY <2>1, <2>2, <2>3
<1>7. ASSUME NEW p \in result.new, NEW q \in Judged("before"), q[2] = p[2]
      PROVE  FALSE
  <2>1. p \in Pairs /\ status["before"][p] = None /\ status["after"][p] = "FAIL"
    BY <1>3, <1>4
  <2>2. p \notin Due("before") /\ p \in Due("after")
    BY <1>1, <1>2, <2>1 DEF Judged, Statuses
  <2> QED BY <1>1, <1>7, <2>2, SameControls DEF Sides
<1>8. ASSUME NEW p \in Judged("after"), p[2] \in result.departed
      PROVE  FALSE
  <2>1. PICK q \in Due("before") \ Due("after") : q[2] = p[2]
    BY <1>4, <1>8
  <2> QED BY <1>1, <2>1, SameControls DEF Sides
<1> QED BY <1>5, <1>6, <1>7, <1>8 DEF ChangesAreFiled

\* Whatever moved between two reports is filed once, and where it belongs.
THEOREM ChangesAreFiledHolds == Spec => []ChangesAreFiled
<1> QED BY Filing, Invariance, PTL
=============================================================================
