------------------------------ MODULE Evaluation ------------------------------
(***************************************************************************)
(* What becomes of a snapshot: the engine (internal/engine/engine.go and   *)
(* score.go) puts every selected control to every resource, counts the     *)
(* verdicts into a score and accepts the findings that exceptions name.    *)
(* `scan` then makes an exit status of one report (exitStatus in           *)
(* internal/cli/scan.go), and `diff` compares two (internal/diff/diff.go,  *)
(* internal/cli/diff.go).                                                  *)
(*                                                                         *)
(* The policies are left open: a control may say anything of a resource.   *)
(* One member of Repositories stands for as many repositories as Alike     *)
(* says, which read alike, so that the divisions get to work on numbers of *)
(* some size.                                                              *)
(***************************************************************************)
EXTENDS Integers, FiniteSets

CONSTANTS
    Repositories,
    Instance,       \* the resource of the controls on the organization
    OrgControls,
    RepoControls,
    Severity,       \* HIGH, MEDIUM or LOW, of each control
    Automated,      \* the controls an API can answer
    ProjectOf,      \* the project a repository is in
    Alike,          \* how many there are of each resource
    Inputs,         \* the invocations: a command, a configuration and snapshots
    Unknown,        \* an ID no control has
    None            \* no value

Controls == OrgControls \cup RepoControls
Resources == Repositories \cup {Instance}
Projects == {ProjectOf[r] : r \in Repositories}
Sides == {"before", "after"}
Pairs == (OrgControls \X {Instance}) \cup (RepoControls \X Repositories)
Statuses == {"PASS", "FAIL", "MANUAL", "NA"}

Scores == [value : 0..100, passed : Nat, failed : Nat]

Exceptions == [control : Controls \cup {Unknown}, resources : SUBSET Resources,
               lapsed : BOOLEAN]

Configs ==
    [include : SUBSET (Controls \cup {Unknown}), exclude : SUBSET (Controls \cup {Unknown}),
     skipArchived : BOOLEAN, exceptions : SUBSET Exceptions,
     failOn : 0..3,                                 \* 0 is none
     failUnder : 0..100, maxManual : -1..100,
     allowIncomplete : BOOLEAN, failOnRegression : BOOLEAN, allowOtherInstance : BOOLEAN]

\* A snapshot, with what it leaves out: the repositories that existed, the archived
\* ones, the projects that could not be listed.
Snapshots == [existing : SUBSET Repositories, archived : SUBSET Repositories,
              unlisted : SUBSET Projects]

ASSUME EvaluationAssumption ==
    /\ IsFiniteSet(Controls) /\ IsFiniteSet(Repositories)
    /\ OrgControls \cap RepoControls = {}
    /\ Severity \in [Controls -> {"HIGH", "MEDIUM", "LOW"}]
    /\ Alike \in [Resources -> Nat \ {0}]
    /\ Instance \notin Repositories
    /\ Unknown \notin Controls
    /\ None \notin Statuses /\ None \notin {0, 1, 2} /\ None \notin Scores
    /\ Inputs \subseteq [command : {"scan", "diff"}, config : Configs,
                         snap : [Sides -> Snapshots], sameInstance : BOOLEAN]

VARIABLES
    input,      \* the invocation
    pc,         \* where it is
    side,       \* the snapshot being evaluated; a scan has only "after"
    status,     \* the verdicts of each report
    broken,     \* the findings whose policy did not run, in each report
    left,       \* the findings the loop at hand has yet to visit
    tally,      \* what Compute adds up
    score,      \* the score of each report
    waived,     \* the findings that were accepted, in each report
    unread,     \* what exitStatus adds up
    result,     \* what Compare files
    exit        \* exit status

vars == <<input, pc, side, status, broken, left, tally, score, waived, unread, result, exit>>

config == input.config

\* Config.Selects
Selected == {c \in Controls : c \notin config.exclude
                              /\ (config.include = {} \/ c \in config.include)}

\* validateSelection, and the end of New
Misconfigured ==
    \/ Unknown \in config.include \cup config.exclude
    \/ \E x \in config.exceptions : x.control = Unknown
    \/ Selected = {}

Captured(s) == {r \in input.snap[s].existing : ProjectOf[r] \notin input.snap[s].unlisted}

\* The repositories a report is about.
InScope(s) == {r \in Captured(s) : config.skipArchived => r \notin input.snap[s].archived}

\* Every finding a report is made of.
Due(s) == ((OrgControls \cap Selected) \X {Instance})
          \cup ((RepoControls \cap Selected) \X InScope(s))

Weight(severity) == CASE severity = "HIGH" -> 3 [] severity = "MEDIUM" -> 2 [] OTHER -> 1

\* The findings that p stands for, and what they weigh together.
Count(p) == Alike[p[2]]
Worth(p) == Count(p) * Weight(Severity[p[1]])

NoTally == [passed |-> 0, failed |-> 0, earned |-> 0, total |-> 0]
NoResult == [regressed |-> {}, fixed |-> {}, new |-> {}, changed |-> {}, departed |-> {}]

Init ==
    /\ input \in Inputs
    /\ pc = "starting"
    /\ side = IF input.command = "diff" THEN "before" ELSE "after"
    /\ status = [s \in Sides |-> [p \in Pairs |-> None]]
    /\ broken = [s \in Sides |-> {}]
    /\ left = {}
    /\ tally = NoTally
    /\ score = [s \in Sides |-> None]
    /\ waived = [s \in Sides |-> {}]
    /\ unread = 0
    /\ result = NoResult
    /\ exit = None

Judged(s) == {p \in Pairs : status[s][p] # None}

Exit(n) == pc' = "done" /\ exit' = n

-----------------------------------------------------------------------------
\* Engine.Evaluate

\* What diff has nothing to say about. There is one platform.
Incomparable == input.command = "diff" /\ ~input.sameInstance /\ ~config.allowOtherInstance

\* The engine is made, or refuses a configuration that names what does not exist.
Start ==
    /\ pc = "starting"
    /\ \/ (Incomparable \/ Misconfigured) /\ Exit(2) /\ UNCHANGED left
       \/ ~Incomparable /\ ~Misconfigured /\ pc' = "judging" /\ left' = Due(side) /\ UNCHANGED exit
    /\ UNCHANGED <<input, side, status, broken, tally, score, waived, unread, result>>

\* The finding a loop visits next. Nothing depends on the order.
Following == CHOOSE p \in left : TRUE

\* evaluateOne: the policy decides, or it does not run, which is MANUAL and noted.
\* A control no API answers has a policy that decides nothing.
Judge ==
    /\ pc = "judging"
    /\ left # {}
    /\ \/ \E v \in IF Following[1] \in Automated THEN Statuses ELSE {"MANUAL", "NA"} :
             status' = [status EXCEPT ![side][Following] = v]
          /\ UNCHANGED broken
       \/ /\ status' = [status EXCEPT ![side][Following] = "MANUAL"]
          /\ broken' = [broken EXCEPT ![side] = @ \cup {Following}]
    /\ left' = left \ {Following}
    /\ UNCHANGED <<input, pc, side, tally, score, waived, unread, result, exit>>

\* A resource that cannot be encoded ends the run.
NotEncoded ==
    /\ pc = "judging"
    /\ Exit(2)
    /\ UNCHANGED <<input, side, status, broken, left, tally, score, waived, unread, result>>

AllJudged ==
    /\ pc = "judging"
    /\ left = {}
    /\ pc' = "counting"
    /\ left' = Judged(side)
    /\ tally' = NoTally
    /\ UNCHANGED <<input, side, status, broken, score, waived, unread, result, exit>>

\* One turn of the loop of Compute.
Add ==
    /\ pc = "counting"
    /\ left # {}
    /\ LET v == status[side][Following]
       IN tally' = CASE v = "PASS" -> [tally EXCEPT !.passed = @ + Count(Following),
                                                    !.earned = @ + Worth(Following),
                                                    !.total = @ + Worth(Following)]
                     [] v = "FAIL" -> [tally EXCEPT !.failed = @ + Count(Following),
                                                    !.total = @ + Worth(Following)]
                     [] OTHER -> tally
    /\ left' = left \ {Following}
    /\ UNCHANGED <<input, pc, side, status, broken, score, waived, unread, result, exit>>

\* Mutation: the percentage is rounded.
ValueRounded(t) == IF t.total = 0 THEN 0
                   ELSE (200 * t.earned + t.total) \div (2 * t.total)

\* The share of what was decided that passed, never rounded up.
Value(t) == IF t.total = 0 THEN 0 ELSE (t.earned * 100) \div t.total

Score ==
    /\ pc = "counting"
    /\ left = {}
    /\ score' = [score EXCEPT ![side] = [value |-> Value(tally), passed |-> tally.passed,
                                         failed |-> tally.failed]]
    /\ pc' = "accepting"
    /\ UNCHANGED <<input, side, status, broken, left, tally, waived, unread, result, exit>>

\* An exception names a finding.
Names(x, p) == x.control = p[1] /\ p[2] \in x.resources

\* Mutation: exceptions have no last day.
AcceptedForGood(p) == \E x \in config.exceptions : Names(x, p)

\* The exceptions that have not lapsed name it.
Accepted(p) == \E x \in config.exceptions : ~x.lapsed /\ Names(x, p)

\* applyExceptions: what failed or could not be decided can be accepted.
ApplyExceptions ==
    /\ pc = "accepting"
    /\ waived' = [waived EXCEPT ![side] =
                    {p \in Judged(side) : Accepted(p) /\ status[side][p] \in {"FAIL", "MANUAL"}}]
    /\ \/ /\ input.command = "scan"
          /\ pc' = "weighing" /\ side' = side /\ left' = Judged(side)
       \/ /\ input.command = "diff" /\ side = "before"
          /\ pc' = "judging" /\ side' = "after" /\ left' = Due("after")
       \/ /\ input.command = "diff" /\ side = "after"
          /\ pc' = "comparing" /\ side' = side /\ left' = {}
    /\ UNCHANGED <<input, status, broken, tally, score, unread, result, exit>>

-----------------------------------------------------------------------------
\* exitStatus of a scan

\* The loop that counts what the token failed to read, which only one gate asks for.
CountUnread ==
    /\ pc = "weighing"
    /\ left # {}
    /\ unread' = IF /\ status["after"][Following] = "MANUAL"
                    /\ Following[1] \in Automated
                    /\ Following \notin waived["after"]
                 THEN unread + Count(Following) ELSE unread
    /\ left' = left \ {Following}
    /\ UNCHANGED <<input, pc, side, status, broken, tally, score, waived, result, exit>>

\* coverageStatus
Uncovered ==
    \/ InScope("after") = {}
    \/ input.snap["after"].unlisted # {} /\ ~config.allowIncomplete

\* Mutation: the percentage of unread findings is floored.
TooMuchUnreadFloored ==
    LET decidable == score["after"].passed + score["after"].failed + unread
    IN /\ config.maxManual >= 0
       /\ decidable > 0
       /\ (unread * 100) \div decidable > config.maxManual

TooMuchUnread ==
    LET decidable == score["after"].passed + score["after"].failed + unread
    IN /\ config.maxManual >= 0
       /\ decidable > 0
       /\ unread * 100 > config.maxManual * decidable

\* HasFailureAtOrAbove
Failing ==
    /\ config.failOn # 0
    /\ \E p \in Judged("after") :
          /\ status["after"][p] = "FAIL"
          /\ p \notin waived["after"]
          /\ Weight(Severity[p[1]]) >= config.failOn

Breached == TooMuchUnread \/ score["after"].value < config.failUnder \/ Failing

Gate ==
    /\ pc = "weighing"
    /\ left = {}
    /\ \/ (Uncovered \/ broken["after"] # {}) /\ Exit(2)
       \/ ~Uncovered /\ broken["after"] = {} /\ Breached /\ Exit(1)
       \/ ~Uncovered /\ broken["after"] = {} /\ ~Breached /\ Exit(0)
    /\ UNCHANGED <<input, side, status, broken, left, tally, score, waived, unread, result>>

-----------------------------------------------------------------------------
\* Compare

\* A finding of both reports.
Moved(from, to) == {p \in Pairs : status["before"][p] = from /\ status["after"][p] = to}

\* Mutation: only what was or became MANUAL is listed.
OtherMovesOfManual ==
    UNION {Moved(m[1], m[2]) : m \in {"MANUAL"} \X (Statuses \ {"MANUAL"})
                                     \cup (Statuses \ {"MANUAL"}) \X {"MANUAL"}}

OtherMoves ==
    UNION {Moved(m[1], m[2]) :
           m \in {n \in Statuses \X Statuses :
                     n[1] # n[2] /\ n \notin {<<"PASS", "FAIL">>, <<"FAIL", "PASS">>}}}

\* departedResources: one entry per resource.
Departed == {p[2] : p \in Judged("before") \ Judged("after")}

Comparison ==
    [regressed |-> Moved("PASS", "FAIL"),
     fixed |-> Moved("FAIL", "PASS"),
     new |-> Moved(None, "FAIL"),
     changed |-> OtherMoves \cup Moved(None, "MANUAL"),
     departed |-> Departed]

\* Reports with policies that did not run are not compared; and what was found may
\* not reach its reader.
Compare ==
    /\ pc = "comparing"
    /\ \/ broken["before"] \cup broken["after"] # {} /\ Exit(2) /\ UNCHANGED result
       \/ /\ broken["before"] \cup broken["after"] = {}
          /\ result' = Comparison
          /\ \/ Exit(2)
             \/ Exit(IF config.failOnRegression /\ result'.regressed # {} THEN 1 ELSE 0)
    /\ UNCHANGED <<input, side, status, broken, left, tally, score, waived, unread>>

Over == pc = "done" /\ UNCHANGED vars

Next ==
    \/ Start \/ Judge \/ NotEncoded \/ AllJudged \/ Add \/ Score \/ ApplyExceptions
    \/ CountUnread \/ Gate \/ Compare \/ Over

Spec == Init /\ [][Next]_vars

-----------------------------------------------------------------------------
TypeOK ==
    /\ input \in Inputs
    /\ pc \in {"starting", "judging", "counting", "accepting", "weighing", "comparing", "done"}
    /\ side \in Sides
    /\ status \in [Sides -> [Pairs -> Statuses \cup {None}]]
    /\ broken \in [Sides -> SUBSET Pairs]
    /\ left \subseteq Pairs
    /\ tally \in [passed : Nat, failed : Nat, earned : Nat, total : Nat]
    /\ score \in [Sides -> Scores \cup {None}]
    /\ waived \in [Sides -> SUBSET Pairs]
    /\ unread \in Nat
    /\ result \in [regressed : SUBSET Pairs, fixed : SUBSET Pairs, new : SUBSET Pairs,
                   changed : SUBSET Pairs, departed : SUBSET Resources]
    /\ exit \in {None, 0, 1, 2}

\* A score of 100 is a report without a failure, accepted ones included, in which
\* something passed; nothing is credited for what was not decided.
ScoreIsHonest ==
    \A s \in Sides : score[s] # None =>
        /\ score[s].value = 100 <=>
              /\ \E p \in Pairs : status[s][p] = "PASS"
              /\ \A p \in Pairs : status[s][p] # "FAIL"
        /\ (\A p \in Pairs : status[s][p] # "PASS") => score[s].value = 0

\* An exit status of 0 is earned: every selected control was put to every repository
\* in scope, of which there are some, and its policy ran; what failed at the severity
\* of the gate or above is accepted by an exception in force; a gate at its
\* strictest lets nothing through but what such an exception names.
GreenIsEarned ==
    input.command = "scan" /\ exit = 0 =>
        /\ InScope("after") # {}
        /\ \A c \in Selected \cap RepoControls : \A r \in InScope("after") :
              status["after"][<<c, r>>] # None
        /\ broken["after"] = {}
        /\ \A p \in Pairs :
              /\ status["after"][p] = "FAIL" =>
                    /\ config.failOn = 0 \/ Weight(Severity[p[1]]) < config.failOn
                       \/ \E x \in config.exceptions : ~x.lapsed /\ Names(x, p)
                    /\ config.failUnder < 100
              /\ status["after"][p] = "MANUAL" /\ p[1] \in Automated /\ config.maxManual = 0 =>
                    \E x \in config.exceptions : ~x.lapsed /\ Names(x, p)

\* A comparison files every finding that moved, and files it once; what is new is of
\* a resource that was in no finding before, and what has departed is in none now.
ChangesAreFiled ==
    result # NoResult =>
        LET classes == {"regressed", "fixed", "new", "changed"}
        IN /\ \A k, l \in classes : k # l => result[k] \cap result[l] = {}
           /\ \A p \in Pairs : status["before"][p] # status["after"][p] =>
                 \/ \E k \in classes : p \in result[k]
                 \/ p[2] \in result.departed
                 \/ status["before"][p] = None /\ status["after"][p] \in {"PASS", "NA"}
           /\ \A p \in result.new : \A q \in Judged("before") : q[2] # p[2]
           /\ \A p \in Judged("after") : p[2] \notin result.departed

=============================================================================
