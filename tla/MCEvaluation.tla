---------------------------- MODULE MCEvaluation ----------------------------
(* Scans and comparisons of three repositories in two projects, one of which stands
   for two hundred that are alike. *)
EXTENDS Evaluation, TLC

CONSTANTS a, b, c, p1, p2, org, high, low

MCRepositories == {a, b, c}
MCProjectOf == a :> p1 @@ b :> p1 @@ c :> p2
MCOrgControls == {org}
MCRepoControls == {high, low}
MCSeverity == org :> "LOW" @@ high :> "HIGH" @@ low :> "LOW"
MCAutomated == {high, low}
MCAlike == a :> 200 @@ b :> 1 @@ c :> 1 @@ Instance :> 1

Default == [include |-> {}, exclude |-> {}, skipArchived |-> FALSE, exceptions |-> {},
            failOn |-> 3, failUnder |-> 0, maxManual |-> -1, allowIncomplete |-> FALSE,
            failOnRegression |-> TRUE, allowOtherInstance |-> FALSE]

On(control, resources, lapsed) ==
    [control |-> control, resources |-> resources, lapsed |-> lapsed]

OneProject == [existing |-> {a, b}, archived |-> {}, unlisted |-> {}]
Grown == [existing |-> {b, c}, archived |-> {c}, unlisted |-> {}]
Partial == [existing |-> {a, c}, archived |-> {}, unlisted |-> {p2}]
Nothing == [existing |-> {}, archived |-> {}, unlisted |-> {}]

ScanConfigs ==
    {[Default EXCEPT !.exceptions = {On(high, {a}, FALSE), On(high, {b}, TRUE)}],
     [Default EXCEPT !.failOn = 1, !.maxManual = 0,
                     !.exceptions = {On(low, {b}, FALSE), On(org, {Instance}, FALSE)}],
     [Default EXCEPT !.failOn = 0, !.failUnder = 100, !.maxManual = 50],
     [Default EXCEPT !.allowIncomplete = TRUE, !.skipArchived = TRUE, !.exclude = {low}],
     [Default EXCEPT !.include = {Unknown}]}

DiffConfigs ==
    {[Default EXCEPT !.exclude = {low}, !.skipArchived = TRUE],
     [Default EXCEPT !.include = {high}, !.failOnRegression = FALSE,
                     !.allowOtherInstance = TRUE]}

Scans == [command : {"scan"}, config : ScanConfigs, sameInstance : {TRUE},
          snap : {[s \in Sides |-> after] : after \in {OneProject, Grown, Partial, Nothing}}]
Diffs == [command : {"diff"}, config : DiffConfigs, sameInstance : BOOLEAN,
          snap : [Sides -> {OneProject, Grown, Partial}]]

MCInputs == Scans \cup Diffs
=============================================================================
