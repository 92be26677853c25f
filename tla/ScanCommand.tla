------------------------------ MODULE ScanCommand ------------------------------
(***************************************************************************)
(* Invocations of `bitbucket-bench scan` that share a machine: runScan of  *)
(* internal/cli/scan.go with the files it leaves for later invocations,    *)
(* which are the snapshot cache (internal/config/cache.go), the saved      *)
(* instance (internal/config/instance.go), --snapshot-out and              *)
(* --output-file. Invocations interleave, and each may be killed between   *)
(* any two of its steps.                                                   *)
(*                                                                         *)
(* A token is named by the instance that accepts it, so a request is       *)
(* answered where token and URL agree. The network scan is one step, what  *)
(* ScanContract promises of it: a snapshot or a failure. What the engine   *)
(* finds is left open here and is the subject of Evaluation.               *)
(***************************************************************************)
EXTENDS Integers, FiniteSets

CONSTANTS
    Runs,       \* the invocations
    Urls,       \* base URLs of instances
    Hosts,      \* the hosts they are on
    HostOf,     \* which instance is on which host
    Commands,   \* the command lines of each, with environment and configuration
    MaxKills,   \* bound on the invocations that are killed
    None,       \* no value
    Demo,       \* the example compiled into the binary
    Bad         \* a token no instance accepts

OutPath == "snapshot"       \* the file --snapshot-out and --snapshot-in name
ReportPath == "report"      \* the file --output-file names
Stdout == "stdout"

Tokens == Urls \cup {Bad, None}

\* What is typed or exported: a URL and a token, either of which may be absent.
Pairs == [url : Urls \cup {None}, token : Tokens]

\* What a person may answer to the menu of promptFirstRun.
Answers == [choice : {"quit", "demo", "enter"}, url : Urls \cup {None}, token : Tokens,
            save : BOOLEAN]

CommandLines ==
    [demo : BOOLEAN, last : BOOLEAN, in : BOOLEAN,      \* --demo, --last, --snapshot-in
     narrowed : BOOLEAN,                                \* --project or --repository
     out : BOOLEAN, file : BOOLEAN,                     \* --snapshot-out, --output-file
     typed : Pairs, env : Pairs,                        \* flags, BITBUCKET_URL and _TOKEN
     cache : BOOLEAN, allow : BOOLEAN,                  \* scan.cache, scan.allowIncomplete
     answers : SUBSET Answers]                          \* of whoever is at the terminal

ASSUME CommandAssumption ==
    /\ HostOf \in [Urls -> Hosts]
    /\ Commands \in [Runs -> SUBSET CommandLines]
    /\ IsFiniteSet(Runs) /\ MaxKills \in Nat
    /\ Runs \cap {None, Demo} = {}
    /\ Demo # None
    /\ Urls \cap {None, Bad} = {}
    /\ Bad # None
    /\ Hosts \cap {None, OutPath, ReportPath, Stdout} = {}
    /\ None \notin {OutPath, ReportPath, Stdout}

VARIABLES
    pc,         \* where runScan is
    asked,      \* the command line
    opt,        \* scanOptions as runScan goes on: demo, in, url, token, save
    snapshot,   \* the snapshot in hand, named by the invocation that captured it
    unlisted,   \* whether the snapshot it captured has projects that were not listed
    rep,        \* what the engine reports
    exit,       \* exit status
    temp,       \* the temporary file of writePrivateFile
    files,      \* the files at the end of their paths
    instance,   \* instance.yaml
    clock,      \* modification times, which matter in the cache
    wrote,      \* history: the files finished by an invocation
    before,     \* history: the scans in the cache when a scan began to be cached
    seen        \* history: the scans in the cache when --last looked

vars == <<pc, asked, opt, snapshot, unlisted, rep, exit, temp, files, instance,
          clock, wrote, before, seen>>

world == <<temp, files, instance, clock, wrote, before, seen>>

Paths == Hosts \cup {OutPath, ReportPath}
Snapshots == Runs \cup {Demo}
NoPair == [url |-> None, token |-> None]
Torn == [url |-> None, token |-> Bad]       \* of instance.yaml: not YAML of an instance
NoCommand == [demo |-> FALSE, last |-> FALSE, in |-> FALSE, narrowed |-> FALSE,
              out |-> FALSE, file |-> FALSE, typed |-> NoPair, env |-> NoPair,
              cache |-> FALSE, allow |-> FALSE, answers |-> {}]
NoOptions == [demo |-> FALSE, in |-> None, url |-> None, token |-> None, save |-> FALSE]
NoFile == [of |-> None, whole |-> TRUE, mtime |-> 0]
NoTemp == [path |-> None, whole |-> FALSE, mtime |-> 0]

\* A report covers no repository, or has policies that did not run, or breaches a
\* threshold, or none of this.
Reports == {"empty", "broken", "breached", "clean"}

Stages == {"idle", "resolving", "prompting", "obtaining", "saving", "truncated",
           "storing", "caching", "evaluating", "reporting", "done", "killed"}

Init ==
    /\ pc = [r \in Runs |-> "idle"]
    /\ asked = [r \in Runs |-> NoCommand]
    /\ opt = [r \in Runs |-> NoOptions]
    /\ snapshot = [r \in Runs |-> None]
    /\ unlisted = [r \in Runs |-> FALSE]
    /\ rep = [r \in Runs |-> None]
    /\ exit = [r \in Runs |-> None]
    /\ temp = [r \in Runs |-> NoTemp]
    /\ files = [p \in Paths |-> NoFile]
    /\ instance = NoPair
    /\ clock = 0
    /\ wrote = [r \in Runs |-> {}]
    /\ before = [r \in Runs |-> {}]
    /\ seen = [r \in Runs |-> {}]

-----------------------------------------------------------------------------
\* Reading the command line.

Typed(c) == c.typed # NoPair

\* Flags the demo, or the cache, would have nothing to do with.
DemoRefuses(c) == c.demo /\ (Typed(c) \/ c.narrowed \/ c.in \/ c.last)
LastRefuses(c) == c.last /\ (Typed(c) \/ c.narrowed \/ c.in)

\* What is typed wins over what is exported.
Either(typed, exported) == IF typed # None THEN typed ELSE exported

Credentials(c) == [url |-> Either(c.typed.url, c.env.url),
                   token |-> Either(c.typed.token, c.env.token)]

\* The scans with a snapshot in the cache, overwritten ones included.
Cached == {q \in Runs : wrote[q] \cap Hosts # {}}

\* LatestSnapshotCache: the .json files, which a temporary file is not.
CacheEntries == {h \in Hosts : files[h].of # None}

\* Mutation: the comparison of times is turned around.
LatestSnapshotCacheOldest ==
    {h \in CacheEntries : \A g \in CacheEntries : files[g].mtime >= files[h].mtime}

LatestSnapshotCache ==
    {h \in CacheEntries : \A g \in CacheEntries : files[g].mtime <= files[h].mtime}

\* The process ends, and what it had found is gone with it.
End(r, status) ==
    /\ pc' = [pc EXCEPT ![r] = "done"]
    /\ rep' = [rep EXCEPT ![r] = None]
    /\ exit' = [exit EXCEPT ![r] = status]

\* An invocation starts: flags are refused or sorted out, and --last becomes
\* --snapshot-in of the newest file in the cache.
Begin(r) ==
    /\ pc[r] = "idle"
    /\ \E c \in Commands[r] :
        /\ asked' = [asked EXCEPT ![r] = c]
        /\ \/ /\ DemoRefuses(c) \/ LastRefuses(c)
              /\ End(r, 2)
              /\ UNCHANGED <<opt, seen>>
           \/ /\ ~DemoRefuses(c) /\ ~LastRefuses(c)
              /\ c.last /\ CacheEntries = {}
              /\ End(r, 2)
              /\ UNCHANGED <<opt, seen>>
           \/ /\ ~DemoRefuses(c) /\ ~LastRefuses(c)
              /\ c.last
              /\ \E h \in LatestSnapshotCache :
                    opt' = [opt EXCEPT ![r] = [NoOptions EXCEPT !.in = h]]
              /\ seen' = [seen EXCEPT ![r] = Cached]
              /\ pc' = [pc EXCEPT ![r] = "resolving"]
              /\ UNCHANGED <<exit, rep>>
           \/ /\ ~DemoRefuses(c) /\ ~c.last
              /\ opt' = [opt EXCEPT ![r] =
                    IF c.demo THEN [NoOptions EXCEPT !.demo = TRUE]
                    ELSE [NoOptions EXCEPT !.in = IF c.in THEN OutPath ELSE None,
                                           !.url = Credentials(c).url,
                                           !.token = Credentials(c).token]]
              /\ pc' = [pc EXCEPT ![r] = "resolving"]
              /\ UNCHANGED <<exit, rep, seen>>
    /\ UNCHANGED <<snapshot, unlisted, temp, files, instance, clock, wrote, before>>

\* The configuration is unreadable or, which is found after the menu only, names an
\* unknown control, or an option is malformed: all of it before an instance was asked
\* anything.
Refuse(r) ==
    /\ pc[r] \in {"resolving", "obtaining"}
    /\ End(r, 2)
    /\ UNCHANGED <<asked, opt, snapshot, unlisted>> /\ UNCHANGED world

\* Nothing says yet what to scan.
Unsettled(r) == ~opt[r].demo /\ opt[r].in = None /\ opt[r].url = None

\* Mutation: --project is let through with --snapshot-in.
OptionsRefusedNever(r) == FALSE

\* validateScanOptions: a snapshot that was taken cannot be narrowed.
OptionsRefused(r) == opt[r].in # None /\ asked[r].narrowed

\* It is settled what to scan.
Settle(r, o) ==
    /\ opt' = [opt EXCEPT ![r] = o]
    /\ pc' = [pc EXCEPT ![r] = "obtaining"]
    /\ UNCHANGED <<exit, rep>>

\* LoadInstance, where it is needed: the saved URL goes with its own token only.
\* With nothing saved, the menu is shown to whoever is there; with something that
\* does not parse, the run ends.
Resolve(r) ==
    /\ pc[r] = "resolving"
    /\ \/ ~Unsettled(r) /\ OptionsRefused(r) /\ End(r, 2) /\ UNCHANGED opt
       \/ ~Unsettled(r) /\ ~OptionsRefused(r) /\ Settle(r, opt[r])
       \/ /\ Unsettled(r) /\ instance.url # None
          /\ opt[r].token # None
          /\ End(r, 2) /\ UNCHANGED opt
       \/ /\ Unsettled(r) /\ instance.url # None
          /\ opt[r].token = None
          /\ Settle(r, [opt[r] EXCEPT !.url = instance.url, !.token = instance.token])
       \/ /\ Unsettled(r) /\ instance = Torn
          /\ End(r, 2) /\ UNCHANGED opt
       \/ /\ Unsettled(r) /\ instance = NoPair
          /\ asked[r].answers = {}
          /\ End(r, 2) /\ UNCHANGED opt
       \/ /\ Unsettled(r) /\ instance = NoPair
          /\ asked[r].answers # {}
          /\ pc' = [pc EXCEPT ![r] = "prompting"]
          /\ UNCHANGED <<opt, exit, rep>>
    /\ UNCHANGED <<asked, snapshot, unlisted>> /\ UNCHANGED world

\* Mutation: what is entered is saved before it was tried.
PromptAndSave(r) ==
    /\ pc[r] = "prompting"
    /\ \E a \in asked[r].answers :
        /\ a.choice = "enter" /\ a.url # None /\ a.token # None
        /\ Settle(r, [opt[r] EXCEPT !.url = a.url, !.token = a.token])
        /\ instance' = [url |-> a.url, token |-> a.token]
    /\ UNCHANGED <<asked, snapshot, unlisted, temp, files, clock, wrote, before, seen>>

\* promptFirstRun and promptCredentials: quit, the demo, or a URL and a token,
\* neither of which may be empty.
Prompt(r) ==
    /\ pc[r] = "prompting"
    /\ \E a \in asked[r].answers :
        \/ a.choice = "quit" /\ End(r, 2) /\ UNCHANGED opt
        \/ a.choice = "demo" /\ Settle(r, [opt[r] EXCEPT !.demo = TRUE])
        \/ /\ a.choice = "enter" /\ (a.url = None \/ a.token = None)
           /\ End(r, 2) /\ UNCHANGED opt
        \/ /\ a.choice = "enter" /\ a.url # None /\ a.token # None
           /\ Settle(r, [opt[r] EXCEPT !.url = a.url, !.token = a.token, !.save = a.save])
    /\ UNCHANGED <<asked, snapshot, unlisted>> /\ UNCHANGED world

-----------------------------------------------------------------------------
\* Obtaining the snapshot, and what is done with it before it is evaluated.

Networked(r) == ~opt[r].demo /\ opt[r].in = None

ToCache(r) == IF Networked(r) /\ asked[r].cache THEN "caching" ELSE "evaluating"
ToStore(r) == IF asked[r].out THEN "storing" ELSE ToCache(r)
ToSave(r) == IF opt[r].save THEN "saving" ELSE ToStore(r)

Obtained(r, s) ==
    /\ snapshot' = [snapshot EXCEPT ![r] = s]
    /\ pc' = [pc EXCEPT ![r] = ToSave(r)]
    /\ UNCHANGED <<exit, rep>>

\* The example, or a file, which parseSnapshot accepts if it is all there.
Read(r) ==
    /\ pc[r] = "obtaining"
    /\ ~Networked(r)
    /\ \/ opt[r].demo /\ Obtained(r, Demo)
       \/ /\ ~opt[r].demo
          /\ LET f == files[opt[r].in]
             IN \/ (f.of = None \/ ~f.whole) /\ End(r, 2) /\ UNCHANGED snapshot
                \/ f.of # None /\ f.whole /\ Obtained(r, f.of)
    /\ UNCHANGED <<asked, opt, unlisted>> /\ UNCHANGED world

\* NewClient and Fetch. A client needs a credential, and a scan one that is accepted.
Scan(r) ==
    /\ pc[r] = "obtaining"
    /\ Networked(r)
    /\ \/ End(r, 2) /\ UNCHANGED <<snapshot, unlisted>>
       \/ /\ opt[r].token = opt[r].url
          /\ \E u \in BOOLEAN : unlisted' = [unlisted EXCEPT ![r] = u]
          /\ Obtained(r, r)
    /\ UNCHANGED <<asked, opt>> /\ UNCHANGED world

\* SaveInstance opens the file, which empties it, ...
Truncate(r) ==
    /\ pc[r] = "saving"
    /\ \/ pc' = [pc EXCEPT ![r] = ToStore(r)] /\ UNCHANGED instance     \* with a warning
       \/ pc' = [pc EXCEPT ![r] = "truncated"] /\ instance' = NoPair
    /\ UNCHANGED <<asked, opt, snapshot, unlisted, rep, exit, temp, files, clock, wrote,
                   before, seen>>

\* ... and writes it, over what another invocation has written since: a file of two
\* may not parse.
Save(r) ==
    /\ pc[r] = "truncated"
    /\ pc' = [pc EXCEPT ![r] = ToStore(r)]
    /\ \/ UNCHANGED instance                                            \* with a warning
       \/ instance' = [url |-> opt[r].url, token |-> opt[r].token]
       \/ instance # NoPair /\ instance' = Torn
    /\ UNCHANGED <<asked, opt, snapshot, unlisted, rep, exit, temp, files, clock, wrote,
                   before, seen>>

-----------------------------------------------------------------------------
\* writePrivateFile, of --snapshot-out, of the cache and of --output-file.

Writing(r) ==
    \/ pc[r] \in {"storing", "caching"}
    \/ pc[r] = "reporting" /\ asked[r].file

Target(r) ==
    IF pc[r] = "storing" THEN OutPath
    ELSE IF pc[r] = "caching" THEN HostOf[opt[r].url]
    ELSE ReportPath

\* A report is named by the invocation that made it.
Content(r) == IF pc[r] = "reporting" THEN r ELSE snapshot[r]

\* Mutation: the target is opened and emptied instead.
StageInPlace(r) ==
    /\ Writing(r)
    /\ temp[r] = NoTemp
    /\ temp' = [temp EXCEPT ![r] = [path |-> Target(r), whole |-> FALSE, mtime |-> 0]]
    /\ files' = [files EXCEPT ![Target(r)] = [of |-> Content(r), whole |-> FALSE, mtime |-> clock]]
    /\ before' = IF pc[r] = "caching" THEN [before EXCEPT ![r] = Cached] ELSE before
    /\ UNCHANGED <<pc, asked, opt, snapshot, unlisted, rep, exit, instance, clock, wrote, seen>>

\* A temporary file is created beside the target, ...
Stage(r) ==
    /\ Writing(r)
    /\ temp[r] = NoTemp
    /\ temp' = [temp EXCEPT ![r] = [path |-> Target(r), whole |-> FALSE, mtime |-> 0]]
    /\ before' = IF pc[r] = "caching" THEN [before EXCEPT ![r] = Cached] ELSE before
    /\ UNCHANGED <<pc, asked, opt, snapshot, unlisted, rep, exit, files, instance, clock,
                   wrote, seen>>

\* ... written and closed, ...
Fill(r) ==
    /\ Writing(r)
    /\ temp[r] # NoTemp /\ ~temp[r].whole
    /\ clock' = IF pc[r] = "caching" THEN clock + 1 ELSE clock
    /\ temp' = [temp EXCEPT ![r].whole = TRUE, ![r].mtime = clock']
    /\ UNCHANGED <<pc, asked, opt, snapshot, unlisted, rep, exit, files, instance, wrote,
                   before, seen>>

-----------------------------------------------------------------------------
\* The exit status.

\* Mutation: a replay is asked about a scan of its own.
CoverageRefusedFresh(r) ==
    \/ rep[r] = "empty"
    \/ unlisted[r] /\ ~asked[r].allow

\* A scan vouches for what it covered: for something, and for every project.
CoverageRefused(r) ==
    \/ rep[r] = "empty"
    \/ snapshot[r] # Demo /\ unlisted[snapshot[r]] /\ ~asked[r].allow

\* coverageStatus comes before exitStatus, and policies that did not run before
\* the thresholds.
Status(r) ==
    IF CoverageRefused(r) \/ rep[r] = "broken" THEN 2
    ELSE IF rep[r] = "breached" THEN 1 ELSE 0

\* ... and moved over the target, which finishes what was being done.
Rename(r) ==
    /\ Writing(r)
    /\ temp[r].whole
    /\ files' = [files EXCEPT ![temp[r].path] =
                    [of |-> Content(r), whole |-> temp[r].whole, mtime |-> temp[r].mtime]]
    /\ temp' = [temp EXCEPT ![r] = NoTemp]
    /\ wrote' = [wrote EXCEPT ![r] = @ \cup {temp[r].path}]
    /\ \/ pc[r] = "storing" /\ pc' = [pc EXCEPT ![r] = ToCache(r)] /\ UNCHANGED <<exit, rep>>
       \/ pc[r] = "caching" /\ pc' = [pc EXCEPT ![r] = "evaluating"] /\ UNCHANGED <<exit, rep>>
       \/ pc[r] = "reporting" /\ End(r, Status(r))
    /\ UNCHANGED <<asked, opt, snapshot, unlisted, instance, clock, before, seen>>

\* Any of the steps may fail, and the temporary file is removed. Only the cache
\* can do without.
WriteFails(r) ==
    /\ Writing(r)
    /\ temp' = [temp EXCEPT ![r] = NoTemp]
    /\ \/ pc[r] = "caching" /\ pc' = [pc EXCEPT ![r] = "evaluating"] /\ UNCHANGED <<exit, rep>>
       \/ pc[r] # "caching" /\ End(r, 2)
    /\ UNCHANGED <<asked, opt, snapshot, unlisted, files, instance, clock, wrote,
                   before, seen>>

\* The engine fails, for a snapshot of an unknown platform, or reports. The
\* report may say anything: Evaluation models what it says.
Evaluate(r) ==
    /\ pc[r] = "evaluating"
    /\ \/ End(r, 2)
       \/ /\ \E n \in Reports : rep' = [rep EXCEPT ![r] = n]
          /\ pc' = [pc EXCEPT ![r] = "reporting"]
          /\ UNCHANGED exit
    /\ UNCHANGED <<asked, opt, snapshot, unlisted>> /\ UNCHANGED world

\* The report goes to stdout, or rendering or printing it fails.
PrintReport(r) ==
    /\ pc[r] = "reporting"
    /\ ~asked[r].file
    /\ \/ wrote' = [wrote EXCEPT ![r] = @ \cup {Stdout}] /\ End(r, Status(r))
       \/ End(r, 2) /\ UNCHANGED wrote
    /\ UNCHANGED <<asked, opt, snapshot, unlisted, temp, files, instance, clock,
                   before, seen>>

\* The process is killed; its files stay as they are, the temporary one too.
Kill(r) ==
    /\ pc[r] \notin {"idle", "done", "killed"}
    /\ Cardinality({q \in Runs : pc[q] = "killed"}) < MaxKills
    /\ pc' = [pc EXCEPT ![r] = "killed"]
    /\ rep' = [rep EXCEPT ![r] = None]
    /\ UNCHANGED <<asked, opt, snapshot, unlisted, exit>> /\ UNCHANGED world

AllEnded ==
    /\ \A r \in Runs : pc[r] \in {"done", "killed"}
    /\ UNCHANGED vars

Step(r) ==
    \/ Begin(r) \/ Refuse(r) \/ Resolve(r) \/ Prompt(r)
    \/ Read(r) \/ Scan(r) \/ Truncate(r) \/ Save(r)
    \/ Stage(r) \/ Fill(r) \/ Rename(r) \/ WriteFails(r)
    \/ Evaluate(r) \/ PrintReport(r) \/ Kill(r)

Next == (\E r \in Runs : Step(r)) \/ AllEnded

Spec == Init /\ [][Next]_vars

-----------------------------------------------------------------------------
TypeOK ==
    /\ pc \in [Runs -> Stages]
    /\ asked \in [Runs -> CommandLines]
    /\ opt \in [Runs -> [demo : BOOLEAN, in : Hosts \cup {OutPath, None},
                         url : Urls \cup {None}, token : Tokens, save : BOOLEAN]]
    /\ snapshot \in [Runs -> Snapshots \cup {None}]
    /\ unlisted \in [Runs -> BOOLEAN]
    /\ rep \in [Runs -> Reports \cup {None}]
    /\ exit \in [Runs -> {None, 0, 1, 2}]
    /\ temp \in [Runs -> [path : Paths \cup {None}, whole : BOOLEAN, mtime : Nat]]
    /\ files \in [Paths -> [of : Snapshots \cup {None}, whole : BOOLEAN, mtime : Nat]]
    /\ instance \in Pairs
    /\ clock \in Nat
    /\ wrote \in [Runs -> SUBSET (Paths \cup {Stdout})]
    /\ before \in [Runs -> SUBSET Runs]
    /\ seen \in [Runs -> SUBSET Runs]

\* Invocation q completed a scan of an instance.
Scanned(q) == snapshot[q] = q

\* Whatever is killed or fails, and whenever: a file is what it was or the whole
\* of something finished. The cache holds nothing but scans of instances, each
\* under its host; never the demo, and never what was only read again.
FilesAreWhole ==
    /\ \A p \in Paths : files[p].of # None => files[p].whole
    /\ \A h \in Hosts : files[h].of # None =>
          files[h].of \in Runs /\ Scanned(files[h].of) /\ HostOf[opt[files[h].of].url] = h

\* The writing of one of two snapshots to the cache began before the other was there.
Overlap(p, q) == p \notin before[q] /\ q \notin before[p]

\* --last shows the previous scan: no snapshot that was in the cache already when
\* the writing of a later one began, unless the later one was replaced by one
\* being written at the same time.
LastIsLatest ==
    \A r \in Runs : asked[r].last /\ snapshot[r] # None =>
        \A q \in seen[r] : snapshot[r] \in before[q] =>
            \E p \in Cached \ {q} : Overlap(p, q) /\ HostOf[opt[p].url] = HostOf[opt[q].url]

\* What is reported is what was asked for: the instance at the URL that was typed,
\* now, with the projects that were typed; the example for --demo; a
\* scan of an instance for --last. Two ways around it are excepted: a URL next to
\* --snapshot-in is ignored, and so are projects when the menu shows the example.
AskedIsEvaluated ==
    \A r \in Runs : snapshot[r] # None =>
        /\ asked[r].demo => snapshot[r] = Demo
        /\ asked[r].last => snapshot[r] \in Runs /\ Scanned(snapshot[r])
        /\ asked[r].typed.url # None /\ ~asked[r].in =>
              Scanned(r) /\ opt[r].url = asked[r].typed.url
        /\ asked[r].narrowed => Scanned(r) \/ opt[r].demo

\* instance.yaml holds a URL and a token somebody entered together, wanted saved,
\* and scanned with. Nothing else is ever replayed by a run that asks nobody.
SavedInstanceWorked ==
    instance.url # None =>
        \E q \in Runs :
            /\ Scanned(q) /\ opt[q].save
            /\ instance = [url |-> opt[q].url, token |-> opt[q].token]

\* 0 and 1 are verdicts on the instance. They are never the exit status of a run
\* that saw no repository, missed a project it was not allowed to miss (be it in
\* the scan it replays), had a policy fail, or could not deliver what it was to write.
Vouched ==
    \A r \in Runs : pc[r] # "done" /\ pc'[r] = "done" /\ exit'[r] \in {0, 1} =>
        /\ snapshot[r] # None
        /\ rep[r] = IF exit'[r] = 0 THEN "clean" ELSE "breached"
        /\ snapshot[r] \in Runs => ~unlisted[snapshot[r]] \/ asked[r].allow
        /\ asked[r].out => OutPath \in wrote[r]
        /\ (IF asked[r].file THEN ReportPath ELSE Stdout) \in wrote'[r]
ExitVouches == [][Vouched]_vars

\* cache.go: "one file per host, so alternating between instances never records one
\* instance's posture under the other's name". Where an instance was cached there is a
\* snapshot of that instance.
OneInstancePerFile ==
    \A q \in Cached : opt[files[HostOf[opt[q].url]].of].url = opt[q].url

=============================================================================
