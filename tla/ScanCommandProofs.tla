--------------------------- MODULE ScanCommandProofs ---------------------------
(***************************************************************************)
(* ScanCommand for any number of invocations, instances and command lines. *)
(* The invariant says what an invocation has at each place of runScan      *)
(* (PerRun), what the cache holds and in which order it came to hold it    *)
(* (CachedScans, Files, Order, Kept), and what --last has looked up        *)
(* (Looked).                                                               *)
(***************************************************************************)
EXTENDS ScanCommand, TLAPS

\* Stages that follow the one in which the snapshot is obtained.
After == {"saving", "truncated", "storing", "caching", "evaluating", "reporting"}

\* One invocation: where it is tells what it has.
Control(r) ==
    /\ pc[r] \in {"idle", "resolving", "prompting", "obtaining"} => snapshot[r] = None
    /\ pc[r] \in After => snapshot[r] # None
    /\ pc[r] = "prompting" => Unsettled(r)
    /\ pc[r] = "obtaining" => ~Unsettled(r)
    /\ pc[r] = "caching" => Networked(r)
    /\ pc[r] \in {"resolving", "prompting"} => ~opt[r].save
    /\ pc[r] \in {"saving", "truncated"} => opt[r].save
    /\ opt[r].save => Networked(r)
    /\ temp[r] # NoTemp =>
          pc[r] = "killed" \/ (Writing(r) /\ temp[r].path = Target(r))

\* Where the snapshot in hand comes from.
Provenance(r) ==
    snapshot[r] # None =>
        \/ opt[r].demo /\ snapshot[r] = Demo
        \/ Networked(r) /\ snapshot[r] = r /\ opt[r].url # None
        \/ /\ ~opt[r].demo /\ opt[r].in # None
           /\ opt[r].in \in Hosts => snapshot[r] \in Runs /\ Scanned(snapshot[r])

\* A command line that was accepted became these options.
Request(r) ==
    pc[r] \notin {"idle", "done"} \/ snapshot[r] # None =>
        /\ asked[r].demo => opt[r].demo
        /\ asked[r].last => ~opt[r].demo /\ opt[r].in \in Hosts
        /\ asked[r].typed.url # None /\ ~asked[r].in =>
              ~opt[r].demo /\ opt[r].in = None /\ opt[r].url = asked[r].typed.url
        /\ asked[r].narrowed /\ (pc[r] \in After \cup {"obtaining"} \/ snapshot[r] # None) =>
              opt[r].in = None

\* What is finished when the report is made.
Progress(r) ==
    /\ pc[r] = "reporting" => rep[r] \in Reports
    /\ pc[r] \in {"caching", "evaluating", "reporting"} /\ asked[r].out => OutPath \in wrote[r]

PerRun(r) == Control(r) /\ Provenance(r) /\ Request(r) /\ Progress(r)

\* The scans in the cache.
CachedScans ==
    \A q \in Cached :
        /\ Scanned(q)
        /\ pc[q] \in {"evaluating", "reporting", "done", "killed"}
        /\ opt[q].url # None

\* Snapshot q was replaced by one that was written to the cache at the same time.
Replaced(q) ==
    \E p \in Cached \ {q} : Overlap(p, q) /\ HostOf[opt[p].url] = HostOf[opt[q].url]

\* The files, whose times are past, and which are younger than those they came after.
Files ==
    /\ \A p \in Paths : files[p].of # None => files[p].whole
    /\ \A h \in Hosts : files[h].of # None =>
          /\ files[h].of \in Cached
          /\ HostOf[opt[files[h].of].url] = h
          /\ files[h].mtime <= clock
    /\ \A g, h \in Hosts : 
          files[g].of # None /\ files[h].of # None /\ files[h].of \in before[files[g].of] =>
             files[h].mtime < files[g].mtime
    /\ \A y \in Runs : pc[y] = "caching" /\ temp[y].whole =>
          /\ temp[y].mtime <= clock
          /\ \A h \in Hosts : 
                files[h].of # None /\ files[h].of \in before[y] => files[h].mtime < temp[y].mtime

\* Coming before is transitive, and only of what was there.
Order ==
    /\ \A y \in Runs : before[y] \subseteq Cached
    /\ \A y \in Runs : \A q \in before[y] : before[q] \subseteq before[y]
    /\ \A r \in Runs : seen[r] \subseteq Cached
    /\ \A r \in Runs : \A q \in seen[r] : before[q] \subseteq seen[r]

\* A scan in the cache is there, or something newer is, or it was replaced.
Kept ==
    \A q \in Cached :
        LET y == files[HostOf[opt[q].url]].of
        IN y # None /\ (y = q \/ q \in before[y] \/ Replaced(q))

\* What --last is about to read is the latest, and what it has read was.
Latest(r, s) == \A q \in seen[r] : s \in before[q] => Replaced(q)
Looked ==
    \A r \in Runs : asked[r].last /\ pc[r] \in {"resolving", "obtaining"} =>
        files[opt[r].in].of # None /\ Latest(r, files[opt[r].in].of)

IInv ==
    /\ TypeOK
    /\ \A r \in Runs : PerRun(r)
    /\ CachedScans /\ Files /\ Order /\ Kept /\ Looked
    /\ LastIsLatest /\ SavedInstanceWorked
-----------------------------------------------------------------------------
\* A step of one invocation leaves the memory and the history of the others alone.
LEMMA Frame ==
    ASSUME TypeOK, NEW r \in Runs, Step(r), NEW q \in Runs, q # r
    PROVE  /\ pc'[q] = pc[q] /\ asked'[q] = asked[q] /\ opt'[q] = opt[q]
           /\ snapshot'[q] = snapshot[q] /\ unlisted'[q] = unlisted[q]
           /\ rep'[q] = rep[q] /\ exit'[q] = exit[q] /\ temp'[q] = temp[q]
           /\ wrote'[q] = wrote[q] /\ before'[q] = before[q] /\ seen'[q] = seen[q]
<1>1. CASE Begin(r)
  BY <1>1 DEF Begin, End, world, TypeOK
<1>2. CASE Refuse(r)
  BY <1>2 DEF Refuse, End, world, TypeOK
<1>3. CASE Resolve(r)
  BY <1>3 DEF Resolve, End, world, TypeOK, Settle
<1>4. CASE Prompt(r)
  BY <1>4 DEF Prompt, End, world, TypeOK, Settle
<1>5. CASE Read(r)
  BY <1>5 DEF Read, End, world, TypeOK, Obtained
<1>6. CASE Scan(r)
  BY <1>6 DEF Scan, End, world, TypeOK, Obtained
<1>7. CASE Truncate(r)
  BY <1>7 DEF Truncate, End, world, TypeOK
<1>8. CASE Save(r)
  BY <1>8 DEF Save, End, world, TypeOK
<1>9. CASE Stage(r)
  BY <1>9 DEF Stage, End, world, TypeOK
<1>10. CASE Fill(r)
  BY <1>10 DEF Fill, End, world, TypeOK
<1>11. CASE Rename(r)
  BY <1>11 DEF Rename, End, world, TypeOK
<1>12. CASE WriteFails(r)
  BY <1>12 DEF WriteFails, End, world, TypeOK
<1>13. CASE Evaluate(r)
  BY <1>13 DEF Evaluate, End, world, TypeOK
<1>14. CASE PrintReport(r)
  BY <1>14 DEF PrintReport, End, world, TypeOK
<1>15. CASE Kill(r)
  BY <1>15 DEF Kill, End, world, TypeOK
<1> QED BY <1>1, <1>2, <1>3, <1>4, <1>5, <1>6, <1>7, <1>8, <1>9, <1>10, <1>11, <1>12, <1>13, <1>14, <1>15 DEF Step

\* What is being written, and where.
LEMMA Aimed ==
    ASSUME TypeOK, NEW r \in Runs, Control(r), Provenance(r), Writing(r)
    PROVE  /\ Target(r) \in Paths /\ Content(r) \in Snapshots
           /\ Target(r) \in Hosts <=> pc[r] = "caching"
           /\ pc[r] = "caching" =>
                 /\ snapshot[r] = r /\ opt[r].url \in Urls /\ opt[r].url # None
                 /\ Target(r) = HostOf[opt[r].url] /\ Content(r) = r
           /\ Target(r) = OutPath <=> pc[r] = "storing"
<1>1. pc[r] \in {"storing", "caching", "reporting"} /\ snapshot[r] # None
  BY DEF Writing, Control, After
<1>2. snapshot[r] \in Snapshots
  BY <1>1 DEF TypeOK
<1>3. pc[r] = "caching" => snapshot[r] = r /\ opt[r].url \in Urls /\ opt[r].url # None
  BY <1>1 DEF Control, Provenance, Networked, TypeOK
<1>4. pc[r] = "caching" => HostOf[opt[r].url] \in Hosts
  BY <1>3, CommandAssumption
<1> QED
  BY <1>1, <1>2, <1>3, <1>4, CommandAssumption
  DEF Target, Content, Paths, Snapshots, OutPath, ReportPath

\* The stages, one by one, for the provers.
LEMMA StagesAre ==
    /\ "idle" \in Stages /\ "resolving" \in Stages /\ "prompting" \in Stages
    /\ "obtaining" \in Stages /\ "saving" \in Stages /\ "truncated" \in Stages
    /\ "storing" \in Stages /\ "caching" \in Stages /\ "evaluating" \in Stages
    /\ "reporting" \in Stages /\ "done" \in Stages /\ "killed" \in Stages
BY DEF Stages

\* Every step keeps the types. That what is written has a path and a content
\* takes Aimed, and so the invariant of the invocation that writes.
LEMMA TypeHolds ==
    ASSUME TypeOK, NEW r \in Runs, PerRun(r), Step(r)
    PROVE  TypeOK'
<1> USE DEF TypeOK
<1>1. CASE Begin(r)
  <2>1. PICK c \in Commands[r] : asked' = [asked EXCEPT ![r] = c]
    BY <1>1 DEF Begin
  <2>2. c \in CommandLines
    BY CommandAssumption
  <2>3. asked' \in [Runs -> CommandLines]
    BY <2>1, <2>2
  <2>4. /\ Credentials(c).url \in Urls \cup {None}
        /\ Credentials(c).token \in Tokens
    BY <2>2 DEF Credentials, Either, CommandLines, Pairs
  <2>5. seen' \in [Runs -> SUBSET Runs]
    BY <1>1 DEF Begin, Cached
  <2>6. exit' \in [Runs -> {None, 0, 1, 2}]
    BY <1>1 DEF Begin, End
  <2>9. pc' \in [Runs -> Stages]
    BY <1>1, StagesAre DEF Begin, End
  <2>7. rep' \in [Runs -> Reports \cup {None}]
    BY <1>1 DEF Begin, End
  <2>8. opt' \in [Runs -> [demo : BOOLEAN, in : Hosts \cup {OutPath, None},
                         url : Urls \cup {None}, token : Tokens, save : BOOLEAN]]
    <3>1. \A d \in Commands[r] : Credentials(d).url \in Urls \cup {None}
                              /\ Credentials(d).token \in Tokens
      BY CommandAssumption DEF Credentials, Either, CommandLines, Pairs
    <3>2. \A h \in LatestSnapshotCache : h \in Hosts
      BY DEF LatestSnapshotCache, CacheEntries
    <3>3. opt' = opt \/ \E o \in [demo : BOOLEAN, in : Hosts \cup {OutPath, None},
                         url : Urls \cup {None}, token : Tokens, save : BOOLEAN] :
                         opt' = [opt EXCEPT ![r] = o]
      BY <1>1, <3>1, <3>2 DEF Begin, NoOptions, Tokens
    <3> QED
      BY <3>3
  <2> QED
    BY <1>1, <2>3, <2>5, <2>6, <2>7, <2>8, <2>9 DEF Begin
<1>2. CASE Refuse(r)
  BY <1>2 DEF Refuse, End, world, Stages
<1>3. CASE Resolve(r)
  <2>1. instance.url \in Urls \cup {None} /\ instance.token \in Tokens
    BY DEF Pairs
  <2>2. pc' \in [Runs -> Stages]
    BY <1>3, StagesAre DEF Resolve, Settle, End
  <2>3. exit' \in [Runs -> {None, 0, 1, 2}] /\ rep' \in [Runs -> Reports \cup {None}]
    BY <1>3 DEF Resolve, Settle, End
  <2>4. opt' \in [Runs -> [demo : BOOLEAN, in : Hosts \cup {OutPath, None},
                         url : Urls \cup {None}, token : Tokens, save : BOOLEAN]]
    <3>1. opt' = opt \/ \E o \in [demo : BOOLEAN, in : Hosts \cup {OutPath, None},
                         url : Urls \cup {None}, token : Tokens, save : BOOLEAN] :
                         opt' = [opt EXCEPT ![r] = o]
      <4>1. opt[r] \in [demo : BOOLEAN, in : Hosts \cup {OutPath, None},
                         url : Urls \cup {None}, token : Tokens, save : BOOLEAN]
        OBVIOUS
      <4> QED
        BY <1>3, <2>1, <4>1 DEF Resolve, Settle
    <3> QED
      BY <3>1
  <2> QED
    BY <1>3, <2>2, <2>3, <2>4 DEF Resolve, world
<1>4. CASE Prompt(r)
  <2>1. \A a \in asked[r].answers : a.url \in Urls \cup {None} /\ a.token \in Tokens
                                      /\ a.save \in BOOLEAN
    BY DEF CommandLines, Answers
  <2>2. pc' \in [Runs -> Stages]
    BY <1>4, StagesAre DEF Prompt, Settle, End
  <2>3. exit' \in [Runs -> {None, 0, 1, 2}] /\ rep' \in [Runs -> Reports \cup {None}]
    BY <1>4 DEF Prompt, Settle, End
  <2>4. opt' \in [Runs -> [demo : BOOLEAN, in : Hosts \cup {OutPath, None},
                         url : Urls \cup {None}, token : Tokens, save : BOOLEAN]]
    <3>1. opt' = opt \/ \E o \in [demo : BOOLEAN, in : Hosts \cup {OutPath, None},
                         url : Urls \cup {None}, token : Tokens, save : BOOLEAN] :
                         opt' = [opt EXCEPT ![r] = o]
      <4>1. opt[r] \in [demo : BOOLEAN, in : Hosts \cup {OutPath, None},
                         url : Urls \cup {None}, token : Tokens, save : BOOLEAN]
        OBVIOUS
      <4> QED
        BY <1>4, <2>1, <4>1 DEF Prompt, Settle
    <3> QED
      BY <3>1
  <2> QED
    BY <1>4, <2>2, <2>3, <2>4 DEF Prompt, world
<1>5. CASE Read(r)
  <2>1. exit' \in [Runs -> {None, 0, 1, 2}]
    BY <1>5 DEF Read, Obtained, End
  <2>4. pc' \in [Runs -> Stages]
    <3>1. ToSave(r) \in Stages
      BY StagesAre DEF ToSave, ToStore, ToCache
    <3>2. pc' = [pc EXCEPT ![r] = "done"] \/ pc' = [pc EXCEPT ![r] = ToSave(r)]
      BY <1>5 DEF Read, Obtained, End
    <3> QED
      BY <3>1, <3>2, StagesAre
  <2>2. snapshot' \in [Runs -> Snapshots \cup {None}]
    <3>1. opt[r].in \in Hosts \cup {OutPath, None}
      OBVIOUS
    <3>2. CASE opt[r].demo
      <4>1. snapshot' = [snapshot EXCEPT ![r] = Demo]
        BY <1>5, <3>2 DEF Read, Obtained
      <4> QED
        BY <4>1 DEF Snapshots
    <3>3. CASE ~opt[r].demo
      <4>1. opt[r].in \in Paths
        BY <1>5, <3>1, <3>3 DEF Read, Networked, Paths
      <4>2. files[opt[r].in].of \in Snapshots \cup {None}
        BY <4>1
      <4> QED
        BY <1>5, <3>3, <4>2 DEF Read, Obtained
    <3> QED
      BY <3>2, <3>3
  <2>3. rep' \in [Runs -> Reports \cup {None}]
    BY <1>5 DEF Read, Obtained, End
  <2> QED
    BY <1>5, <2>1, <2>2, <2>3, <2>4 DEF Read, world
<1>6. CASE Scan(r)
  <2>1. exit' \in [Runs -> {None, 0, 1, 2}]
    BY <1>6 DEF Scan, Obtained, End
  <2>4. pc' \in [Runs -> Stages]
    <3>1. ToSave(r) \in Stages
      BY StagesAre DEF ToSave, ToStore, ToCache
    <3>2. pc' = [pc EXCEPT ![r] = "done"] \/ pc' = [pc EXCEPT ![r] = ToSave(r)]
      BY <1>6 DEF Scan, Obtained, End
    <3> QED
      BY <3>1, <3>2, StagesAre
  <2>2. snapshot' \in [Runs -> Snapshots \cup {None}]
    <3>1. snapshot' = snapshot \/ snapshot' = [snapshot EXCEPT ![r] = r]
      BY <1>6 DEF Scan, Obtained
    <3> QED
      BY <3>1 DEF Snapshots
  <2>5. unlisted' \in [Runs -> BOOLEAN]
    <3>1. unlisted' = unlisted \/ \E u \in BOOLEAN : unlisted' = [unlisted EXCEPT ![r] = u]
      BY <1>6 DEF Scan
    <3> QED
      BY <3>1
  <2>3. rep' \in [Runs -> Reports \cup {None}]
    BY <1>6 DEF Scan, Obtained, End
  <2> QED
    BY <1>6, <2>1, <2>2, <2>3, <2>4, <2>5 DEF Scan, world
<1>7. CASE Truncate(r)
  <2>1. pc' \in [Runs -> Stages]
    BY <1>7, StagesAre DEF Truncate, ToStore, ToCache
  <2>2. instance' \in Pairs
    BY <1>7 DEF Truncate, NoPair, Pairs, Tokens
  <2> QED
    BY <1>7, <2>1, <2>2 DEF Truncate
<1>8. CASE Save(r)
  <2>1. pc' \in [Runs -> Stages]
    BY <1>8, StagesAre DEF Save, ToStore, ToCache
  <2>2. instance' \in Pairs
    BY <1>8 DEF Save, Torn, Pairs, Tokens
  <2> QED
    BY <1>8, <2>1, <2>2 DEF Save
<1>9. CASE Stage(r)
  <2>1. Target(r) \in Paths
    BY <1>9, Aimed DEF PerRun, Stage
  <2>2. temp' \in [Runs -> [path : Paths \cup {None}, whole : BOOLEAN, mtime : Nat]]
    BY <1>9, <2>1 DEF Stage
  <2>3. before' \in [Runs -> SUBSET Runs]
    BY <1>9 DEF Stage, Cached
  <2> QED
    BY <1>9, <2>2, <2>3 DEF Stage
<1>10. CASE Fill(r)
  <2>1. clock' \in Nat
    BY <1>10 DEF Fill
  <2>2. temp' \in [Runs -> [path : Paths \cup {None}, whole : BOOLEAN, mtime : Nat]]
    <3>1. temp' = [temp EXCEPT ![r] = [@ EXCEPT !.whole = TRUE, !.mtime = clock']]
      BY <1>10 DEF Fill
    <3>2. [temp[r] EXCEPT !.whole = TRUE, !.mtime = clock']
            \in [path : Paths \cup {None}, whole : BOOLEAN, mtime : Nat]
      <4>1. temp[r] \in [path : Paths \cup {None}, whole : BOOLEAN, mtime : Nat]
        OBVIOUS
      <4> HIDE DEF TypeOK
      <4> QED
        BY <2>1, <4>1
    <3> QED
      BY <3>1, <3>2
  <2> QED
    BY <1>10, <2>1, <2>2 DEF Fill
<1>11. CASE Rename(r)
  <2>1. temp[r] # NoTemp /\ temp[r].path = Target(r)
    BY <1>11 DEF Rename, NoTemp, PerRun, Control, Writing
  <2>2. Target(r) \in Paths /\ Content(r) \in Snapshots
    BY <1>11, Aimed DEF PerRun, Rename
  <2>3. files' \in [Paths -> [of : Snapshots \cup {None}, whole : BOOLEAN, mtime : Nat]]
    BY <1>11, <2>1, <2>2 DEF Rename
  <2>4. wrote' \in [Runs -> SUBSET (Paths \cup {Stdout})]
    BY <1>11, <2>1, <2>2 DEF Rename
  <2>5. temp' \in [Runs -> [path : Paths \cup {None}, whole : BOOLEAN, mtime : Nat]]
    BY <1>11 DEF Rename, NoTemp
  <2>6. pc' \in [Runs -> Stages] /\ exit' \in [Runs -> {None, 0, 1, 2}]
    BY <1>11 DEF Rename, End, ToCache, Stages, Status
  <2>7. rep' \in [Runs -> Reports \cup {None}]
    BY <1>11 DEF Rename, End
  <2> QED
    BY <1>11, <2>3, <2>4, <2>5, <2>6, <2>7 DEF Rename
<1>12. CASE WriteFails(r)
  BY <1>12 DEF WriteFails, End, NoTemp, Stages
<1>13. CASE Evaluate(r)
  <2>1. pc' \in [Runs -> Stages]
    BY <1>13, StagesAre DEF Evaluate, End
  <2>2. exit' \in [Runs -> {None, 0, 1, 2}]
    BY <1>13 DEF Evaluate, End
  <2>3. rep' \in [Runs -> Reports \cup {None}]
    <3>1. rep' = [rep EXCEPT ![r] = None] \/ \E n \in Reports : rep' = [rep EXCEPT ![r] = n]
      BY <1>13 DEF Evaluate, End
    <3> QED
      BY <3>1
  <2> QED
    BY <1>13, <2>1, <2>2, <2>3 DEF Evaluate, world
<1>14. CASE PrintReport(r)
  <2>1. pc' \in [Runs -> Stages]
    BY <1>14, StagesAre DEF PrintReport, End
  <2>2. exit' \in [Runs -> {None, 0, 1, 2}] /\ rep' \in [Runs -> Reports \cup {None}]
    BY <1>14 DEF PrintReport, End, Status
  <2>3. wrote' \in [Runs -> SUBSET (Paths \cup {Stdout})]
    <3>1. wrote' = wrote \/ wrote' = [wrote EXCEPT ![r] = @ \cup {Stdout}]
      BY <1>14 DEF PrintReport
    <3>2. wrote[r] \cup {Stdout} \in SUBSET (Paths \cup {Stdout})
      OBVIOUS
    <3> QED
      BY <3>1, <3>2
  <2> QED
    BY <1>14, <2>1, <2>2, <2>3 DEF PrintReport
<1>15. CASE Kill(r)
  BY <1>15 DEF Kill, Stages, world
<1> QED
  BY <1>1, <1>2, <1>3, <1>4, <1>5, <1>6, <1>7, <1>8, <1>9, <1>10, <1>11, <1>12, <1>13,
     <1>14, <1>15 DEF Step

\* What an invocation with a snapshot has stays.
LEMMA Stable ==
    ASSUME TypeOK, NEW r \in Runs, Control(r), Step(r), snapshot[r] # None
    PROVE  /\ snapshot'[r] = snapshot[r] /\ opt'[r] = opt[r] /\ asked'[r] = asked[r]
           /\ unlisted'[r] = unlisted[r] /\ seen'[r] = seen[r]
           /\ wrote[r] \subseteq wrote'[r]
<1>1. pc[r] \notin {"idle", "resolving", "prompting", "obtaining"}
  BY DEF Control
<1>2. CASE Begin(r) \/ Refuse(r) \/ Resolve(r) \/ Prompt(r) \/ Read(r) \/ Scan(r)
  BY <1>1, <1>2 DEF Begin, Refuse, Resolve, Prompt, Read, Scan
<1>3. CASE Truncate(r) \/ Save(r) \/ Stage(r) \/ Fill(r)
  BY <1>3 DEF Truncate, Save, Stage, Fill
<1>4. CASE Rename(r)
  BY <1>4 DEF Rename, TypeOK
<1>5. CASE PrintReport(r)
  BY <1>5 DEF PrintReport, TypeOK
<1>6. CASE WriteFails(r) \/ Evaluate(r) \/ Kill(r)
  BY <1>6 DEF WriteFails, Evaluate, Kill, world
<1> QED
  BY <1>2, <1>3, <1>4, <1>5, <1>6 DEF Step

\* A scan that was completed stays one, with the options it was made with.
LEMMA ScannedStays ==
    ASSUME TypeOK, \A p \in Runs : Control(p), NEW r \in Runs, Step(r),
           NEW q \in Runs, Scanned(q)
    PROVE  Scanned(q)' /\ opt'[q] = opt[q]
<1>1. snapshot[q] # None
  BY CommandAssumption DEF Scanned
<1> QED
  BY <1>1, Stable, Frame DEF Scanned

\* What is known of an invocation is not disturbed by the steps of another.
LEMMA OthersKeep ==
    ASSUME TypeOK, \A p \in Runs : PerRun(p), NEW r \in Runs, Step(r),
           NEW q \in Runs, q # r
    PROVE  PerRun(q)'
<1>1. /\ pc'[q] = pc[q] /\ asked'[q] = asked[q] /\ opt'[q] = opt[q]
      /\ snapshot'[q] = snapshot[q] /\ rep'[q] = rep[q] /\ temp'[q] = temp[q]
      /\ wrote'[q] = wrote[q]
  BY Frame
<1>2. snapshot[q] \in Runs /\ Scanned(snapshot[q]) => snapshot'[snapshot[q]] = snapshot[q]
  BY ScannedStays DEF PerRun, Scanned
<1>3. Control(q)'
  BY <1>1 DEF PerRun, Control, Unsettled, Networked, Writing, Target
<1>4. Provenance(q)'
  BY <1>1, <1>2 DEF PerRun, Provenance, Networked, Scanned
<1>5. Request(q)' /\ Progress(q)'
  BY <1>1 DEF PerRun, Request, Progress
<1> QED
  BY <1>3, <1>4, <1>5 DEF PerRun

\* An invocation that ends.
LEMMA EndKeeps ==
    ASSUME TypeOK, NEW r \in Runs, PerRun(r), NEW s, End(r, s),
           snapshot'[r] = snapshot[r], opt'[r] = opt[r],
           asked'[r] = asked[r] \/ snapshot[r] = None,
           temp'[r] = NoTemp, 
           snapshot[r] \in Runs /\ Scanned(snapshot[r]) =>
              snapshot'[snapshot[r]] = snapshot[r]
    PROVE  PerRun(r)'
<1>1. pc'[r] = "done"
  BY DEF End, TypeOK
<1>2. Control(r)'
  BY <1>1 DEF PerRun, Control, After, Networked
<1>3. Provenance(r)'
  BY DEF PerRun, Provenance, Networked, Scanned
<1>4. Request(r)'
  BY <1>1 DEF PerRun, Request, After
<1>5. Progress(r)'
  BY <1>1 DEF Progress
<1> QED
  BY <1>2, <1>3, <1>4, <1>5 DEF PerRun

\* One that goes on, with what it has or with a snapshot it obtained.
LEMMA PerRunHolds ==
    ASSUME TypeOK, TypeOK', \A p \in Runs : PerRun(p), CachedScans, Files,
           NEW r \in Runs, Step(r)
    PROVE  PerRun(r)'
<1> USE DEF PerRun
<1>0. /\ pc[r] \notin {"storing", "caching", "reporting", "killed"} => temp[r] = NoTemp
      /\ snapshot[r] \in Runs /\ Scanned(snapshot[r]) => snapshot'[snapshot[r]] = snapshot[r]
      /\ None \notin Runs /\ None \notin Hosts /\ Demo # None
  BY ScannedStays, CommandAssumption DEF Control, Writing, Scanned
<1>1. CASE Begin(r)
  <2>1. PICK c \in Commands[r] : asked' = [asked EXCEPT ![r] = c]
    BY <1>1 DEF Begin
  <2>2. pc[r] = "idle" /\ snapshot[r] = None /\ snapshot' = snapshot /\ temp' = temp
        /\ temp[r] = NoTemp
    BY <1>0, <1>1 DEF Begin, Control
  <2>3. CASE pc'[r] = "done"
    <3>0. opt' = opt
      BY <1>1, <2>2, <2>3 DEF Begin, TypeOK
    <3>1. Control(r)' /\ Provenance(r)'
      BY <2>2, <2>3, <3>0 DEF Control, Provenance, After, Networked
    <3>2. Request(r)' /\ Progress(r)'
      BY <2>2, <2>3 DEF Request, Progress
    <3> QED
      BY <3>1, <3>2
  <2>4. CASE pc'[r] # "done"
    <3>1. pc'[r] = "resolving"
      BY <1>1, <2>4 DEF Begin, End, TypeOK
    <3>2. PICK d \in Commands[r] :
            /\ asked' = [asked EXCEPT ![r] = d]
            /\ ~DemoRefuses(d)
            /\ \/ /\ d.last /\ ~LastRefuses(d)
                  /\ \E h \in Hosts : opt' = [opt EXCEPT ![r] = [NoOptions EXCEPT !.in = h]]
               \/ /\ ~d.last
                  /\ opt' = [opt EXCEPT ![r] =
                       IF d.demo THEN [NoOptions EXCEPT !.demo = TRUE]
                       ELSE [NoOptions EXCEPT !.in = IF d.in THEN OutPath ELSE None,
                                              !.url = Credentials(d).url,
                                              !.token = Credentials(d).token]]
      BY <1>1, <2>4 DEF Begin, End, TypeOK, LatestSnapshotCache, CacheEntries
    <3>3. asked'[r] = d
      BY <3>2 DEF TypeOK
    <3>4. /\ opt'[r].save = FALSE
          /\ \/ d.last /\ ~LastRefuses(d) /\ opt'[r].demo = FALSE /\ opt'[r].in \in Hosts
             \/ ~d.last /\ d.demo /\ opt'[r].demo = TRUE
             \/ /\ ~d.last /\ ~d.demo /\ opt'[r].demo = FALSE
                /\ opt'[r].in = (IF d.in THEN OutPath ELSE None)
                /\ opt'[r].url = Either(d.typed.url, d.env.url)
      <4>1. CASE d.last
        <5>1. PICK h \in Hosts : opt' = [opt EXCEPT ![r] = [NoOptions EXCEPT !.in = h]]
          BY <3>2, <4>1
        <5>2. opt'[r] = [NoOptions EXCEPT !.in = h]
          BY <5>1 DEF TypeOK
        <5> QED
          BY <3>2, <4>1, <5>2 DEF NoOptions
      <4>2. CASE ~d.last /\ d.demo
        <5>1. opt' = [opt EXCEPT ![r] = [NoOptions EXCEPT !.demo = TRUE]]
          BY <3>2, <4>2
        <5>2. opt'[r] = [NoOptions EXCEPT !.demo = TRUE]
          BY <5>1 DEF TypeOK
        <5> QED
          BY <4>2, <5>2 DEF NoOptions
      <4>3. CASE ~d.last /\ ~d.demo
        <5>1. opt' = [opt EXCEPT ![r] =
                        [NoOptions EXCEPT !.in = IF d.in THEN OutPath ELSE None,
                                          !.url = Credentials(d).url,
                                          !.token = Credentials(d).token]]
          BY <3>2, <4>3
        <5>2. opt'[r] = [NoOptions EXCEPT !.in = IF d.in THEN OutPath ELSE None,
                                          !.url = Credentials(d).url,
                                          !.token = Credentials(d).token]
          BY <5>1 DEF TypeOK
        <5> QED
          BY <4>3, <5>2 DEF NoOptions, Credentials
      <4> QED
        BY <4>1, <4>2, <4>3
    <3>5. Control(r)' /\ Provenance(r)' /\ Progress(r)'
      BY <2>2, <3>1, <3>4 DEF Control, Provenance, Progress, After
    <3>6. d.last => ~opt'[r].demo /\ opt'[r].in \in Hosts /\ ~d.demo
                    /\ (d.typed.url = None \/ d.in)
      BY <3>2, <3>4 DEF LastRefuses, DemoRefuses, Typed, NoPair
    <3>7. d.demo => opt'[r].demo /\ ~d.last /\ d.typed.url = None
      BY <3>2, <3>4 DEF DemoRefuses, Typed, NoPair
    <3>8. ~d.demo /\ ~d.last => ~opt'[r].demo
            /\ opt'[r].in = (IF d.in THEN OutPath ELSE None)
            /\ opt'[r].url = Either(d.typed.url, d.env.url)
      BY <3>2, <3>4
    <3>9. Request(r)'
      BY <2>2, <3>1, <3>3, <3>6, <3>7, <3>8 DEF Request, Either, After
    <3> QED
      BY <3>5, <3>9
  <2> QED
    BY <2>3, <2>4
<1>2. CASE Refuse(r)
  BY <1>0, <1>2, EndKeeps DEF Refuse, world
<1>3. CASE Resolve(r)
  <2>1. CASE End(r, 2) /\ UNCHANGED opt
    BY <1>0, <1>3, <2>1, EndKeeps DEF Resolve, world
  <2>2. CASE pc' = [pc EXCEPT ![r] = "prompting"] /\ opt' = opt /\ Unsettled(r) /\ rep' = rep
    <3>1. /\ pc'[r] = "prompting" /\ pc[r] = "resolving" /\ asked'[r] = asked[r]
          /\ opt'[r] = opt[r] /\ snapshot'[r] = None /\ temp'[r] = NoTemp /\ Unsettled(r)'
      BY <1>0, <1>3, <2>2 DEF Resolve, world, TypeOK, Control, Unsettled
    <3>2. Control(r)' /\ Provenance(r)' /\ Progress(r)'
      BY <3>1 DEF Control, Provenance, Progress, After, Networked
    <3>3. Request(r)'
      BY <3>1 DEF Request, After
    <3> QED
      BY <3>2, <3>3
  <2>3. CASE ~Unsettled(r) /\ ~OptionsRefused(r) /\ Settle(r, opt[r])
    <3>1. /\ pc'[r] = "obtaining" /\ pc[r] = "resolving" /\ asked'[r] = asked[r]
          /\ opt'[r] = opt[r] /\ snapshot'[r] = None /\ temp'[r] = NoTemp /\ ~Unsettled(r)'
      BY <1>0, <1>3, <2>3 DEF Resolve, Settle, world, TypeOK, Control, Unsettled
    <3>2. Control(r)' /\ Provenance(r)' /\ Progress(r)'
      BY <3>1 DEF Control, Provenance, Progress, After, Networked
    <3>3. Request(r)'
      BY <2>3, <3>1 DEF Request, After, OptionsRefused
    <3> QED
      BY <3>2, <3>3
  <2>4. CASE /\ Unsettled(r) /\ instance.url # None
             /\ Settle(r, [opt[r] EXCEPT !.url = instance.url, !.token = instance.token])
    <3>1. /\ pc'[r] = "obtaining" /\ pc[r] = "resolving" /\ asked'[r] = asked[r]
          /\ snapshot'[r] = None /\ temp'[r] = NoTemp
      BY <1>0, <1>3, <2>4 DEF Resolve, Settle, world, TypeOK, Control
    <3>2. /\ ~opt[r].demo /\ opt[r].in = None /\ opt[r].url = None
          /\ opt'[r].demo = FALSE /\ opt'[r].in = None /\ opt'[r].url # None
          /\ opt'[r].save = opt[r].save
      BY <2>4 DEF Settle, TypeOK, Unsettled
    <3>3. Control(r)' /\ Provenance(r)' /\ Progress(r)'
      BY <3>1, <3>2 DEF Control, Provenance, Progress, After, Networked, Unsettled
    <3>4. Request(r)'
      BY <1>0, <3>1, <3>2 DEF Request, After
    <3> QED
      BY <3>3, <3>4
  <2> QED
    BY <1>3, <2>1, <2>2, <2>3, <2>4 DEF Resolve
<1>4. CASE Prompt(r)
  <2>1. CASE End(r, 2) /\ UNCHANGED opt
    BY <1>0, <1>4, <2>1, EndKeeps DEF Prompt, world
  <2>2. CASE \/ Settle(r, [opt[r] EXCEPT !.demo = TRUE])
             \/ \E a \in asked[r].answers : a.url # None
                  /\ Settle(r, [opt[r] EXCEPT !.url = a.url, !.token = a.token, !.save = a.save])
    <3>0. pc' = [pc EXCEPT ![r] = "obtaining"] /\ pc[r] = "prompting"
      BY <1>4, <2>2 DEF Prompt, Settle
    <3>1. /\ pc'[r] = "obtaining" /\ pc[r] = "prompting" /\ asked'[r] = asked[r]
          /\ snapshot'[r] = None /\ temp'[r] = NoTemp
      BY <1>0, <1>4, <3>0 DEF Prompt, world, TypeOK, Control
    <3>2. /\ ~opt[r].demo /\ opt[r].in = None /\ opt[r].url = None
      BY <1>0, <3>1 DEF Control, Unsettled
    <3>3. /\ opt'[r].in = None
          /\ \/ opt'[r].demo /\ opt'[r].save = opt[r].save
             \/ ~opt'[r].demo /\ opt'[r].url # None
      <4>1. opt[r] \in [demo : BOOLEAN, in : Hosts \cup {OutPath, None},
                         url : Urls \cup {None}, token : Tokens, save : BOOLEAN]
        BY DEF TypeOK
      <4>2. CASE opt' = [opt EXCEPT ![r] = [opt[r] EXCEPT !.demo = TRUE]]
        <5>1. opt'[r] = [opt[r] EXCEPT !.demo = TRUE]
          BY <4>2 DEF TypeOK
        <5> QED
          BY <3>2, <4>1, <5>1
      <4>3. ASSUME NEW a, a.url # None,
                   opt' = [opt EXCEPT ![r] =
                             [opt[r] EXCEPT !.url = a.url, !.token = a.token, !.save = a.save]]
            PROVE  opt'[r].in = None /\ ~opt'[r].demo /\ opt'[r].url # None
        <5>1. opt'[r] = [opt[r] EXCEPT !.url = a.url, !.token = a.token, !.save = a.save]
          BY <4>3 DEF TypeOK
        <5> QED
          BY <3>2, <4>1, <4>3, <5>1
      <4> QED
        BY <2>2, <4>2, <4>3 DEF Settle
    <3>4. ~asked[r].demo /\ ~asked[r].last
          /\ (asked[r].typed.url = None \/ asked[r].in)
      BY <1>0, <3>1, <3>2 DEF Request
    <3>5. ~opt[r].save
      BY <3>1 DEF Control
    <3>6. Control(r)' /\ Provenance(r)' /\ Progress(r)'
      BY <3>1, <3>3, <3>5 DEF Control, Provenance, Progress, After, Networked, Unsettled
    <3>7. Request(r)'
      BY <3>1, <3>3, <3>4 DEF Request, After
    <3> QED
      BY <3>6, <3>7
  <2> QED
    BY <1>4, <2>1, <2>2 DEF Prompt
<1>5. CASE Read(r)
  <2>0. pc[r] = "obtaining" /\ ~Networked(r) /\ temp[r] = NoTemp /\ snapshot[r] = None
        /\ opt' = opt /\ asked' = asked /\ temp' = temp /\ ~opt[r].save
    BY <1>0, <1>5 DEF Read, world, Control
  <2>1. CASE End(r, 2) /\ UNCHANGED snapshot
    BY <1>0, <2>0, <2>1, EndKeeps
  <2>2. ASSUME NEW s, Obtained(r, s), s # None,
               \/ opt[r].demo /\ s = Demo
               \/ ~opt[r].demo /\ s = files[opt[r].in].of
        PROVE  PerRun(r)'
    <3>1. snapshot'[r] = s /\ pc'[r] = ToSave(r) /\ ToSave(r) \in {"storing", "evaluating"}
      BY <2>0, <2>2 DEF Obtained, TypeOK, ToSave, ToStore, ToCache
    <3>2. Control(r)'
      BY <2>0, <2>2, <3>1 DEF Control, Networked, After
    <3>3. Progress(r)'
      BY <2>0, <3>1, <3>2 DEF Progress, ToSave, ToStore
    <3>4. Request(r)'
      BY <2>0, <3>1 DEF Request, After
    <3>5. CASE opt[r].demo
      BY <2>0, <2>2, <3>1, <3>2, <3>3, <3>4, <3>5 DEF Provenance
    <3>6. CASE ~opt[r].demo
      <4>1. s = files[opt[r].in].of /\ opt[r].in # None
        BY <2>0, <2>2, <3>6 DEF Networked
      <4>2. opt[r].in \in Hosts => s \in Cached
        BY <2>2, <4>1 DEF Files
      <4>3. opt[r].in \in Hosts => s \in Runs /\ Scanned(s)
        BY <4>2 DEF CachedScans, Cached
      <4>4. opt[r].in \in Hosts => s \in Runs /\ snapshot'[s] = s
        BY <4>3, ScannedStays DEF Scanned
      <4>5. Provenance(r)'
        BY <2>0, <3>1, <3>6, <4>1, <4>4 DEF Provenance, Scanned
      <4> QED
        BY <3>2, <3>3, <3>4, <4>5
    <3> QED
      BY <3>5, <3>6
  <2> QED
    BY <1>0, <1>5, <2>1, <2>2 DEF Read
<1>6. CASE Scan(r)
  <2>0. pc[r] = "obtaining" /\ Networked(r) /\ temp[r] = NoTemp /\ snapshot[r] = None
        /\ opt' = opt /\ asked' = asked /\ temp' = temp
    BY <1>0, <1>6 DEF Scan, world, Control
  <2>1. CASE End(r, 2) /\ UNCHANGED snapshot
    BY <1>0, <2>0, <2>1, EndKeeps
  <2>2. CASE Obtained(r, r)
    <3>1. snapshot'[r] = r /\ pc'[r] = ToSave(r)
      BY <2>2 DEF Obtained, TypeOK
    <3>2. ToSave(r) \in {"saving", "storing", "caching", "evaluating"}
      BY DEF ToSave, ToStore, ToCache
    <3>3. Control(r)'
      BY <1>0, <2>0, <3>1, <3>2 DEF Control, Networked, After, ToSave, ToStore, ToCache
    <3>4. Progress(r)'
      BY <2>0, <3>1, <3>2 DEF Progress, ToSave, ToStore
    <3>5. opt[r].url # None
      BY <2>0 DEF Control, Unsettled, Networked
    <3>6. Provenance(r)'
      BY <2>0, <3>1, <3>5 DEF Provenance, Networked
    <3>7. Request(r)'
      BY <2>0, <3>1, <3>2 DEF Request, After
    <3> QED
      BY <3>3, <3>4, <3>6, <3>7
  <2> QED
    BY <1>6, <2>1, <2>2 DEF Scan
<1>7. CASE Truncate(r) \/ Save(r)
  <2>1. /\ pc[r] \in {"saving", "truncated"} /\ snapshot[r] # None /\ opt[r].save
        /\ opt' = opt /\ asked' = asked /\ temp' = temp /\ snapshot' = snapshot
        /\ temp[r] = NoTemp /\ wrote' = wrote
    BY <1>0, <1>7 DEF Truncate, Save, Control, After
  <2>2. pc'[r] = "truncated" \/ pc'[r] = ToStore(r)
    BY <1>7 DEF Truncate, Save, TypeOK
  <2>3. ToStore(r) \in {"storing", "caching", "evaluating"}
    BY DEF ToStore, ToCache
  <2>4. Control(r)'
    BY <2>1, <2>2, <2>3 DEF Control, After, Networked, ToStore, ToCache
  <2>5. Provenance(r)' /\ Progress(r)'
    BY <1>0, <2>1, <2>2, <2>3 DEF Provenance, Progress, Networked, Scanned, ToStore
  <2>6. Request(r)'
    BY <2>1, <2>2, <2>3 DEF Request, After
  <2> QED
    BY <2>4, <2>5, <2>6
<1>8. CASE Stage(r) \/ Fill(r)
  <2>1. /\ Writing(r) /\ pc' = pc /\ opt' = opt /\ asked' = asked /\ snapshot' = snapshot
        /\ wrote' = wrote /\ rep' = rep
    BY <1>8 DEF Stage, Fill
  <2>2. temp'[r].path = Target(r)
    <3>1. CASE Stage(r)
      <4>1. temp'[r] = [path |-> Target(r), whole |-> FALSE, mtime |-> 0]
        BY <3>1 DEF Stage, TypeOK
      <4> QED
        BY <4>1
    <3>2. CASE Fill(r)
      <4>1. temp[r].path = Target(r)
        BY <1>0, <3>2 DEF Fill, Control, Writing
      <4>2. temp'[r] = [temp[r] EXCEPT !.whole = TRUE, !.mtime = clock']
        BY <3>2 DEF Fill, TypeOK
      <4>3. temp[r] \in [path : Paths \cup {None}, whole : BOOLEAN, mtime : Nat]
        BY DEF TypeOK
      <4> QED
        BY <4>1, <4>2, <4>3
    <3> QED
      BY <1>8, <3>1, <3>2
  <2>3. Control(r)'
    BY <2>1, <2>2 DEF Control, After, Networked, Unsettled, Writing, Target
  <2>4. Provenance(r)' /\ Progress(r)' /\ Request(r)'
    BY <1>0, <2>1 DEF Provenance, Progress, Networked, Scanned, Request, After
  <2> QED
    BY <2>3, <2>4
<1>9. CASE Rename(r)
  <2>1. /\ Writing(r) /\ opt' = opt /\ asked' = asked /\ snapshot' = snapshot
        /\ temp'[r] = NoTemp
    BY <1>9 DEF Rename, TypeOK
  <2>2. CASE pc[r] = "reporting"
    BY <1>0, <1>9, <2>1, <2>2, EndKeeps DEF Rename
  <2>3. CASE pc[r] # "reporting"
    <3>1. /\ pc'[r] \in {"caching", "evaluating"} /\ (pc'[r] = "caching" => Networked(r))
          /\ pc[r] \in {"storing", "caching"}
      BY <1>9, <2>3 DEF Rename, TypeOK, ToCache
    <3>2. snapshot[r] # None
      BY <3>1 DEF Control, After
    <3>3. Control(r)'
      BY <2>1, <3>1, <3>2 DEF Control, After, Networked
    <3>4. Provenance(r)' /\ Request(r)'
      BY <1>0, <2>1, <3>1, <3>2 DEF Provenance, Networked, Scanned, Request, After
    <3>5. temp[r].path = Target(r)
      BY <1>0, <1>9 DEF Rename, Control, NoTemp
    <3>6. asked[r].out => OutPath \in wrote'[r]
      BY <1>9, <3>1, <3>5 DEF Rename, TypeOK, Target, Progress
    <3>7. Progress(r)'
      BY <2>1, <3>1, <3>6 DEF Progress
    <3> QED
      BY <3>3, <3>4, <3>7
  <2> QED
    BY <2>2, <2>3
<1>10. CASE WriteFails(r)
  <2>1. /\ Writing(r) /\ opt' = opt /\ asked' = asked /\ snapshot' = snapshot
        /\ temp'[r] = NoTemp /\ wrote' = wrote
    BY <1>10 DEF WriteFails, TypeOK
  <2>2. CASE End(r, 2)
    BY <1>0, <2>1, <2>2, EndKeeps
  <2>3. CASE pc[r] = "caching" /\ pc'[r] = "evaluating"
    <3>1. snapshot[r] # None
      BY <2>3 DEF Control, After
    <3>2. Control(r)' /\ Progress(r)'
      BY <2>1, <2>3, <3>1 DEF Control, After, Networked, Progress
    <3>3. Provenance(r)' /\ Request(r)'
      BY <1>0, <2>1, <2>3, <3>1 DEF Provenance, Networked, Scanned, Request, After
    <3> QED
      BY <3>2, <3>3
  <2> QED
    BY <1>10, <2>2, <2>3 DEF WriteFails, TypeOK
<1>11. CASE Evaluate(r)
  <2>1. /\ pc[r] = "evaluating" /\ opt' = opt /\ asked' = asked /\ snapshot' = snapshot
        /\ temp'[r] = NoTemp /\ wrote' = wrote
    BY <1>0, <1>11 DEF Evaluate, world
  <2>2. CASE End(r, 2)
    BY <1>0, <2>1, <2>2, EndKeeps
  <2>3. CASE pc'[r] = "reporting" /\ rep'[r] \in Reports
    <3>1. snapshot[r] # None
      BY <2>1 DEF Control, After
    <3>2. Control(r)' /\ Progress(r)'
      BY <2>1, <2>3, <3>1 DEF Control, After, Networked, Progress
    <3>3. Provenance(r)' /\ Request(r)'
      BY <1>0, <2>1, <2>3, <3>1 DEF Provenance, Networked, Scanned, Request, After
    <3> QED
      BY <3>2, <3>3
  <2> QED
    BY <1>11, <2>2, <2>3 DEF Evaluate, TypeOK
<1>12. CASE PrintReport(r)
  <2>1. /\ opt' = opt /\ asked' = asked /\ snapshot' = snapshot /\ temp' = temp
        /\ temp[r] = NoTemp
    BY <1>0, <1>12 DEF PrintReport, Control, Writing
  <2> QED
    BY <1>0, <1>12, <2>1, EndKeeps DEF PrintReport
<1>13. CASE Kill(r)
  <2>1. /\ pc'[r] = "killed" /\ pc[r] \notin {"idle", "done"} /\ opt' = opt /\ asked' = asked
        /\ snapshot' = snapshot /\ temp' = temp /\ wrote' = wrote
    BY <1>13 DEF Kill, world, TypeOK
  <2>2. Control(r)' /\ Progress(r)'
    BY <2>1 DEF Control, After, Networked, Progress
  <2>3. Provenance(r)' /\ Request(r)'
    BY <1>0, <2>1 DEF Provenance, Networked, Scanned, Request, After
  <2> QED
    BY <2>2, <2>3
<1> QED
  BY <1>1, <1>2, <1>3, <1>4, <1>5, <1>6, <1>7, <1>8, <1>9, <1>10, <1>11, <1>12, <1>13
  DEF Step

-----------------------------------------------------------------------------
(* The cache: which steps touch it, and how. *)

Caches(r) == Rename(r) /\ pc[r] = "caching"

\* The scans in the cache and the files there are the same, and so are their times.
Untouched == Cached' = Cached /\ \A h \in Hosts : files'[h] = files[h]

\* Only the rename of a cached snapshot changes the cache; each history variable
\* and the clock change in one action; and a file ready to be moved was filled.
LEMMA CacheSteps ==
    ASSUME TypeOK, \A p \in Runs : PerRun(p), NEW r \in Runs, Step(r)
    PROVE  /\ Caches(r) \/ Untouched
           /\ ~Stage(r) => before' = before
           /\ ~Begin(r) => seen' = seen
           /\ ~Fill(r) => clock' = clock
           /\ pc'[r] = "caching" /\ temp'[r].whole => Fill(r) \/ (temp' = temp /\ pc[r] = "caching")
           /\ pc[r] \in {"evaluating", "reporting", "done", "killed"} =>
                 pc'[r] \in {"evaluating", "reporting", "done", "killed"}
<1> USE DEF TypeOK
<1>0. /\ pc[r] \notin {"storing", "caching", "reporting", "killed"} => temp[r] = NoTemp
      /\ ~NoTemp.whole
  BY DEF PerRun, Control, Writing, NoTemp
<1>1. CASE Begin(r) \/ Refuse(r) \/ Resolve(r) \/ Prompt(r) \/ Read(r) \/ Scan(r)
  <2>1. /\ wrote' = wrote /\ files' = files /\ before' = before /\ clock' = clock
        /\ temp' = temp /\ pc[r] \in {"idle", "resolving", "prompting", "obtaining"}
        /\ ~Begin(r) => seen' = seen
    BY <1>1 DEF Begin, Refuse, Resolve, Prompt, Read, Scan, world
  <2> QED
    BY <1>0, <2>1 DEF Untouched, Cached
<1>2. CASE Truncate(r) \/ Save(r)
  <2>1. /\ wrote' = wrote /\ files' = files /\ before' = before /\ clock' = clock
        /\ temp' = temp /\ pc[r] \in {"saving", "truncated"} /\ seen' = seen
    BY <1>2 DEF Truncate, Save
  <2> QED
    BY <1>0, <2>1 DEF Untouched, Cached
<1>3. CASE Stage(r)
  <2>1. /\ wrote' = wrote /\ files' = files /\ clock' = clock /\ seen' = seen /\ pc' = pc
        /\ ~temp'[r].whole
    BY <1>3 DEF Stage
  <2> QED
    BY <1>3, <2>1 DEF Untouched, Cached
<1>4. CASE Fill(r)
  BY <1>4 DEF Untouched, Cached, Fill
<1>5. CASE Rename(r)
  <2>1. before' = before /\ seen' = seen /\ clock' = clock /\ ~temp'[r].whole
    BY <1>0, <1>5 DEF Rename
  <2>2. pc[r] \in {"evaluating", "reporting", "done", "killed"} => pc'[r] = "done"
    BY <1>5 DEF Rename, End, Writing
  <2>3. CASE pc[r] # "caching"
    <3>1. temp[r].path = Target(r) /\ Writing(r)
      BY <1>0, <1>5 DEF Rename, PerRun, Control
    <3>2. Target(r) \notin Hosts
      BY <2>3, <3>1, Aimed DEF PerRun
    <3>3. \A q \in Runs : wrote'[q] \cap Hosts = wrote[q] \cap Hosts
      BY <1>5, <3>1, <3>2 DEF Rename
    <3>4. \A h \in Hosts : files'[h] = files[h]
      BY <1>5, <3>1, <3>2 DEF Rename, Paths
    <3> QED
      BY <2>1, <2>2, <3>3, <3>4 DEF Untouched, Cached
  <2> QED
    BY <1>5, <2>1, <2>2, <2>3 DEF Caches
<1>6. CASE WriteFails(r)
  <2>1. /\ wrote' = wrote /\ files' = files /\ clock' = clock /\ seen' = seen 
        /\ before' = before /\ temp'[r] = NoTemp /\ pc'[r] \in {"done", "evaluating"}
    BY <1>6 DEF WriteFails, End
  <2> QED
    BY <1>0, <2>1 DEF Untouched, Cached
<1>7. CASE Evaluate(r) \/ Kill(r)
  <2>1. /\ wrote' = wrote /\ files' = files /\ clock' = clock /\ seen' = seen 
        /\ before' = before /\ pc'[r] \in {"done", "reporting", "killed"}
    BY <1>7 DEF Evaluate, Kill, End, world
  <2> QED
    BY <2>1 DEF Untouched, Cached
<1>8. CASE PrintReport(r)
  <2>1. /\ files' = files /\ clock' = clock /\ seen' = seen 
        /\ before' = before /\ pc'[r] = "done"
    BY <1>8 DEF PrintReport, End
  <2>2. \A q \in Runs : wrote'[q] \cap Hosts = wrote[q] \cap Hosts
    <3>1. Stdout \notin Hosts
      BY CommandAssumption
    <3>2. \A q \in Runs : wrote'[q] = wrote[q] \/ wrote'[q] = wrote[q] \cup {Stdout}
      BY <1>8 DEF PrintReport
    <3> QED
      BY <3>1, <3>2
  <2> QED
    BY <2>1, <2>2 DEF Untouched, Cached
<1> QED
  BY <1>1, <1>2, <1>3, <1>4, <1>5, <1>6, <1>7, <1>8 DEF Step

\* A snapshot that is moved into the cache.
LEMMA Moved ==
    ASSUME TypeOK, \A p \in Runs : PerRun(p), CachedScans, NEW r \in Runs, Caches(r)
    PROVE  /\ Cached' = Cached \cup {r} /\ r \notin Cached
           /\ HostOf[opt[r].url] \in Hosts
           /\ opt[r].url # None /\ snapshot[r] = r /\ opt' = opt /\ snapshot' = snapshot
           /\ files'[HostOf[opt[r].url]].of = r /\ files'[HostOf[opt[r].url]].whole
           /\ files'[HostOf[opt[r].url]].mtime = temp[r].mtime
           /\ temp[r].whole
           /\ \A h \in Hosts : h # HostOf[opt[r].url] => files'[h] = files[h]
           /\ pc'[r] = "evaluating"
           /\ before' = before /\ seen' = seen /\ clock' = clock /\ asked' = asked
<1> USE DEF TypeOK
<1>1. temp[r].path = Target(r) /\ Writing(r) /\ temp[r].whole = TRUE
  BY DEF Caches, Rename, PerRun, Control, NoTemp, Writing
<1>2. /\ snapshot[r] = r /\ opt[r].url # None /\ Target(r) = HostOf[opt[r].url]
      /\ Target(r) \in Hosts /\ Content(r) = r
  BY <1>1, Aimed DEF PerRun, Caches
<1>3. files'[HostOf[opt[r].url]] = [of |-> r, whole |-> TRUE, mtime |-> temp[r].mtime]
  BY <1>1, <1>2 DEF Caches, Rename, Paths
<1>4. \A h \in Hosts : h # HostOf[opt[r].url] => files'[h] = files[h]
  BY <1>1, <1>2 DEF Caches, Rename, Paths
<1>5. r \notin Cached
  BY DEF CachedScans, Caches
<1>6. Cached' = Cached \cup {r}
  <2>1. wrote'[r] = wrote[r] \cup {Target(r)} /\ \A q \in Runs : q # r => wrote'[q] = wrote[q]
    BY <1>1 DEF Caches, Rename
  <2> QED
    BY <1>2, <2>1 DEF Cached
<1> QED
  BY <1>1, <1>2, <1>3, <1>4, <1>5, <1>6 DEF Caches, Rename

\* The hypothesis of the lemmas below.
Before(r) ==
    /\ TypeOK /\ TypeOK' /\ \A p \in Runs : PerRun(p)
    /\ CachedScans /\ Files /\ Order /\ Kept /\ Looked
    /\ Step(r)

\* Whoever is in the cache is past caching, so nobody caches twice.
LEMMA CachedScansHolds == ASSUME NEW r \in Runs, Before(r) PROVE CachedScans'
<1> USE DEF Before
<1>0. \A p \in Runs : Control(p)
  BY DEF PerRun
<1>1. ASSUME NEW q \in Cached
      PROVE  Scanned(q)' /\ pc'[q] \in {"evaluating", "reporting", "done", "killed"}
             /\ opt'[q].url # None
  <2>1. q \in Runs /\ Scanned(q) /\ opt[q].url # None
        /\ pc[q] \in {"evaluating", "reporting", "done", "killed"}
    BY <1>1 DEF CachedScans, Cached
  <2>2. Scanned(q)' /\ opt'[q] = opt[q]
    BY <1>0, <2>1, ScannedStays
  <2>3. pc'[q] \in {"evaluating", "reporting", "done", "killed"}
    <3>1. CASE q = r
      BY <2>1, <3>1, CacheSteps
    <3>2. CASE q # r
      BY <2>1, <3>2, Frame
    <3> QED
      BY <3>1, <3>2
  <2> QED
    BY <2>1, <2>2, <2>3
<1>2. CASE Untouched
  BY <1>1, <1>2 DEF CachedScans, Untouched
<1>3. CASE Caches(r)
  <2>1. /\ Cached' = Cached \cup {r} /\ opt'[r].url # None /\ snapshot'[r] = r
        /\ pc'[r] = "evaluating"
    BY <1>3, Moved
  <2> QED
    BY <1>1, <2>1 DEF CachedScans, Scanned
<1> QED
  BY <1>2, <1>3, CacheSteps

\* The scans in the cache have started to be written for good.
LEMMA BeforeStays ==
    ASSUME NEW r \in Runs, Before(r)
    PROVE  /\ Cached \subseteq Cached'
           /\ \A q \in Cached : before'[q] = before[q] /\ opt'[q] = opt[q] /\ q \in Runs
           /\ \A q \in Cached : Replaced(q) => Replaced(q)'
<1> USE DEF Before
<1>0. \A p \in Runs : Control(p)
  BY DEF PerRun
<1>1. Cached \subseteq Cached'
  <2>1. CASE Untouched
    BY <2>1 DEF Untouched
  <2>2. CASE Caches(r)
    BY <2>2, Moved
  <2> QED
    BY <2>1, <2>2, CacheSteps
<1>2. ASSUME NEW q \in Cached PROVE before'[q] = before[q] /\ opt'[q] = opt[q] /\ q \in Runs
  <2>1. q \in Runs /\ Scanned(q) /\ pc[q] \in {"evaluating", "reporting", "done", "killed"}
    BY <1>2 DEF CachedScans, Cached
  <2>2. opt'[q] = opt[q]
    BY <1>0, <2>1, ScannedStays
  <2>3. before'[q] = before[q]
    <3>1. CASE q = r /\ Stage(r)
      BY <2>1, <3>1 DEF Stage
    <3>2. CASE q = r /\ ~Stage(r)
      BY <3>2, CacheSteps
    <3>3. CASE q # r
      BY <2>1, <3>3, Frame
    <3> QED
      BY <3>1, <3>2, <3>3
  <2> QED
    BY <2>1, <2>2, <2>3
<1>3. ASSUME NEW q \in Cached, Replaced(q) PROVE Replaced(q)'
  <2>1. PICK p \in Cached \ {q} : Overlap(p, q) /\ HostOf[opt[p].url] = HostOf[opt[q].url]
    BY <1>3 DEF Replaced
  <2>2. before'[p] = before[p] /\ opt'[p] = opt[p] /\ before'[q] = before[q] /\ opt'[q] = opt[q]
    BY <1>2, <1>3, <2>1
  <2>3. p \in Cached' \ {q} /\ Overlap(p, q)'
        /\ HostOf[opt'[p].url] = HostOf[opt'[q].url]
    BY <1>1, <2>1, <2>2 DEF Overlap
  <2> QED
    BY <2>3 DEF Replaced
<1> QED
  BY <1>1, <1>2, <1>3

\* Coming before in the cache is transitive.
LEMMA OrderHolds == ASSUME NEW r \in Runs, Before(r) PROVE Order'
<1> USE DEF Before
<1>1. Cached \subseteq Cached' /\ \A q \in Cached : before'[q] = before[q]
  BY BeforeStays
<1>2. ASSUME NEW y \in Runs
      PROVE  before'[y] = before[y] \/ before'[y] = Cached
  <2>1. CASE Stage(r)
    <3>1. before' = before \/ before' = [before EXCEPT ![r] = Cached]
      BY <2>1 DEF Stage
    <3> QED
      BY <3>1 DEF TypeOK
  <2> QED
    BY <2>1, CacheSteps
<1>3. ASSUME NEW y \in Runs
      PROVE  before'[y] \subseteq Cached' /\ \A q \in before'[y] : before'[q] \subseteq before'[y]
  <2>1. before[y] \subseteq Cached /\ \A q \in before[y] : before[q] \subseteq before[y]
    BY DEF Order
  <2>2. \A q \in Cached : before[q] \subseteq Cached
    BY DEF Order, Cached
  <2>3. CASE before'[y] = before[y]
    BY <1>1, <2>1, <2>3
  <2>4. CASE before'[y] = Cached
    BY <1>1, <2>2, <2>4
  <2> QED
    BY <1>2, <2>3, <2>4
<1>4. ASSUME NEW y \in Runs
      PROVE  seen'[y] \subseteq Cached' /\ \A q \in seen'[y] : before'[q] \subseteq seen'[y]
  <2>1. seen'[y] = seen[y] \/ seen'[y] = Cached
    <3>1. CASE Begin(r)
      BY <3>1 DEF Begin, TypeOK
    <3> QED
      BY <3>1, CacheSteps
  <2>2. seen[y] \subseteq Cached /\ \A q \in seen[y] : before[q] \subseteq seen[y]
    BY DEF Order
  <2>3. \A q \in Cached : before[q] \subseteq Cached
    BY DEF Order, Cached
  <2> QED
    BY <1>1, <2>1, <2>2, <2>3
<1> QED
  BY <1>3, <1>4 DEF Order

\* A scan disappears from the cache by something newer, or by a writer that
\* overlapped with its own.
LEMMA KeptHolds == ASSUME NEW r \in Runs, Before(r) PROVE Kept'
<1> USE DEF Before
<1>1. /\ Cached \subseteq Cached'
      /\ \A q \in Cached : before'[q] = before[q] /\ opt'[q] = opt[q] /\ q \in Runs
      /\ \A q \in Cached : Replaced(q) => Replaced(q)'
  BY BeforeStays
<1>2. ASSUME NEW q \in Cached
      PROVE  HostOf[opt[q].url] \in Hosts
  <2>1. opt[q].url \in Urls
    BY <1>1, <1>2 DEF CachedScans, TypeOK
  <2> QED
    BY <2>1, CommandAssumption
<1>3. ASSUME NEW q \in Cached,
             files'[HostOf[opt[q].url]] = files[HostOf[opt[q].url]]
      PROVE  LET y == files'[HostOf[opt'[q].url]].of
             IN y # None /\ (y = q \/ q \in before'[y] \/ Replaced(q)')
  <2> DEFINE y == files[HostOf[opt[q].url]].of
  <2>1. y # None /\ (y = q \/ q \in before[y] \/ Replaced(q))
    BY <1>3 DEF Kept
  <2>2. y \in Cached
    BY <1>2, <1>3, <2>1 DEF Files
  <2> QED
    BY <1>1, <1>3, <2>1, <2>2
<1>4. CASE Untouched
  BY <1>2, <1>3, <1>4 DEF Kept, Untouched
<1>5. CASE Caches(r)
  <2>1. /\ Cached' = Cached \cup {r} /\ r \notin Cached /\ opt' = opt /\ before' = before
        /\ files'[HostOf[opt[r].url]].of = r
        /\ \A h \in Hosts : h # HostOf[opt[r].url] => files'[h] = files[h]
    BY <1>5, Moved
  <2>2. ASSUME NEW q \in Cached, HostOf[opt[q].url] = HostOf[opt[r].url], q \notin before[r]
        PROVE  Replaced(q)'
    <3>1. r \notin before[q]
      BY <1>1, <2>1 DEF Order
    <3>2. r \in Cached' \ {q} /\ Overlap(r, q)' /\ HostOf[opt'[r].url] = HostOf[opt'[q].url]
      BY <2>1, <2>2, <3>1 DEF Overlap
    <3> QED
      BY <3>2 DEF Replaced
  <2>3. ASSUME NEW q \in Cached'
        PROVE  LET y == files'[HostOf[opt'[q].url]].of
               IN y # None /\ (y = q \/ q \in before'[y] \/ Replaced(q)')
    <3>1. CASE q = r
      BY <2>1, <3>1, CommandAssumption
    <3>2. CASE q # r /\ HostOf[opt[q].url] = HostOf[opt[r].url]
      BY <2>1, <2>2, <2>3, <3>2, CommandAssumption
    <3>3. CASE q # r /\ HostOf[opt[q].url] # HostOf[opt[r].url]
      BY <1>2, <1>3, <2>1, <2>3, <3>3
    <3> QED
      BY <3>1, <3>2, <3>3
  <2> QED
    BY <2>3 DEF Kept
<1> QED
  BY <1>4, <1>5, CacheSteps

\* Times order the files as coming before does.
LEMMA FilesHolds == ASSUME NEW r \in Runs, Before(r) PROVE Files'
<1> USE DEF Before
<1>1. /\ Cached \subseteq Cached'
      /\ \A q \in Cached : before'[q] = before[q] /\ opt'[q] = opt[q] /\ q \in Runs
  BY BeforeStays
<1>2. clock' \in Nat /\ clock \in Nat /\ clock <= clock'
  <2>1. clock \in Nat
    BY DEF TypeOK
  <2>2. CASE Fill(r)
    BY <2>1, <2>2 DEF Fill
  <2> QED
    BY <2>1, <2>2, CacheSteps
<1>3. /\ \A h \in Hosts : files[h].mtime \in Nat /\ files'[h].mtime \in Nat
      /\ \A y \in Runs : temp[y].mtime \in Nat /\ temp'[y].mtime \in Nat
  BY DEF TypeOK, Paths
<1>4. \A p \in Paths : files'[p].of # None => files'[p].whole
  <2>1. CASE Rename(r)
    <3>1. temp[r].path \in Paths
      <4>1. temp[r] # NoTemp /\ Writing(r)
        BY <2>1 DEF Rename, NoTemp
      <4>2. temp[r].path = Target(r)
        BY <4>1 DEF PerRun, Control, Writing
      <4> QED
        BY <4>1, <4>2, Aimed DEF PerRun
    <3>2. /\ files'[temp[r].path].whole
          /\ \A p \in Paths : p # temp[r].path => files'[p] = files[p]
      <4>1. files' = [files EXCEPT ![temp[r].path] =
                        [of |-> Content(r), whole |-> temp[r].whole, mtime |-> temp[r].mtime]]
        BY <2>1 DEF Rename
      <4>2. files'[temp[r].path] =
                        [of |-> Content(r), whole |-> temp[r].whole, mtime |-> temp[r].mtime]
        BY <3>1, <4>1 DEF TypeOK
      <4>3. \A p \in Paths : p # temp[r].path => files'[p] = files[p]
        BY <3>1, <4>1 DEF TypeOK
      <4> QED
        BY <2>1, <4>2, <4>3 DEF Rename
    <3> QED
      BY <3>1, <3>2 DEF Files
  <2>2. CASE ~Rename(r)
    <3>1. files' = files
      BY <2>2 DEF Step, Begin, Refuse, Resolve, Prompt, Read, Scan, Truncate, Save, Stage,
                  Fill, WriteFails, Evaluate, PrintReport, Kill, world
    <3> QED
      BY <3>1 DEF Files
  <2> QED
    BY <2>1, <2>2
<1>5. ASSUME NEW h \in Hosts, files'[h].of # None
      PROVE  /\ files'[h].of \in Cached'
             /\ HostOf[opt'[files'[h].of].url] = h
             /\ files'[h].mtime <= clock'
  <2>1. CASE files'[h] = files[h]
    <3>1. files[h].of \in Cached /\ HostOf[opt[files[h].of].url] = h /\ files[h].mtime <= clock
      BY <1>5, <2>1 DEF Files
    <3> QED
      BY <1>1, <1>2, <1>3, <2>1, <3>1
  <2>2. CASE Caches(r) /\ h = HostOf[opt[r].url]
    <3>1. /\ files'[h].of = r /\ files'[h].mtime = temp[r].mtime /\ opt' = opt
          /\ Cached' = Cached \cup {r} /\ clock' = clock /\ temp[r].whole
      BY <2>2, Moved
    <3>2. temp[r].mtime <= clock
      BY <2>2, <3>1 DEF Caches, Files
    <3> QED
      BY <2>2, <3>1, <3>2
  <2> QED
    BY <2>1, <2>2, CacheSteps, Moved DEF Untouched
<1>6. ASSUME NEW g \in Hosts, NEW h \in Hosts, files'[g].of # None, files'[h].of # None,
             files'[h].of \in before'[files'[g].of]
      PROVE  files'[h].mtime < files'[g].mtime
  <2>1. CASE files'[g] = files[g] /\ files'[h] = files[h]
    <3>1. files[g].of \in Cached
      BY <1>6, <2>1 DEF Files
    <3>2. files[h].of \in before[files[g].of]
      BY <1>1, <1>6, <2>1, <3>1
    <3> QED
      BY <1>6, <2>1, <3>2 DEF Files
  <2>2. CASE Caches(r) /\ h = HostOf[opt[r].url]
    <3>1. files'[h].of = r /\ r \notin Cached /\ before' = before
      BY <2>2, Moved
    <3>2. files'[g].of \in Runs
      BY <1>5, <1>6 DEF Cached
    <3> QED
      BY <1>6, <3>1, <3>2 DEF Order
  <2>3. CASE Caches(r) /\ g = HostOf[opt[r].url] /\ h # g
    <3>1. /\ files'[g].of = r /\ files'[g].mtime = temp[r].mtime /\ before' = before
          /\ files'[h] = files[h] /\ temp[r].whole
      BY <2>3, Moved
    <3>2. files[h].mtime < temp[r].mtime
      BY <1>6, <2>3, <3>1 DEF Caches, Files
    <3> QED
      BY <3>1, <3>2
  <2>4. CASE Caches(r) /\ g # HostOf[opt[r].url] /\ h # HostOf[opt[r].url]
    <3>1. files'[g] = files[g] /\ files'[h] = files[h]
      BY <2>4, Moved
    <3> QED
      BY <2>1, <3>1
  <2> QED
    BY <2>1, <2>2, <2>3, <2>4, CacheSteps DEF Untouched
<1>7. ASSUME NEW y \in Runs, pc'[y] = "caching", temp'[y].whole
      PROVE  /\ temp'[y].mtime <= clock'
             /\ \A h \in Hosts : files'[h].of # None /\ files'[h].of \in before'[y] =>
                   files'[h].mtime < temp'[y].mtime
  <2>1. CASE y = r /\ Fill(r)
    <3>1. /\ pc[r] = "caching" /\ clock' = clock + 1 /\ files' = files
          /\ temp' = [temp EXCEPT ![r].whole = TRUE, ![r].mtime = clock']
      BY <1>7, <2>1 DEF Fill
    <3>2. temp'[r].mtime = clock'
      BY <3>1 DEF TypeOK
    <3>3. \A h \in Hosts : files[h].of # None => files[h].mtime <= clock
      BY DEF Files
    <3>4. ASSUME NEW h \in Hosts, files'[h].of # None
          PROVE  files'[h].mtime < temp'[r].mtime
      <4>1. files[h].mtime <= clock /\ files'[h].mtime = files[h].mtime
        BY <3>1, <3>3, <3>4
      <4>2. temp'[r].mtime = clock + 1
        BY <3>1, <3>2
      <4> QED
        BY <1>2, <1>3, <4>1, <4>2
    <3>5. temp'[r].mtime <= clock'
      BY <1>2, <3>2
    <3> QED
      BY <2>1, <3>4, <3>5
  <2>2. CASE y # r \/ ~Fill(r)
    <3>1. pc[y] = "caching" /\ temp'[y] = temp[y]
      BY <1>7, <2>2, CacheSteps, Frame
    <3>2. /\ temp[y].mtime <= clock
          /\ \A h \in Hosts :
                files[h].of # None /\ files[h].of \in before[y] => files[h].mtime < temp[y].mtime
      BY <1>7, <3>1 DEF Files
    <3>3. temp'[y].mtime <= clock'
      BY <1>2, <1>3, <3>1, <3>2
    <3>4. before'[y] = before[y]
      <4>1. CASE y # r
        BY <4>1, Frame
      <4>2. CASE y = r
        <5>1. ~Stage(r)
          BY <1>7, <4>2 DEF Stage, TypeOK
        <5> QED
          BY <5>1, CacheSteps
      <4> QED
        BY <4>1, <4>2
    <3>5. ASSUME NEW h \in Hosts, files'[h].of # None, files'[h].of \in before'[y]
          PROVE  files'[h].mtime < temp'[y].mtime
      <4>1. CASE files'[h] = files[h]
        BY <3>1, <3>2, <3>4, <3>5, <4>1
      <4>2. CASE Caches(r) /\ h = HostOf[opt[r].url]
        <5>1. files'[h].of = r /\ r \notin Cached
          BY <4>2, Moved
        <5> QED
          BY <3>4, <3>5, <5>1 DEF Order
      <4> QED
        BY <4>1, <4>2, CacheSteps, Moved DEF Untouched
    <3> QED
      BY <3>3, <3>5
  <2> QED
    BY <2>1, <2>2
<1> QED
  BY <1>4, <1>5, <1>6, <1>7 DEF Files

\* What is read is the latest: newer than all it came before.
LEMMA LookedHolds == ASSUME NEW r \in Runs, Before(r), PerRun(r)' PROVE Looked'
<1> USE DEF Before
<1>1. /\ Cached \subseteq Cached'
      /\ \A q \in Cached : before'[q] = before[q] /\ opt'[q] = opt[q] /\ q \in Runs
      /\ \A q \in Cached : Replaced(q) => Replaced(q)'
  BY BeforeStays
<1>2. \A h \in Hosts : h # None
  BY CommandAssumption
\* One that had looked already.
<1>3. ASSUME NEW y \in Runs, asked[y].last, pc[y] \in {"resolving", "obtaining"},
             opt'[y].in = opt[y].in, seen'[y] = seen[y]
      PROVE  files'[opt'[y].in].of # None /\ Latest(y, files[opt[y].in].of)'
  <2>1. opt[y].in \in Hosts
    BY <1>3 DEF PerRun, Request
  <2>2. files[opt[y].in].of # None /\ Latest(y, files[opt[y].in].of)
    BY <1>3 DEF Looked
  <2>3. seen[y] \subseteq Cached
    BY DEF Order
  <2>4. CASE files'[opt[y].in] = files[opt[y].in]
    BY <1>1, <1>3, <2>2, <2>3, <2>4 DEF Latest
  <2>5. CASE Caches(r) /\ opt[y].in = HostOf[opt[r].url]
    <3>1. files'[opt[y].in].of = r /\ r \notin Cached /\ before' = before
      BY <2>5, Moved
    <3>2. \A q \in seen[y] : r \notin before[q]
      BY <1>1, <2>3, <3>1 DEF Order
    <3> QED
      BY <1>3, <3>1, <3>2, CommandAssumption DEF Latest
  <2> QED
    BY <2>1, <2>4, <2>5, CacheSteps, Moved DEF Untouched
<1>4. ASSUME NEW y \in Runs, asked'[y].last, pc'[y] \in {"resolving", "obtaining"}
      PROVE  files'[opt'[y].in].of # None /\ Latest(y, files[opt[y].in].of)'
  <2>1. CASE y # r
    BY <1>3, <1>4, <2>1, Frame
  <2>2. CASE y = r /\ Begin(r)
    <3>1. pc'[r] # "done" /\ asked'[r].last
      BY <1>4, <2>2
    <3>2. PICK c \in Commands[r], h \in LatestSnapshotCache :
             /\ opt' = [opt EXCEPT ![r] = [NoOptions EXCEPT !.in = h]]
             /\ seen' = [seen EXCEPT ![r] = Cached]
      <4>1. PICK c \in Commands[r] :
              /\ asked' = [asked EXCEPT ![r] = c]
              /\ \/ /\ c.last
                    /\ \E h \in LatestSnapshotCache :
                          opt' = [opt EXCEPT ![r] = [NoOptions EXCEPT !.in = h]]
                    /\ seen' = [seen EXCEPT ![r] = Cached]
                 \/ ~c.last
        BY <2>2, <3>1 DEF Begin, End, TypeOK
      <4>2. asked'[r] = c
        BY <4>1 DEF TypeOK
      <4> QED
        BY <3>1, <4>1, <4>2
    <3>3. opt'[r].in = h /\ seen'[r] = Cached
      <4>1. opt'[r] = [NoOptions EXCEPT !.in = h]
        BY <3>2 DEF TypeOK
      <4>2. seen'[r] = Cached
        BY <3>2 DEF TypeOK
      <4> QED
        BY <4>1, <4>2 DEF NoOptions
    <3>4. files' = files /\ before' = before
      BY <2>2 DEF Begin
    <3>5. h \in Hosts /\ files[h].of # None
          /\ \A g \in Hosts : files[g].of # None => files[g].mtime <= files[h].mtime
      BY DEF LatestSnapshotCache, CacheEntries
    <3>6. ASSUME NEW q \in Cached, files[h].of \in before[q], ~Replaced(q)
          PROVE  FALSE
      <4> DEFINE g == HostOf[opt[q].url]
                 z == files[g].of
      <4>1. g \in Hosts
        <5>1. opt[q].url \in Urls
          BY <1>1 DEF CachedScans, TypeOK
        <5> QED
          BY <5>1, CommandAssumption
      <4>2. z # None /\ (z = q \/ q \in before[z])
        BY <3>6 DEF Kept
      <4>3. z \in Runs
        BY <4>1, <4>2 DEF Files, Cached
      <4>4. files[h].of \in before[z]
        BY <3>6, <4>2, <4>3 DEF Order
      <4>5. files[h].mtime < files[g].mtime
        BY <3>5, <4>1, <4>2, <4>4 DEF Files
      <4>6. files[g].mtime <= files[h].mtime
        BY <3>5, <4>1, <4>2
      <4>7. files[g].mtime \in Nat /\ files[h].mtime \in Nat
        BY <3>5, <4>1 DEF TypeOK, Paths
      <4> HIDE DEF g
      <4> QED
        BY <4>5, <4>6, <4>7
    <3>7. \A q \in Cached : files[h].of \in before[q] => Replaced(q)'
      BY <1>1, <3>6
    <3> QED
      BY <2>2, <3>3, <3>4, <3>5, <3>7 DEF Latest
  <2>3. CASE y = r /\ ~Begin(r)
    <3>1. asked' = asked /\ seen' = seen
      BY <2>3, CacheSteps
      DEF Step, Refuse, Resolve, Prompt, Read, Scan, Truncate, Save, Stage, Fill, Rename,
          WriteFails, Evaluate, PrintReport, Kill
    <3>2. pc[r] \in {"resolving", "prompting"} /\ (Resolve(r) \/ Prompt(r))
      <4>1. ToSave(r) \notin {"resolving", "obtaining"} /\ ToStore(r) \notin {"resolving", "obtaining"}
            /\ ToCache(r) \notin {"resolving", "obtaining"}
        BY DEF ToSave, ToStore, ToCache
      <4>2. ~Refuse(r) /\ ~Read(r) /\ ~Scan(r)
        BY <1>4, <2>3, <4>1 DEF Refuse, Read, Scan, End, Obtained, TypeOK
      <4>3. ~Truncate(r) /\ ~Save(r) /\ ~Stage(r) /\ ~Fill(r)
        BY <1>4, <2>3, <4>1 DEF Truncate, Save, Stage, Fill, Writing, TypeOK
      <4>4. ~Rename(r) /\ ~WriteFails(r)
        BY <1>4, <2>3, <4>1 DEF Rename, WriteFails, End, TypeOK
      <4>5. ~Evaluate(r) /\ ~PrintReport(r) /\ ~Kill(r)
        BY <1>4, <2>3 DEF Evaluate, PrintReport, Kill, End, TypeOK
      <4> QED
        BY <2>3, <4>2, <4>3, <4>4, <4>5 DEF Step, Resolve, Prompt
    <3>3. opt[r].in \in Hosts
      BY <1>4, <2>3, <3>1, <3>2 DEF PerRun, Request
    <3>4. ~Unsettled(r)
      BY <1>2, <3>3 DEF Unsettled
    <3>5. Resolve(r) /\ pc[r] = "resolving"
      BY <3>2, <3>4 DEF PerRun, Control, Prompt, Resolve
    <3>6. opt'[r].in = opt[r].in
      BY <3>4, <3>5 DEF Resolve, Settle, TypeOK
    <3> QED
      BY <1>3, <1>4, <2>3, <3>1, <3>5, <3>6
  <2> QED
    BY <2>1, <2>2, <2>3
<1> QED
  BY <1>4 DEF Looked

\* What was read stays the latest of what was there when --last looked.
LEMMA LastHolds == ASSUME NEW r \in Runs, Before(r), LastIsLatest PROVE LastIsLatest'
<1> USE DEF Before
<1>1. /\ \A q \in Cached : before'[q] = before[q] /\ opt'[q] = opt[q] /\ q \in Runs
      /\ \A q \in Cached : Replaced(q) => Replaced(q)'
  BY BeforeStays
<1>2. ASSUME NEW y \in Runs, asked'[y].last, snapshot'[y] # None,
             NEW q \in seen'[y], snapshot'[y] \in before'[q]
      PROVE  Replaced(q)'
  <2>1. CASE snapshot[y] # None
    <3>1. snapshot'[y] = snapshot[y] /\ asked'[y] = asked[y] /\ seen'[y] = seen[y]
      BY <2>1, Stable, Frame DEF PerRun
    <3>2. q \in Cached
      BY <1>2, <3>1 DEF Order
    <3>3. snapshot[y] \in before[q]
      BY <1>1, <1>2, <3>1, <3>2
    <3>4. Replaced(q)
      BY <1>2, <2>1, <3>1, <3>3 DEF LastIsLatest, Replaced
    <3> QED
      BY <1>1, <3>2, <3>4
  <2>2. CASE snapshot[y] = None
    <3>1. y = r
      BY <1>2, <2>2, Frame
    <3>2. Read(r) \/ Scan(r)
      BY <1>2, <2>2, <3>1
      DEF Step, Begin, Refuse, Resolve, Prompt, Truncate, Save, Stage, Fill, Rename,
          WriteFails, Evaluate, PrintReport, Kill
    <3>3. /\ pc[r] = "obtaining" /\ asked' = asked /\ opt' = opt /\ seen' = seen
          /\ files' = files
      BY <3>2 DEF Read, Scan, world
    <3>4. opt[r].in \in Hosts /\ ~opt[r].demo
      BY <1>2, <3>1, <3>3 DEF PerRun, Request
    <3>5. ~Networked(r)
      BY <3>4, CommandAssumption DEF Networked
    <3>6. snapshot'[r] = files[opt[r].in].of
      BY <1>2, <2>2, <3>1, <3>2, <3>4, <3>5 DEF Read, Scan, Obtained, TypeOK
    <3>7. Latest(r, files[opt[r].in].of)
      BY <1>2, <3>1, <3>3 DEF Looked
    <3>8. q \in Cached /\ q \in seen[r]
      BY <1>2, <3>1, <3>3 DEF Order
    <3>9. Replaced(q)
      BY <1>1, <1>2, <3>1, <3>6, <3>7, <3>8 DEF Latest
    <3> QED
      BY <1>1, <3>8, <3>9
  <2> QED
    BY <2>1, <2>2
<1> QED
  BY <1>2 DEF LastIsLatest, Replaced

\* What is saved was entered, wanted saved and scanned with.
LEMMA SavedHolds ==
    ASSUME NEW r \in Runs, Before(r), SavedInstanceWorked PROVE SavedInstanceWorked'
<1> USE DEF Before
<1>0. \A p \in Runs : Control(p)
  BY DEF PerRun
<1>1. CASE instance' = instance
  <2>1. SUFFICES ASSUME instance.url # None PROVE SavedInstanceWorked'
    BY <1>1 DEF SavedInstanceWorked
  <2>2. PICK q \in Runs : /\ Scanned(q) /\ opt[q].save
                          /\ instance = [url |-> opt[q].url, token |-> opt[q].token]
    BY <2>1 DEF SavedInstanceWorked
  <2>3. Scanned(q)' /\ opt'[q] = opt[q]
    BY <1>0, <2>2, ScannedStays
  <2> QED
    BY <1>1, <2>2, <2>3 DEF SavedInstanceWorked
<1>2. CASE instance' = NoPair \/ instance' = Torn
  BY <1>2 DEF SavedInstanceWorked, NoPair, Torn
<1>3. CASE Save(r) /\ instance' = [url |-> opt[r].url, token |-> opt[r].token]
  <2>1. pc[r] = "truncated" /\ opt' = opt /\ snapshot' = snapshot
    BY <1>3 DEF Save
  <2>2. opt[r].save /\ Networked(r) /\ snapshot[r] # None
    BY <2>1 DEF PerRun, Control, After
  <2>3. Scanned(r)
    BY <2>2 DEF PerRun, Provenance, Networked, Scanned
  <2> QED
    BY <1>3, <2>1, <2>2, <2>3 DEF SavedInstanceWorked, Scanned
<1>4. CASE Truncate(r) \/ Save(r)
  BY <1>1, <1>2, <1>3, <1>4 DEF Truncate, Save
<1>5. CASE ~Truncate(r) /\ ~Save(r)
  <2>1. instance' = instance
    BY <1>5
    DEF Step, Begin, Refuse, Resolve, Prompt, Read, Scan, Stage, Fill, Rename,
        WriteFails, Evaluate, PrintReport, Kill, world
  <2> QED
    BY <1>1, <2>1
<1> QED
  BY <1>4, <1>5

-----------------------------------------------------------------------------

\* Nothing has happened yet.
LEMMA InitHolds == Init => IInv
<1> SUFFICES ASSUME Init PROVE IInv
  OBVIOUS
<1>1. TypeOK
  <2>1. NoCommand \in CommandLines
    BY DEF NoCommand, CommandLines, NoPair, Pairs, Tokens
  <2>2. NoOptions \in [demo : BOOLEAN, in : Hosts \cup {OutPath, None},
                         url : Urls \cup {None}, token : Tokens, save : BOOLEAN]
    BY DEF NoOptions, Tokens
  <2>3. NoFile \in [of : Snapshots \cup {None}, whole : BOOLEAN, mtime : Nat]
    BY DEF NoFile
  <2>4. NoTemp \in [path : Paths \cup {None}, whole : BOOLEAN, mtime : Nat]
    BY DEF NoTemp
  <2>5. instance \in Pairs
    BY DEF Init, NoPair, Pairs, Tokens
  <2> QED
    BY <2>1, <2>2, <2>3, <2>4, <2>5, StagesAre DEF Init, TypeOK
<1>2. \A r \in Runs : /\ pc[r] = "idle" /\ snapshot[r] = None /\ ~opt[r].save /\ temp[r] = NoTemp
                      /\ wrote[r] = {} /\ before[r] = {} /\ seen[r] = {}
  BY DEF Init, NoOptions
<1>3. \A p \in Paths : files[p].of = None
  BY DEF Init, NoFile
<1>4. \A r \in Runs : PerRun(r)
  BY <1>2 DEF PerRun, Control, Provenance, Request, Progress, After
<1>5. Cached = {}
  BY <1>2 DEF Cached
<1>6. CachedScans /\ Kept
  BY <1>5 DEF CachedScans, Kept
<1>7. Files
  BY <1>2, <1>3 DEF Files, Paths
<1>8. Order
  BY <1>2, <1>5 DEF Order
<1>9. Looked /\ LastIsLatest
  BY <1>2 DEF Looked, LastIsLatest
<1>10. SavedInstanceWorked
  BY DEF Init, NoPair, SavedInstanceWorked
<1> QED
  BY <1>1, <1>4, <1>6, <1>7, <1>8, <1>9, <1>10 DEF IInv

\* Nothing that is stated here is about anything else than the variables.
LEMMA Stutters == ASSUME IInv, UNCHANGED vars PROVE IInv'
<1>1. TypeOK' /\ CachedScans' /\ Order'
  BY DEF IInv, vars, TypeOK, CachedScans, Order, Cached, Scanned
<1>2. \A r \in Runs : PerRun(r)'
  BY DEF IInv, vars, PerRun, Control, Provenance, Request, Progress, Unsettled, Networked,
         Writing, Target, Scanned
<1>3. Files' /\ Kept'
  BY DEF IInv, vars, Files, Kept, Cached, Replaced, Overlap
<1>4. Looked' /\ LastIsLatest' /\ SavedInstanceWorked'
  BY DEF IInv, vars, Looked, Latest, LastIsLatest, SavedInstanceWorked, Cached, Replaced,
         Overlap, Scanned
<1> QED
  BY <1>1, <1>2, <1>3, <1>4 DEF IInv

\* Every step keeps the invariant.
LEMMA StepHolds == IInv /\ [Next]_vars => IInv'
<1> SUFFICES ASSUME IInv, [Next]_vars PROVE IInv'
  OBVIOUS
<1>1. CASE UNCHANGED vars
  BY <1>1, Stutters
<1>2. ASSUME NEW r \in Runs, Step(r) PROVE IInv'
  <2>1. TypeOK'
    BY <1>2, TypeHolds DEF IInv
  <2>2. Before(r)
    BY <1>2, <2>1 DEF Before, IInv
  <2>3. PerRun(r)'
    BY <1>2, <2>1, PerRunHolds DEF IInv
  <2>4. \A q \in Runs : PerRun(q)'
    BY <1>2, <2>3, OthersKeep DEF IInv
  <2>5. CachedScans' /\ Files' /\ Order' /\ Kept'
    BY <1>2, <2>2, CachedScansHolds, FilesHolds, OrderHolds, KeptHolds
  <2>6. Looked'
    BY <1>2, <2>2, <2>3, LookedHolds
  <2>7. LastIsLatest' /\ SavedInstanceWorked'
    BY <1>2, <2>2, LastHolds, SavedHolds DEF IInv
  <2> QED
    BY <2>1, <2>4, <2>5, <2>6, <2>7 DEF IInv
<1> QED
  BY <1>1, <1>2 DEF Next, AllEnded

\* The invariant holds in every reachable state.
THEOREM Invariance == Spec => []IInv
<1> QED
  BY InitHolds, StepHolds, PTL DEF Spec

\* Types, which take the reasons why what is written goes somewhere and is something.
THEOREM TypeCorrect == Spec => []TypeOK
<1>1. IInv => TypeOK
  BY DEF IInv
<1> QED
  BY <1>1, Invariance, PTL

\* Whatever is killed, and whenever, no reader finds part of a file, and the cache
\* holds scans of instances only, each under its host.
THEOREM FilesAreWholeHolds == Spec => []FilesAreWhole
<1>1. IInv => FilesAreWhole
  BY DEF IInv, Files, CachedScans, Cached, FilesAreWhole
<1> QED
  BY <1>1, Invariance, PTL

\* --last replays the latest scan, by the order in which scans were cached.
THEOREM LastIsLatestHolds == Spec => []LastIsLatest
<1>1. IInv => LastIsLatest
  BY DEF IInv
<1> QED
  BY <1>1, Invariance, PTL

\* The report is about what was asked for, through flags, menu and saved instance.
THEOREM AskedIsEvaluatedHolds == Spec => []AskedIsEvaluated
<1>1. ASSUME IInv, NEW r \in Runs, snapshot[r] # None
      PROVE  /\ asked[r].demo => snapshot[r] = Demo
             /\ asked[r].last => snapshot[r] \in Runs /\ Scanned(snapshot[r])
             /\ asked[r].typed.url # None /\ ~asked[r].in =>
                   Scanned(r) /\ opt[r].url = asked[r].typed.url
             /\ asked[r].narrowed => Scanned(r) \/ opt[r].demo
  <2>1. PerRun(r)
    BY <1>1 DEF IInv
  <2>2. \A h \in Hosts : h # None
    BY CommandAssumption
  <2> QED
    BY <1>1, <2>1, <2>2 DEF PerRun, Provenance, Request, Networked, Scanned
<1>2. IInv => AskedIsEvaluated
  BY <1>1 DEF AskedIsEvaluated
<1> QED
  BY <1>2, Invariance, PTL

\* What is saved for later runs is an instance that somebody scanned.
THEOREM SavedInstanceWorkedHolds == Spec => []SavedInstanceWorked
<1>1. IInv => SavedInstanceWorked
  BY DEF IInv
<1> QED
  BY <1>1, Invariance, PTL

\* How an invocation ends with 0 or 1.
LEMMA EndVouches ==
    ASSUME IInv, NEW r \in Runs, Step(r), pc[r] # "done", pc'[r] = "done", exit'[r] \in {0, 1}
    PROVE  /\ snapshot[r] # None
           /\ rep[r] = IF exit'[r] = 0 THEN "clean" ELSE "breached"
           /\ snapshot[r] \in Runs => ~unlisted[snapshot[r]] \/ asked[r].allow
           /\ asked[r].out => OutPath \in wrote[r]
           /\ (IF asked[r].file THEN ReportPath ELSE Stdout) \in wrote'[r]
<1>1. TypeOK /\ PerRun(r)
  BY DEF IInv
<1>2. ~End(r, 2)
  BY <1>1 DEF End, TypeOK
<1>3. \/ Rename(r) /\ pc[r] = "reporting" /\ End(r, Status(r))
      \/ PrintReport(r) /\ End(r, Status(r)) /\ wrote' = [wrote EXCEPT ![r] = @ \cup {Stdout}]
  <2>1. ToSave(r) # "done" /\ ToStore(r) # "done" /\ ToCache(r) # "done"
    BY DEF ToSave, ToStore, ToCache
  <2>2. ~Begin(r) /\ ~Refuse(r) /\ ~Resolve(r) /\ ~Prompt(r)
    BY <1>1, <1>2 DEF Begin, Refuse, Resolve, Prompt, Settle, TypeOK
  <2>3. ~Read(r) /\ ~Scan(r) /\ ~Truncate(r) /\ ~Save(r)
    BY <1>1, <1>2, <2>1 DEF Read, Scan, Truncate, Save, Obtained, TypeOK
  <2>4. ~Stage(r) /\ ~Fill(r) /\ ~WriteFails(r) /\ ~Evaluate(r) /\ ~Kill(r)
    BY <1>1, <1>2 DEF Stage, Fill, WriteFails, Evaluate, Kill, TypeOK
  <2>5. Rename(r) \/ PrintReport(r)
    BY <2>2, <2>3, <2>4 DEF Step
  <2> QED
    BY <1>1, <1>2, <2>1, <2>5 DEF Rename, PrintReport, TypeOK
<1>4. pc[r] = "reporting" /\ exit'[r] = Status(r)
  BY <1>1, <1>3 DEF PrintReport, End, TypeOK
<1>5. rep[r] \in Reports /\ (asked[r].out => OutPath \in wrote[r]) /\ snapshot[r] # None
  BY <1>1, <1>4 DEF PerRun, Progress, Control, After
<1>6. ~CoverageRefused(r) /\ rep[r] = IF exit'[r] = 0 THEN "clean" ELSE "breached"
  BY <1>4, <1>5 DEF Status, CoverageRefused, Reports
<1>7. snapshot[r] \in Runs => ~unlisted[snapshot[r]] \/ asked[r].allow
  BY <1>6, CommandAssumption DEF CoverageRefused
<1>8. (IF asked[r].file THEN ReportPath ELSE Stdout) \in wrote'[r]
  <2>1. CASE Rename(r)
    <3>1. temp[r].path = ReportPath /\ asked[r].file
      BY <1>1, <1>4, <2>1 DEF Rename, PerRun, Control, Writing, Target, NoTemp
    <3> QED
      BY <1>1, <2>1, <3>1 DEF Rename, TypeOK
  <2>2. CASE PrintReport(r) /\ wrote' = [wrote EXCEPT ![r] = @ \cup {Stdout}]
    BY <1>1, <2>2 DEF PrintReport, TypeOK
  <2> QED
    BY <1>3, <2>1, <2>2
<1> QED
  BY <1>5, <1>6, <1>7, <1>8

\* An exit status of 0 or 1 is a verdict on an instance that was seen whole.
THEOREM ExitVouchesHolds == Spec => ExitVouches
<1>1. IInv /\ [Next]_vars => [Vouched]_vars
  <2> SUFFICES ASSUME IInv, [Next]_vars PROVE [Vouched]_vars
    OBVIOUS
  <2>1. CASE UNCHANGED vars
    BY <2>1
  <2>2. ASSUME NEW r \in Runs, Step(r),
               NEW q \in Runs, pc[q] # "done", pc'[q] = "done", exit'[q] \in {0, 1}
        PROVE  q = r
    BY <2>2, Frame DEF IInv
  <2>3. ASSUME NEW r \in Runs, Step(r) PROVE Vouched
    BY <2>2, <2>3, EndVouches DEF Vouched
  <2> QED
    BY <2>1, <2>3 DEF Next, AllEnded
<1> QED
  BY <1>1, Invariance, PTL DEF Spec, ExitVouches
=============================================================================
