# bitbucket-bench in TLA+

bitbucket-bench audits a Bitbucket Data Center instance against a benchmark: it
reads the instance over REST into a snapshot, evaluates policies over the
snapshot, and prints, stores and compares reports. This directory holds TLA+
specifications of its code, the TLC configurations that check them on small
instances, and proofs that TLAPS checks for every instance.

Paths below are relative to the repository; `fetcher.go` and `client.go` are in
`internal/scm/bitbucketdc/`.

## 1. The system

| Part | State | Operations | What is hard |
|---|---|---|---|
| Scan orchestration (`fetcher.go`: Fetch, fetchProjects, fetchRepositories, fetchRepository) | two slot channels, result slices filled by index, first errors, `unlisted` | preflight, organization, project list, one goroutine per project and per repository, two joins | cancellation between any two steps, `select` races, partial failure, nested waiting |
| One request (`client.go`: raw, emit, backoff, retryAfter) | loop counter, last error | send, answer, retry, sleep | ten exits, each with its own duty to report and to give up |
| Pagination (`client.go`: getPaged) | position, items read | ask for a page, resume | pages that filter, end early, or do not say where the next one is |
| Group expansion (`fetcher.go`: groupMembers, expandPrincipals) | two memo maps under a mutex | look up, ask, store | the mutex is released while the instance is asked |
| Settings of a repository (`fetcher.go`: fetch*, resolve*) | `Available`, `Errors`, `orgAdmins`, `credentialsVerified` | nine reads, each with its own rule for 401, 403, 404 | a failed read must never look like a setting |
| Targets (`fetcher.go`: targets, parseTargets) | three maps | parse, select | both flags are additive; a rejected target must not widen the scan |
| Branch matching (`matcher.go`) | none | antMatch, matchesDefaultBranch | recursion over `**` |
| Scan command (`internal/cli/scan.go`) | options, files | resolve, obtain, evaluate, write, exit | order of the writes, replays, one exit status for many outcomes |
| Cache, saved instance (`internal/config/cache.go`, `instance.go`) | files | save, find the latest | crashes, shared names, modification times |
| Engine (`internal/engine/`) | none between runs | evaluate, apply exceptions, score, gate | MANUAL, expired exceptions, empty denominators |
| Policies (`internal/checks/`) | none | Rego rules over the snapshot | unavailable data is MANUAL |
| Comparison (`internal/diff/`, `internal/cli/diff.go`) | none | classify, gate | absent is not fixed |
| Tracer, spinner (`internal/cli/trace.go`, `progress.go`) | groups under a mutex; a ticking goroutine | record, flush, redraw, clear | late events, redraw after clear |
| Configuration, first-run prompt, renderers, other commands | none shared | sequential | — |

How they interact: the scan command creates a context that Ctrl-C, SIGTERM or
`scan.maxDuration` cancels, and calls `Fetch` with it. `Fetch` starts goroutines;
each of them calls `Client.get` or `getPaged`, which call `raw`; `raw` calls back
the tracer and the spinner through `OnRequest`. Repository goroutines share the
group memo. The snapshot goes to the engine, the engine's report to the renderers
and, by file, to a later `diff`.

What makes each part correct:

- *Orchestration*: it is bounded, it ends, and it hands back either everything
  asked for or an error with a cause; nothing lost on the way passes for data.
- *Request*: every answer is reported once, only what may change is asked for
  again, the result is the instance's last word, and the call ends.
- *Pagination*: a list without an error is the whole list.
- *Groups*: a count is called complete only if it is, and a lower bound is explained.
- *Settings and policies*: what could not be read is MANUAL, never PASS or FAIL; what
  was read in full is judged, and rightly.
- *Command and files*: a file is whole, a replay shows the latest scan, a report is
  about what was asked for, and 0 and 1 are verdicts on an instance that was seen.
- *Terminal*: a repository's requests are logged together, every request is counted,
  the status line leaves nothing behind, and none of it holds up the report.
- *Matching*: a pattern selects what Bitbucket says it does, and what cannot be told
  is said to be unknown.
- *Engine*: an exception hides only what it names while it lasts; no score is made
  from nothing; an exit status of 0 is earned.
- *Comparison*: what moved is filed once, and only a finding that was looked at again
  counts as fixed.

`PROJECT.json` lists the hazards at their lines, with the properties that cover
each one; the one without a property says why.

## 2. Modules

| Module | Stands for | Extends or instantiates |
|---|---|---|
| `ScanScope` | what a scan sets out to cover: instance, targets, archived repositories | |
| `ScanContract` | what a scan promises the command (abstract) | extends `ScanScope` |
| `FetchScan` | the scan with all its goroutines | extends `ScanScope`, `INSTANCE ScanContract WITH` its own variables |
| `MCFetchScan` | the model-checking instance of it | extends `FetchScan` |
| `FetchScanProofs` | theorems about it | extends `FetchScan` |
| `Request` | `Client.raw` | |
| `Paging` | `getPaged` | |
| `ClientProofs` | theorems about the two | extends both |
| `GroupCache`, `MCGroupCache` | the group memo | |
| `ChangeAudit`, `MCChangeAudit`, `ChangeAuditProofs` | what `fetchRepository` reads about changes, and the policies that judge it | |
| `AccessAudit`, `MCAccessAudit`, `AccessAuditProofs` | what is read of the organization and of who holds what on a repository, and the policies that judge it | |
| `BranchMatcher`, `MCBranchMatcher` | `matcher.go` with the branch model it may lack | |
| `RestrictionProofs` | theorems about what a restriction says: whom it exempts, and what it covers | extends `GroupCache`, `BranchMatcher` |
| `Terminal`, `MCTerminal`, `TerminalProofs` | the tracer, the status line and the narration of a scan | |
| `ScanCommand`, `MCScanCommand`, `ScanCommandProofs` | `runScan` and the files one invocation leaves for the next | |
| `Evaluation`, `MCEvaluation`, `EvaluationProofs` | a snapshot becomes a report and an exit status; two become a comparison | |

**FetchScan.** `phase` is where `Fetch` is, `proj[p]` and `repo[r]` where the
goroutines are. `proj[p]` is `queued` before the `select` of `fetchProjects`,
`listing` while the repository list is asked for, `refused` between the failure of the list and
its record in `unlisted`, `fetching` in the inner
`wg.Wait`, and then `done` or `failed`; `repo[r]` is `queued`, `reading`, `whole` when
`fetchRepository` has returned without an error, and then
`kept` (stored in `out[i]`) or `lost`. The code looks at the context (fetcher.go:609 and 735) before it
records or stores (618, 667), and the cancellation may fall in between: these are two steps each. The look
of `JoinProject` (676) is one step with what follows, of which nothing but the goroutine's own end is seen
before `wg.Wait`. `projectSlots` and `repoSlots` are the
numbers of tokens in the two channels. `left[r]` counts the reads of
`fetchRepository` still to come; `damaged` and `orgDamaged` are history: what was
read after the cancellation and noted as unavailable. `cancelled`, `unlisted`,
`outcome` and `snapshot` are what the command sees, and the variables of
`ScanContract`. Requests are single steps, placed where the answer is settled.
An archived repository has one read (base access) and every other one `1 + Reads`.

**ScanContract** has no goroutines: projects may be set aside as unlisted while
nothing is cancelled, and the scan ends once, in a snapshot of exactly the
coverage that is left or in a failure that has a cause. Under the refinement mapping its
four variables are those of `FetchScan` that the command sees, and everything about
goroutines, slots and reads is hidden; only `unlisted` is mapped to `WrittenOff`, which has a project from
the look at the context on, not from its record: by the time Fetch returns the two are the same. `ScanScope!Named` is what `parseTargets` makes of the flags.

**Request.** `pc` is the place in `raw`, `attempt` its loop counter, `lastErr` and
`result` which answer the error or the body came from; `sent`, `answers` and
`events` are history. Requests and sleeps take two steps, so the context may end
during either. Whether a sleeping `select` takes the timer or the context is left open.

**Paging.** Positions number the items of the collection; `got[k]` is how often
item `k` is in `out`. The instance chooses where each page ends and, if it leaves
nothing out of the page, whether it says where the next one starts. `Item`,
`Visible`, `Values`, `Ends` and `NextPageStarts` are the instance and are external.
It is assumed honest in two ways: `isLastPage` only at the end, and a
`nextPageStart`, where sent, is the end of the page. `getPaged` can verify neither.

**GroupCache.** Each reader is a repository goroutine with its list of exempted
groups; `at` is its place in the list, `asking` the readers between the two
critical sections of `groupMembers`. `groupCache`, `groupFail` and `warned` are
the maps of the same names, `complete` the restrictions whose count is not a
lower bound, and `asked` is history.

**ChangeAudit.** `world` is the repository as it is, chosen at the start among
`Worlds`; `repo` is the `scm.Repository` being filled in, its field `available` the
set of true keys of `Available`; `stage` is the read to come and `resolved` the flag of
the branch model. Each read is one action, in the code's order, and either fills in
its part or leaves it unavailable. Names are abstracted: a matcher is one of three
kinds (`Reading`), and `covering`, `gating` and `exempting` say which ones select the
configured default branch. `matches`, `unknown`, `gates` and `undecided` are what the
code records as `MatchesDefaultBranch` and `MatchUnknown`; `exempt` and `partial` are
`ExemptPrincipals`; `old` and `undated` the branches over and without an age. The
chains of a policy's `result` are written as the conditions of each verdict, which
exclude one another, so that the order is in the guards. `Holds` says what a
control is about, of `world` and without `repo`, and `Applies` where it is about anything.
The eleven controls are 1.1.3, 1.1.4, 1.1.8, 1.1.9, 1.1.11 to 1.1.13, 1.1.15 to
1.1.17 and 1.2.1.

**AccessAudit.** `world` is an instance as it is: its accounts, which of them are
active, licensed, administrators, when they last signed in, and what each holds on a
repository. `stage` is the next read of `fetchOrganization`, `licensed` its local map, `org`
the `scm.Organization` and `fetcher` the fields it leaves behind (`orgAdmins`,
`licensedActive` and whether each is known). From then on `at[r]` follows the goroutine of
each repository through `fetchBaseAccess`, one probe per step, and
`fetchRepositoryAdmins`. Any read may fail; `refused` is history. Two things about the
instance are left open: whether inactive accounts are among those it lists for a
permission (`lists`), and whether it records times and ages at all. The table of permission
ranks is a constant of which only its order is assumed, together with a ceiling that is ranked
and not below zero: the code does not check the signs of the other ranks, so a negative one
is `Comparable` to nothing. The controls are 1.3.1, 1.3.3, 1.3.7 and 1.3.8; below them is
what each is about, of `world` alone.

**BranchMatcher.** A text is the sequence of its characters, so that prefixes, separators
and suffixes are the real ones; a few words that are never cut stand for one character
each. `FetchBranchModel` may or may not read `world` into `model`, and `Match` is
`matchesDefaultBranch` with `antMatch`, `globMatch` and `matchFrom`. The backtracking is one recursive
function over the positions of the pattern, whose value is the set of positions of the name from
which the rest matches (`Matching` is one step of it). The reference is in terms of tokens:
`ReadAs` says what a pattern is read as, `CutBy` that a text can be cut into one piece per token, and
`PatternSelects` that this can be done with whole segments at the end of the reference. A `BRANCH`
matcher names its branch by `id` or by `displayId`, the text of a `PATTERN` is `displayId` where there is
no `id`, and the identifier of "all branches" counts under any type, as in the code; nothing is assumed about the
two fields agreeing. That the display name of the default branch itself is its short name is assumed
(`Display`), and spaces and the case of type names, which the code evens out, are left out. `Reading` and `known` are what `ChangeAudit`
takes for granted of a matcher.

**Terminal.** `main` follows `runScan` from the start of the status line to the closing
line, `life[r]` the goroutine of a repository, `request[s]` the requests of a scope, which
makes one at a time and may retry it. The mutex of the tracer is `block`: a single write is a
step, the block of a repository is a step per line, and whoever else records waits for
`TracerFree`. Narration has a mutex of its own and may fall anywhere. `spinner` is the goroutine
behind the status line with its two channels, and `line` what it believes to have drawn
(`last`) beside what is on the screen (`held`). Widths are data of which the properties need only
the order; the figure of the request count adds one. `history` counts what was sent and given up on
and keeps what each scope heard; `Events` and `Retries` are the sets of that. `Dropped` is the
loop of `repositoryDone` that takes the first occurrence out of `order`.

**ScanCommand.** `pc[r]` is the place of invocation `r` in `runScan`, `asked[r]` its
command line with environment, configuration and the answers of whoever sits at the
terminal, `opt[r]` the `scanOptions` it goes on with, `snapshot[r]` the snapshot in
hand, named by the invocation that captured it. `files` is what is at the end of each
path (a cached snapshot per host, `--snapshot-out`, `--output-file`), `temp[r]` the
temporary file of `writePrivateFile`, `instance` is `instance.yaml`; all of them
outlive a killed process. `wrote`, `before` and `seen` are history: the files an
invocation finished, the scans that were cached when it began to write to the cache,
and those that were when `--last` looked. A write takes three steps (create, fill,
rename), saving an instance two (empty, write), and finding the latest file and
reading it are two steps apart. A token is named by the instance that accepts it, and
basic auth is folded into it. `Scan` is one step, what `ScanContract` promises; a report
may say anything. Three things are assumed: the clock moves on between two writes to
the cache and never back, a single small write is not cut in two, and looking through
the cache is one step.

**Evaluation.** `pc` follows one invocation of `scan` or `diff`: the engine is made
(`starting`), judges every finding due (`judging`, one `evaluateOne` each), adds up the
score (`counting`, one turn of the loop of `Compute` each) and applies the exceptions
(`accepting`); `diff` does this for `side` before and after. A scan then goes through the
gates (`weighing`), a diff compares. `status[s][p]` is the verdict of a control on a resource in
a report, `None` where the report has no such finding; `broken` are the findings behind
`Report.Errors`, `waived` those with a `Waiver`. The loops visit any order: `left` is what
they have yet to visit. A policy may say anything, or not run; the five controls that
no API answers say MANUAL or NA. A snapshot is what existed when it was taken, less the
projects that could not be listed. One repository of the model stands for `Alike` many that read
the same, so that percentages are taken of hundreds of findings and not of three. An
exception has lapsed or not for the whole of a run.

## 3. Runs

| Run | Instance | Shows |
|---|---|---|
| `fetch_scan` | 3 projects, 4 repositories (1 archived), everything in scope, 2 slots, 3 reads each | `RepositoryBound`, `SnapshotIsWhole`, `NothingRunsAfterReturn`, `CancellationFreezes`, `SomeoneGoesOn` |
| `fetch_scan_targets` | 1 whole project, 3 named repositories of which 1 does not exist and 1 is archived and left out, as is 1 of the project, 1 slot | `ImplementsContract`, `Terminates` |
| `request` | 6 retries, Retry-After 0, 5 and 3600 | `OneEventPerAnswer`, `AnswersAreHeeded`, `CallsAreBounded`, `Returns` |
| `paging` | 8 items, 3 hidden, pages of at most 3, at most 5 pages | `CompleteIsWhole`, `NothingSkippedNorReread`, `WalkReturns` |
| `group_cache` | 3 readers, 4 restrictions, 2 groups | `CountsAreHonest`, `MembersOutliveFailures` |
| `change_audit` | 436 repositories over 2 branches, 3 restrictions, 2 conditions, 1 group; at most 1 bypass, no stale branch | `Recorded`, `PassesAreEarned`, `FailuresAreReal`, `NotApplicableIsTrue`, `FullReadDecides` |
| `access_audit` | 6,816 instances of 3 accounts and 2 repositories (1 archived); 2 ranked permissions, ceiling at the first, 1 administrator wanted and allowed, dormant after 2 days | `Recorded`, `PassesAreEarned`, `FailuresAreReal`, `FullReadDecides` |
| `branch_matcher` | 520 patterns of up to 3 tokens, each as `id` and as `displayId`, and every other type of matcher with its branch models, 1,688 cases; 5 default branches and none | `PatternsAreUnderstood`, `AnswersAreNotGuessed` |
| `terminal` | 2 repositories, 1 and 2 requests each, 1 request of the instance, 1 retry; 4 settings | `BlocksAreWhole`, `EverythingIsAccounted`, `ScreenIsClean`, `LinesStandAlone`, `ReportIsReached` |
| `scan_command` | 3 invocations (told, asking, relying) with 10 command lines, 2 instances on 2 hosts, 1 kill | `FilesAreWhole`, `LastIsLatest`, `AskedIsEvaluated`, `SavedInstanceWorked`, `ExitVouches` |
| `evaluation` | 3 repositories in 2 projects, one standing for 200; 3 controls, 1 without an API; 7 configurations; 4 snapshots | `ScoreIsHonest`, `GreenIsEarned`, `ChangesAreFiled` |

The type invariants (`TypeOK`) and the parts of `SnapshotIsWhole`, `AnswersAreHeeded`,
`CallsAreBounded` and `CountsAreHonest` are proved and not run by themselves, as are `FailureHasCause` and
`AskedOncePerReader`.

Why the bounds are enough. *fetch_scan*: three projects compete for two slots, two
repositories of one project with those of others, so a queue forms at both
channels; one repository is archived, so both lengths of `fetchRepository` occur;
two channels of two tokens leave room for every order of listing, reading and
giving up. *fetch_scan_targets*: with one slot, a forgotten release is a deadlock
at once; the missing target lives in a project that may or may not list, and so does the archived one.
*request*: six retries pass the fifth, from where the backoff is at its ceiling,
and 3600 passes the cap of `retryAfter`. *paging*: hidden items make the position
and the number of values drift apart; five pages are too few if the instance sends
empty ones and enough otherwise. *group_cache*: three goroutines can ask about one
group at once and be answered members, failure, members; one of them meets the
same group twice. *change_audit*: the repositories are three families that vary, over
every set of branches, the restrictions with the force-push hook, the builds, and the
rest; families, because no control looks at two of them. The three restrictions
match by name, through the model and in an unknown way; the first exempts
just as many as allowed, the second one too many, the two together again just as many, and
losing the group hides it. Every verdict of every control occurs.
*access_audit*: two families of instances that no control looks at together, permissions
and sign-ins. Three accounts are one more than the limit on administrators and leave room for one
that is inactive, one without a licence and one that holds less; three levels of permission, of
which the last has no rank, are a probe that stops at once, one that climbs, and one that ends
above the ceiling. Sign-ins are before, at and beyond the threshold, absent, and in the
future. *branch_matcher*: three tokens suffice for each pair of wildcards to compete for
the same text, with something fixed before, between or after them; a pattern given as `id` stands beside a `displayId` that says something else, and a `BRANCH` is named by either field,
both or neither; the names have up to
two separators, and every kind of piece can be empty. *terminal*: one repository flushes while
the other records; the repository with two requests has a block of several lines; texts get
shorter and longer; the settings are the log with and without narration, the status
line, and narration into a pipe. *scan_command*: two
invocations write whatever a later one may read (two hosts in the cache, the snapshot
file, the saved instance), in every order, and the third reads it while they do. Two
savers meet at `instance.yaml`. What three cannot show is the exception in `LastIsLatest`,
which takes two overlapping writers of one file beside an older scan and a reader;
that one is only proved. *evaluation*: 200 repositories that pass beside one that does not put the score
and the share of unread findings within one percent of their limits, where rounding
shows. Every gate is at its strictest in one configuration and off in another; one
exception has lapsed, one is in force. Between two snapshots a repository comes, goes,
is archived, or is in a project that could be listed in one of them only.

One run shows a disagreement between the code and its own documentation.
`scan_command_one_host`: the cache keeps "one file per host, so alternating between
instances never records one instance's posture under the other's name"
(cache.go:21-23). Two instances under two paths of one host have one file
(cache.go:41-57), and each scan replaces the other's.

Others were met while the models were written, and need no run to be seen:

- A repository named by `--repository` that `skipArchivedRepositories` leaves out fails
  the scan with "no such repository, or this token cannot see it" (fetcher.go:585),
  though it exists and is visible.
- NA "means the control does not apply to this resource at all" (lib/common.rego:7-9).
  When the branch list cannot be read, `Empty` stays false (fetcher.go:1022-1027), and an
  empty repository with no restriction is failed by the branch controls that need no
  default branch to fail.
- NEW FAILURES are "failing on a repository that did not exist before" (README.md:1059). A
  comparison does not look at what a snapshot says it could not list (diff.go:89-96), so
  a repository of a project that was unlisted in the baseline is one of them.
- Model matchers are said to "fall back to documented defaults" without a branch model
  (matcher.go:31-32, fetcher.go:815-817). The code answers that it does not know, which is what
  `AnswersAreNotGuessed` shows to be right.
- The closing line counts "what was sent" (trace.go:36-37). A request that was in flight when
  the context ended is sent and not counted (client.go:506-508); `EverythingIsAccounted`
  says exactly that. Nor is the block of a repository free of other lines: narration
  does not take the tracer's mutex.

`AskedIsEvaluated` leaves out two command lines that the code answers with something
else, by design or by omission: a URL typed next to `--snapshot-in` is ignored, and so
are `--project` and `--repository` when the person at the menu picks the example.

**Fairness.** `FetchScan!FairSpec` has weak fairness of the main goroutine and of
each project's and repository's: Go runs every runnable goroutine, a blocked send
on a channel proceeds when there is room, and each request ends, which is what
`Request` shows. Weak fairness suffices although goroutines compete for slots,
because every holder finishes and each goroutine takes a slot only once.
`Terminal!FairSpec` has weak fairness of `runScan`, of each repository and each scope of
requests, and of the redraw; stopping the spinner needs strong fairness, because the tick and the stop
channel compete in one `select`, which Go decides at random. `Request!FairSpec` assumes
that an attempt is answered or runs into `http.Client.Timeout` and that timers fire; `Paging!FairWalk` that each request
returns. No specification assumes that the context is ever cancelled.

## 4. Proofs

TLAPS proves the following for every value of the constants, from the named
assumptions of the modules (`ScopeAssumption`, `FetchAssumption`,
`RequestAssumption`, `PagingAssumption`, `GroupAssumption`, `AuditAssumption`,
`AccessAssumption`, `MatcherAssumption`, `TerminalAssumption`, `CommandAssumption`,
`EvaluationAssumption`) and nothing else.

*FetchScanProofs*: every safety property of the two runs of `FetchScan` with both parts of
`SnapshotIsWhole`, `FailureHasCause`, the
action properties `CancellationFreezes` and `EveryStepCounts`, and `Refinement`: the concurrent scan
implements `ScanContract`. None of them is inductive. `IInv` adds: the number of
tokens in a channel is the number of goroutines between their `select` and their
deferred release (`SlotsCounted`), without which neither bound survives a release;
a repository's goroutine lives only while its project waits for it (`Ownership`),
without which a project could settle over a running read; what a settled project
leaves behind (`Settled`); only a cancellation loses anything, and nothing damaged
is whole (`Losses`); and what each phase and outcome of `Fetch` says about the
goroutines (`Progression`). There is one lemma per action. `CancellationFreezes` says that what a look at the context settles
(`Whole`, `WrittenOff`) is settled for good once it is cancelled. Storing and recording may
come later, so that it would not hold of what is stored; that a snapshot returned after a cancellation
owes nothing else is the part that needs the invariant. Of termination two halves are proved,
for any number of slots. `SomeoneGoesOn`: there is no cycle of waiting. It needs one invariant more
(`AllStarted`: a project that waits has started every repository it waits for) and then counts
from the inside out: if nobody could go on, no repository would be reading, so the pool would be
empty and nobody queued at it, so no project would be left in its `wg.Wait`, so the other pool would
be empty, too. `EveryStepCounts`: each step is one of finitely many. What is left to
`Terminates` is the fairness of the scheduler.

*ClientProofs*: for `Request`, every safety property of `request`, for any number of retries and
any Retry-After. The invariant ties `attempt` to the number of answers and
`lastErr` to the last of them. `NoLongSleep` rests on a lemma about the clamped
exponent. For `Paging`, every safety property of `paging`: `got` is exactly the visible items
below `start`. The lemma behind it, `ResumesAtTheEnd`, is the code's argument for its fallback: wherever
the instance is silent, counting the values is right because nothing was left out.

*RestrictionProofs*, for `GroupCache`: the safety properties and `MembersOutliveFailures`.
The strengthening is that every memoised failure was warned of (`FailuresWarned`), and that a reader
asked about a group only if the group is memoised or the reader is still asking (`AskedIsKnown`).

*RestrictionProofs*, for `BranchMatcher`: both properties of `branch_matcher`, for every pattern, however
long, every reference and every branch model. The states are few; the work is in
`antMatch`, a recursion over characters against a meaning in tokens. The library's induction
cannot be used, but from the well-foundedness of finite sets follows that a set of
numbers has a least element (`Least`) and a bounded one a greatest (`Greatest`), and each
induction becomes an argument about the first or last place where it fails. In this way
`MatchFromUnfolds` shows that the recursion has a solution and that it obeys its equation;
`TokenStep` that at the start of a token the code does what the token means, `**/` with and without
its separator and `*` up to the next one; `RestIsCut` that the rest of a pattern matches
from a position just when the rest of its tokens can cut the name from there, from
the last token backwards; and `AntMatchIsSelection` that trying the tails after each separator, and `**`
after a trailing one, is Bitbucket's rule. `PatternsAreRead` shows that every
non-empty text is read as some tokens: `MatcherAssumption`, which supplies the tokens of a pattern,
holds no pattern back. The other types of matcher rest on `SameRefIsName` and `PrefixOfName`,
which compare short names and references. They use that a branch is not named after a
directory, nor with `refs/heads/` before its name.

*TerminalProofs*: all the safety properties of `terminal` and `LinesStandAlone`, for any number of
repositories (the set may be infinite), requests and retries, in any setting. `BlocksAreWhole` and
`EverythingIsAccounted` say what the log holds in the end; the invariant has to say where every line is until then.
`Lines(s)` is how many requests of a scope are in the log; `LogIsLines` says that the log
holds those and no others, `TracerHolds` that the tracer has the requests of every repository
that runs, and `BlockIsRest` that the block being written is the rest of a log, with the line
before it at the end of the log. `OrderIsSet` is needed because `repositoryDone` takes one occurrence out of
`order` (`OneOut`). `Accounted` counts: what was sent was heard of, given up on, or is in
flight, by the cardinality of these sets. `Screen` says of the status line that it is where the
writer believes it to be and that the goroutine has gone before it is erased.

*ChangeAuditProofs*: all five properties of `change_audit`. `Recorded` is what the
fetcher owes the policies; it becomes inductive with two more parts: nothing that
depends on the default branch or the model is read before them (`InOrder`), and what
is in doubt is so for want of the model or of understanding (`InDoubt`). The verdicts
then follow state by state. The two lemmas to read are `GuardedIsProtected` (the
restrictions not recognised can only bind more, and the members not seen are ruled
out, or cannot matter because some restriction exempts nobody) and
`ExposedIsUnprotected` (everything that may cover the branch was recognised, and whoever
was seen to be exempt is). Both rest on the monotonicity of cardinality.

*AccessAuditProofs*: all four properties of `access_audit`, for any number of accounts and
repositories. The invariant follows each read: what the organization has been asked so far
(`OrganizationInv`), that no repository starts before the `Fetcher` is settled, what
the probes of a repository have climbed (`Climbed`: everyone holds the level reached, unless
inactive accounts were listed), and that administrators are told apart only from a list that was read
(`OwnInv`). The lemma to read is `ReachMeansAll`: there is someone at the position of the
last active licensed account just when all of them are listed, which is why one request for one
entry settles a level. It rests on the cardinality of finite sets.

*ScanCommandProofs*: all the properties of `scan_command`, for any number of
invocations and kills. `IInv` says of each invocation what it has at its place and where
its snapshot comes from (`PerRun`); that whoever is in the cache is past caching, so
nobody caches twice (`CachedScans`); that the times of cached files order them as their
scans came (`Files`), that this order is transitive (`Order`), and that a scan leaves
the cache only for a newer one or one that overlapped with it (`Kept`); and that what
`--last` looked up was the newest (`Looked`). Without the last four `LastIsLatest` does
not survive the step between looking up a file and reading it, in which another
invocation may replace it.

*EvaluationProofs*: all four properties of `evaluation`, whatever the policies say and
however many findings there are. `Counted` says what the loop of `Compute` knows of the
findings visited so far: something was earned if and only if one of them passed, and
something was missed if and only if one failed. With the lemma `Percent` (a floored
percentage is 100 only of the whole) this gives `ScoreIsHonest`, and through it one half of
`GreenIsEarned`; the other half needs `Weighed` (an unread count of 0 means that nothing visited
was left unread) and `Waived`. `ChangesAreFiled` rests on `SameControls`: both reports
put the same controls to every resource they share, because one configuration made them.

Only model-checked: `Terminates`, `Returns`, `WalkReturns` and `ReportIsReached`. They are liveness
properties, which rest on fairness and so on ENABLED, out of the prover's reach. Every other property of a
passing run is a theorem.

## 5. What is not modelled

Addresses, TLS, credentials, JSON, the names and numbers inside settings, sorting
and wording. A panic is not modelled: the code recovers from none. The instance
does not change during a scan: items that move between two pages are listed
as a hazard without a property. By part:

- *Report renderers and console* (`internal/report`, `internal/console`) lay out a finished
  report. They keep no state and decide nothing that a property here is about.
- *Other commands and build information* print once and exit.
- *Settings*: which refusals are worth a warning (`unreadable`, `credentialsVerified`) and the
  forms in which a number or a flag arrives (`models.go`).
- *Targets*: the spellings that name one project.
- *Control registry, configuration*: loading the embedded controls and finding, decoding
  and validating one file are sequential walks. What they hand on is in `Evaluation`.
- *First-run prompt*: drawing the menu and decoding keys.
- *Progress*: the count of repositories in the status line; goroutines may show a smaller
  one after a greater one, which is a matter of a figure on the screen.

## 6. Plan

Written so far: the network scan and what it is built on, the reads and verdicts about
changes and about access, the matching of branches, what a scan shows while it runs, the
command with its files, and what becomes of a snapshot. What is left, in this order:

1. `ScanSystem`: `FetchScan` composed with `Terminal`, so that a block is of what was kept or lost;
   and `ScanCommand` with `Evaluation` in place of its open report.
2. An instance that changes while it is read, for `Paging` and `GroupCache`.
