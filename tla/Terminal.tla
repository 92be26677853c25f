------------------------------ MODULE Terminal ------------------------------
(***************************************************************************)
(* What a scan shows while it runs: the tracer, which accounts for every    *)
(* request and may log them by repository (src/internal/cli/trace.go), the  *)
(* status line that a goroutine of its own keeps turning (progress.go), the *)
(* narration of --verbose, and runScan, which puts up the one and takes it  *)
(* down before it writes what the other has counted (scan.go).             *)
(*                                                                         *)
(* A mutex held for a single write is a step; the block of a repository is  *)
(* many writes under the tracer's mutex, and one step for each.             *)
(***************************************************************************)
EXTENDS Naturals, Sequences, FiniteSets, SequencesExt

CONSTANTS
  Repository,  \* those the scan fetches, all of them selected
  Instance,    \* the scope of requests that belong to no repository
  Settings,    \* what a scan may be run with
  MaxRequests, \* bound: the requests of each scope
  MaxRetries,  \* of one request
  Wide         \* the width of the status text, by what it names

Scope == Repository \cup {Instance}
Setting == [terminal : BOOLEAN, verbose : BOOLEAN, progress : {"off", "compact", "full"}]

ASSUME TerminalAssumption ==
  /\ Instance \notin Repository
  /\ Settings \subseteq Setting
  /\ MaxRequests \in [Scope -> Nat] /\ MaxRetries \in Nat
  /\ Wide \in [Scope -> Nat \ {0}]

VARIABLES
  setting,   \* whether stderr is a terminal, --verbose, scan.progress
  cancelled, \* the context of the scan
  main,      \* where runScan is
  life,      \* where the goroutine of each repository is
  request,   \* of each scope: at, attempt, and how many came before
  tracer,    \* pending, order, total and retries of tracer
  block,     \* the repository whose block holds tracer.mu, what is left of it,
             \* and what fetchRepository then returns
  printed,   \* the lines on stderr: of the tracer, and how many of narration
  spinner,   \* the goroutine of progressWriter, and its stop channel
  line,      \* text and last of progressWriter, and what the screen holds
  history    \* what was sent, heard of and given up on
vars == <<setting, cancelled, main, life, request, tracer, block, printed, spinner, line, history>>

(* --verbose wins over the file; a log of requests needs a terminal, and   *)
(* the status line one that nothing else writes to.                        *)
Shown ==
  LET asked == IF setting.verbose THEN "full" ELSE setting.progress IN
    IF asked = "full" /\ ~setting.terminal THEN "off" ELSE asked
Logged == Shown = "full"

(* Mutation: the status line is shown whatever else is. *)
HasStatusLineAnyway == setting.terminal /\ Shown # "off"

HasStatusLine == Shown = "compact" /\ ~setting.verbose /\ setting.terminal

NoBlock == [of |-> Instance, left |-> <<>>, result |-> "none"]

Init ==
  /\ setting \in Settings
  /\ cancelled = FALSE
  /\ main = "open"
  /\ life = [r \in Repository |-> "waiting"]
  /\ request = [s \in Scope |-> [at |-> "idle", attempt |-> 0, made |-> 0]]
  /\ tracer = [pending |-> [r \in Repository |-> <<>>], order |-> <<>>,
               total |-> 0, retries |-> 0]
  /\ block = NoBlock
  /\ printed = [log |-> <<>>, narrated |-> 0]
  /\ spinner = [at |-> "none", stopped |-> FALSE]
  /\ line = [text |-> Instance, counted |-> FALSE, last |-> 0, held |-> 0]
  /\ history = [sent |-> 0, lost |-> 0, heard |-> [s \in Scope |-> <<>>]]

Entry(kind, scope, n) == [kind |-> kind, scope |-> scope, n |-> n]
Prints(entry) == printed' = [printed EXCEPT !.log = Append(@, entry)]

(* logf and emit, under a mutex of their own: their lines may come anywhere, *)
(* inside the block of a repository too.                                   *)
Narrates ==
  IF setting.verbose THEN printed' = [printed EXCEPT !.narrated = @ + 1] ELSE UNCHANGED printed

(* Mutation: a block is written without the mutex. *)
TracerFreeAlways == TRUE

(* The tracer's mutex is free. *)
TracerFree == block.of = Instance

Cancel ==
  /\ ~cancelled /\ main \in {"fetching", "joining"} /\ cancelled' = TRUE
  /\ UNCHANGED <<setting, main, life, request, tracer, block, printed, spinner, line, history>>

-----------------------------------------------------------------------------
(* The status line. *)

(* Mutation: the tail of a longer line is left behind. *)
PaddedNever(width) == width

(* How far a line overwrites the one before it. *)
Padded(width) == IF line.last > width THEN line.last ELSE width

(* redrawLocked.  What was further out on the screen stays there. *)
Redrawn(text, counted) ==
  LET width == Wide[text] + IF counted THEN 1 ELSE 0 IN
    [text |-> text, counted |-> counted, last |-> width,
     held |-> IF line.held > Padded(width) THEN line.held ELSE width]

TickerFires ==
  /\ spinner.at = "select" /\ spinner' = [spinner EXCEPT !.at = "draw"]
  /\ UNCHANGED <<setting, cancelled, main, life, request, tracer, block, printed, line, history>>

TickerDraws ==
  /\ spinner.at = "draw" /\ spinner' = [spinner EXCEPT !.at = "select"]
  /\ line' = Redrawn(line.text, line.counted)
  /\ UNCHANGED <<setting, cancelled, main, life, request, tracer, block, printed, history>>

(* Mutation: the goroutine reads the channel back through the writer, which *)
(* clear has set to nil by then.                                           *)
TickerStopsByField ==
  /\ spinner.at = "select" /\ spinner.stopped /\ main = "fetching"
  /\ spinner' = [spinner EXCEPT !.at = "stopped"]
  /\ UNCHANGED <<setting, cancelled, main, life, request, tracer, block, printed, line, history>>

TickerStops ==
  /\ spinner.at = "select" /\ spinner.stopped
  /\ spinner' = [spinner EXCEPT !.at = "stopped"]
  /\ UNCHANGED <<setting, cancelled, main, life, request, tracer, block, printed, line, history>>

-----------------------------------------------------------------------------
(* A request: sent, answered and recorded, ticked.  A scope makes one at a *)
(* time; one without a repository is made by the main goroutine, or by that *)
(* of a project while repositories are fetched.                            *)

Requesting(s) == IF s = Instance THEN main \in {"fetching", "joining"} ELSE life[s] = "running"

Send(s) ==
  /\ Requesting(s) /\ request[s].at = "idle" /\ ~cancelled
  /\ request[s].made < MaxRequests[s]
  /\ request' = [request EXCEPT ![s].at = "flight"]
  /\ history' = [history EXCEPT !.sent = @ + 1]
  /\ IF request[s].attempt > 0 THEN Narrates ELSE UNCHANGED printed
  /\ UNCHANGED <<setting, cancelled, main, life, tracer, block, spinner, line>>

(* Held until the repository is done. *)
Held(s, event, pending) == [pending EXCEPT ![s] = Append(@, event)]

(* record, for an answer or an error that is not a cancellation. *)
Answered(s) ==
  /\ request[s].at = "flight" /\ TracerFree
  /\ request' = [request EXCEPT ![s].at = "recorded"]
  /\ LET n == Len(history.heard[s]) + 1
         held == Logged /\ s # Instance
     IN /\ history' = [history EXCEPT !.heard[s] = Append(@, request[s].attempt)]
        /\ tracer' =
             [tracer EXCEPT !.total = @ + 1,
                            !.retries = @ + IF request[s].attempt > 0 THEN 1 ELSE 0,
                            !.pending = IF held THEN Held(s, n, @) ELSE @,
                            !.order = IF held /\ tracer.pending[s] = <<>> THEN Append(@, s) ELSE @]
        /\ IF Logged /\ s = Instance THEN Prints(Entry("request", s, n)) ELSE UNCHANGED printed
  /\ UNCHANGED <<setting, cancelled, main, life, block, spinner, line>>

(* Cancelled in flight: no event. *)
Abandoned(s) ==
  /\ request[s].at = "flight" /\ cancelled
  /\ request' = [request EXCEPT ![s] = [at |-> "idle", attempt |-> 0, made |-> @.made + 1]]
  /\ history' = [history EXCEPT !.lost = @ + 1]
  /\ UNCHANGED <<setting, cancelled, main, life, tracer, block, printed, spinner, line>>

(* progress.tick, and then another attempt or the caller goes on. *)
Ticked(s) ==
  /\ request[s].at = "recorded"
  /\ \/ request' = [request EXCEPT ![s] = [at |-> "idle", attempt |-> 0, made |-> @.made + 1]]
     \/ /\ request[s].attempt < MaxRetries
        /\ request' = [request EXCEPT ![s].at = "idle", ![s].attempt = @ + 1]
  /\ line' = [line EXCEPT !.counted = HasStatusLine]
  /\ UNCHANGED <<setting, cancelled, main, life, tracer, block, printed, spinner, history>>

(* Nothing in flight, nor waiting to be tried again. *)
Quiet(s) == request[s].at = "idle" /\ (request[s].attempt = 0 \/ cancelled)

-----------------------------------------------------------------------------
(* The goroutine of a repository. *)

Lives(r, from, to) == life[r] = from /\ life' = [life EXCEPT ![r] = to]

Start(r) ==
  /\ main = "joining" /\ Lives(r, "waiting", "running") /\ Narrates
  /\ UNCHANGED <<setting, cancelled, main, request, tracer, block, spinner, line, history>>

GiveUp(r) ==
  /\ main = "joining" /\ cancelled /\ Lives(r, "waiting", "over")
  /\ UNCHANGED <<setting, cancelled, main, request, tracer, block, printed, spinner, line, history>>

(* The first place of a repository in the order goes. *)
Dropped(r, order) ==
  IF Contains(order, r)
  THEN RemoveAt(order, CHOOSE i \in 1..Len(order) : order[i] = r /\ \A j \in 1..(i - 1) : order[j] # r)
  ELSE order

(* Mutation: a repository that was cut off is not done. *)
FinishUncancelled(r) ==
  IF cancelled THEN Lives(r, "running", "failed") /\ UNCHANGED <<tracer, block, printed>>
  ELSE /\ tracer' = [tracer EXCEPT !.pending[r] = <<>>, !.order = Dropped(r, @)]
       /\ IF tracer.pending[r] # <<>>
          THEN /\ Lives(r, "running", "flushing")
               /\ block' = [of |-> r, left |-> tracer.pending[r], result |-> "fetched"]
               /\ Prints(Entry("heading", r, 0))
          ELSE Lives(r, "running", "fetched") /\ UNCHANGED <<block, printed>>

(* The error of the context is read before what is deferred runs. *)
Result == IF cancelled THEN "failed" ELSE "fetched"

(* repositoryDone takes the mutex, and what it holds of the repository. *)
Finish(r) ==
  /\ tracer' = [tracer EXCEPT !.pending[r] = <<>>, !.order = Dropped(r, @)]
  /\ IF tracer.pending[r] # <<>>
     THEN /\ Lives(r, "running", "flushing")
          /\ block' = [of |-> r, left |-> tracer.pending[r], result |-> Result]
          /\ Prints(Entry("heading", r, 0))
     ELSE Lives(r, "running", Result) /\ UNCHANGED <<block, printed>>

(* Deferred: it runs however the repository ends. *)
RepositoryDone(r) ==
  /\ life[r] = "running" /\ Quiet(r) /\ TracerFree
  /\ Finish(r)
  /\ UNCHANGED <<setting, cancelled, main, request, spinner, line, history>>

(* The next line of the block, or its end. *)
Flush(r) ==
  /\ block.of = r
  /\ IF block.left # <<>>
     THEN /\ Prints(Entry("request", r, Head(block.left)))
          /\ block' = [block EXCEPT !.left = Tail(@)]
          /\ UNCHANGED life
     ELSE /\ block' = NoBlock
          /\ Lives(r, "flushing", block.result)
          /\ UNCHANGED printed
  /\ UNCHANGED <<setting, cancelled, main, request, tracer, spinner, line, history>>

(* What was fetched counts, and the status line says so. *)
Update(r) ==
  /\ Lives(r, "fetched", "over")
  /\ line' = IF HasStatusLine THEN Redrawn(r, line.counted) ELSE line
  /\ UNCHANGED <<setting, cancelled, main, request, tracer, block, printed, spinner, history>>

Fail(r) ==
  /\ Lives(r, "failed", "over")
  /\ UNCHANGED <<setting, cancelled, main, request, tracer, block, printed, spinner, line, history>>

-----------------------------------------------------------------------------
(* runScan. *)

Proceeds(from, to) == main = from /\ main' = to

(* A replay asks nothing of the instance and shows nothing. *)
Replay ==
  /\ Proceeds("open", "clearing")
  /\ UNCHANGED <<setting, cancelled, life, request, tracer, block, printed, spinner, line, history>>

(* progress.start, before the client exists. *)
Open ==
  /\ Proceeds("open", "fetching")
  /\ IF HasStatusLine
     THEN spinner' = [spinner EXCEPT !.at = "select"] /\ line' = Redrawn(Instance, FALSE)
     ELSE UNCHANGED <<spinner, line>>
  /\ UNCHANGED <<setting, cancelled, life, request, tracer, block, printed, history>>

(* The client cannot be made, or Fetch fails before any repository. *)
FetchFails ==
  /\ Proceeds("fetching", "clearing") /\ Quiet(Instance)
  /\ UNCHANGED <<setting, cancelled, life, request, tracer, block, printed, spinner, line, history>>

FetchRepositories ==
  /\ Proceeds("fetching", "joining") /\ Quiet(Instance) /\ ~cancelled
  /\ UNCHANGED <<setting, cancelled, life, request, tracer, block, printed, spinner, line, history>>

Joined ==
  /\ Proceeds("joining", "clearing") /\ Quiet(Instance)
  /\ \A r \in Repository : life[r] = "over"
  /\ UNCHANGED <<setting, cancelled, life, request, tracer, block, printed, spinner, line, history>>

(* clear takes the channels and closes the one ... *)
ClearStops ==
  /\ Proceeds("clearing", "stopping")
  /\ spinner' = [spinner EXCEPT !.stopped = spinner.at # "none"]
  /\ UNCHANGED <<setting, cancelled, life, request, tracer, block, printed, line, history>>

(* Mutation: the goroutine is told to stop and not waited for. *)
ClearJoinsNot ==
  /\ Proceeds("stopping", "erasing")
  /\ UNCHANGED <<setting, cancelled, life, request, tracer, block, printed, spinner, line, history>>

(* ... waits for the other ... *)
ClearJoins ==
  /\ Proceeds("stopping", "erasing") /\ spinner.at \in {"none", "stopped"}
  /\ UNCHANGED <<setting, cancelled, life, request, tracer, block, printed, spinner, line, history>>

(* ... and erases as much as was drawn. *)
ClearErases ==
  /\ Proceeds("erasing", "closing")
  /\ line' = [line EXCEPT !.held = IF @ > line.last THEN @ ELSE 0, !.last = 0]
  /\ UNCHANGED <<setting, cancelled, life, request, tracer, block, printed, spinner, history>>

(* summary, and then the error or the report. *)
Summarise ==
  /\ Proceeds("closing", "report") /\ TracerFree
  /\ IF tracer.total > 0 THEN Prints(Entry("summary", Instance, tracer.total)) ELSE UNCHANGED printed
  /\ UNCHANGED <<setting, cancelled, life, request, tracer, block, spinner, line, history>>

Reported == main = "report" /\ UNCHANGED vars

RunScan ==
  \/ Replay \/ Open \/ FetchFails \/ FetchRepositories \/ Joined
  \/ ClearStops \/ ClearJoins \/ ClearErases \/ Summarise
Requests(s) == Send(s) \/ Answered(s) \/ Abandoned(s) \/ Ticked(s)
FetchRepository(r) == Start(r) \/ GiveUp(r) \/ RepositoryDone(r) \/ Flush(r) \/ Update(r) \/ Fail(r)

Next ==
  \/ Cancel
  \/ TickerFires \/ TickerDraws \/ TickerStops
  \/ \E s \in Scope : Requests(s)
  \/ \E r \in Repository : FetchRepository(r)
  \/ RunScan
  \/ Reported

(* A goroutine that can go on does.  A select whose two channels are ready *)
(* takes either at random, so that the ticker cannot win for ever.         *)
Fairness ==
  /\ WF_vars(TickerDraws) /\ SF_vars(TickerStops)
  /\ \A s \in Scope : WF_vars(Requests(s))
  /\ \A r \in Repository : WF_vars(FetchRepository(r))
  /\ WF_vars(RunScan)

Spec == Init /\ [][Next]_vars
FairSpec == Spec /\ Fairness

-----------------------------------------------------------------------------
(* Properties. *)

(* A repository's requests are logged together, under its name and in the   *)
(* order they were made, and only once it is done: no request of another    *)
(* goroutine comes between them, and none is logged twice.                 *)
BlocksAreWhole ==
  LET log == printed.log IN
    /\ \A i \in DOMAIN log : log[i].scope # Instance =>
         /\ life[log[i].scope] \notin {"waiting", "running"}
         /\ log[i].kind = "request" =>
              /\ i > 1
              /\ log[i - 1] = Entry(IF log[i].n = 1 THEN "heading" ELSE "request",
                                    log[i].scope, log[i].n - 1)
    /\ \A i, j \in DOMAIN log : log[i] = log[j] => i = j

(* The events there were, as a log shows them, and those of a retry.        *)
Events == UNION {{Entry("request", s, n) : n \in DOMAIN history.heard[s]} : s \in Scope}
Retries == {e \in Events : history.heard[e.scope][e.n] > 0}

(* When the closing line is written every request that was sent has been    *)
(* counted, but for those a cancellation caught in flight; whatever was     *)
(* counted is in the log, if there is one; and nothing is left pending,     *)
(* however the scan ended.                                                 *)
EverythingIsAccounted ==
  main \in {"closing", "report"} =>
    /\ tracer.total = Cardinality(Events) /\ tracer.retries = Cardinality(Retries)
    /\ tracer.total + history.lost = history.sent
    /\ tracer.order = <<>> /\ \A r \in Repository : tracer.pending[r] = <<>>
    /\ Logged => Events \subseteq ToSet(printed.log)

(* The status line covers all it ever drew, and once it has been cleared    *)
(* nothing is drawn again.                                                 *)
ScreenIsClean ==
  /\ line.held = line.last
  /\ main \in {"closing", "report"} => line.held = 0

(* No line is written onto a status line. *)
LinesStandAlone == [][printed' # printed => line.held = 0]_vars

(* However it goes, the scan gets to its report: a wait for the goroutine   *)
(* that draws, for a mutex or for an answer comes to an end.               *)
ReportIsReached == <>(main = "report")
=============================================================================
