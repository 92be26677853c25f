--------------------------- MODULE TerminalProofs ---------------------------
(***************************************************************************)
(* Proofs about Terminal, for any number of repositories and requests: what *)
(* is logged of a scan, what is counted and what the screen holds.  The     *)
(* inductive invariant says of each line of the log what it stands for      *)
(* (LogIsLines), and of what is still to be logged where it is: with the    *)
(* tracer while a repository runs (TracerHolds), in a block being written   *)
(* after that (BlockIsRest).                                               *)
(***************************************************************************)
EXTENDS Terminal, FiniteSetTheorems, SequenceTheorems, TLAPS

(* The parts of the invariant.                                             *)
Line == [kind : {"heading", "request", "summary"}, scope : Scope, n : Nat]

Places ==
  {"open", "fetching", "joining", "clearing", "stopping", "erasing", "closing", "report"}
Lived == {"waiting", "running", "flushing", "fetched", "failed", "over"}
Requested == [Scope -> [at : {"idle", "flight", "recorded"}, attempt : Nat, made : Nat]]
Traced == [pending : [Repository -> Seq(Nat)], order : Seq(Repository), total : Nat, retries : Nat]
Blocks == [of : Scope, left : Seq(Nat), result : {"none", "fetched", "failed"}]
Lined == [log : Seq(Line), narrated : Nat]
Spinning == [at : {"none", "select", "draw", "stopped"}, stopped : BOOLEAN]
Drawn == [text : Scope, counted : BOOLEAN, last : Nat, held : Nat]
Recorded == [sent : Nat, lost : Nat, heard : [Scope -> Seq(Nat)]]

TypeOK ==
  /\ setting \in Setting /\ cancelled \in BOOLEAN
  /\ main \in Places /\ life \in [Repository -> Lived]
  /\ request \in Requested /\ tracer \in Traced /\ block \in Blocks /\ printed \in Lined
  /\ spinner \in Spinning /\ line \in Drawn /\ history \in Recorded

(* Who may be at what: a request is under way only for a goroutine that     *)
(* runs, no repository is begun before or after the main goroutine waits.   *)
InTurn ==
  /\ main \in {"open", "fetching"} => \A r \in Repository : life[r] = "waiting"
  /\ main \notin {"open", "fetching", "joining"} =>
       \A r \in Repository : life[r] \in {"waiting", "over"}
  /\ \A s \in Scope : request[s].at # "idle" => Requesting(s)
  /\ \A r \in Repository : life[r] = "waiting" => history.heard[r] = <<>>

(* How far the requests of a scope have come into the log.                  *)
Lines(s) ==
  IF ~Logged \/ (s # Instance /\ life[s] \in {"waiting", "running"}) THEN 0
  ELSE IF s = block.of THEN Len(history.heard[s]) - Len(block.left)
  ELSE Len(history.heard[s])

(* No repository is in the order twice.                                      *)
OrderIsSet == \A i, j \in DOMAIN tracer.order : tracer.order[i] = tracer.order[j] => i = j

(* The tracer holds the requests of those that run, in order, and the block *)
(* being written is the rest of a log of one of them.                      *)
TracerHolds ==
  /\ \A r \in Repository :
       tracer.pending[r] =
         IF Logged /\ life[r] = "running" THEN [n \in DOMAIN history.heard[r] |-> n] ELSE <<>>
  /\ \A r \in Repository :
       tracer.pending[r] # <<>> <=> \E i \in DOMAIN tracer.order : tracer.order[i] = r

BlockIsRest ==
  /\ \A r \in Repository : life[r] = "flushing" <=> block.of = r
  /\ block.of = Instance => block.left = <<>>
  /\ block.of # Instance =>
       /\ Logged /\ block.result # "none"
       /\ Len(block.left) <= Len(history.heard[block.of]) /\ history.heard[block.of] # <<>>
       /\ \A k \in DOMAIN block.left : block.left[k] = Lines(block.of) + k
       /\ printed.log # <<>>
       /\ printed.log[Len(printed.log)] =
            Entry(IF Lines(block.of) = 0 THEN "heading" ELSE "request", block.of, Lines(block.of))

(* What a line of the log stands for.                                       *)
Told(e) ==
  /\ e.kind = "heading" => e.scope # Instance /\ e.n = 0 /\ life[e.scope] \notin {"waiting", "running"}
  /\ e.kind = "summary" => e.scope = Instance /\ main = "report"
  /\ e.kind = "request" => e.n \in 1..Lines(e.scope)

LogIsLines ==
  /\ \A i \in DOMAIN printed.log : Told(printed.log[i])
  /\ \A s \in Scope : \A n \in 1..Lines(s) :
       \E i \in DOMAIN printed.log : printed.log[i] = Entry("request", s, n)

Flying == {s \in Scope : request[s].at = "flight"}

Accounted ==
  /\ IsFiniteSet(Events) /\ tracer.total = Cardinality(Events)
  /\ IsFiniteSet(Retries) /\ tracer.retries = Cardinality(Retries)
  /\ IsFiniteSet(Flying) /\ history.sent = tracer.total + history.lost + Cardinality(Flying)

Screen ==
  /\ line.held = line.last
  /\ ~HasStatusLine => line.last = 0 /\ spinner.at = "none"
  /\ main \in {"erasing", "closing", "report"} => spinner.at \in {"none", "stopped"}
  /\ main \in {"closing", "report"} => line.held = 0

IInv ==
  TypeOK /\ InTurn /\ OrderIsSet /\ TracerHolds /\ BlockIsRest /\ LogIsLines /\ BlocksAreWhole /\ Accounted /\ Screen

(* What takes a repository out of the order leaves the others in it. *)
LEMMA OneOut ==
  ASSUME NEW S, NEW order \in Seq(S), NEW r \in S,
         \A i, j \in DOMAIN order : order[i] = order[j] => i = j
  PROVE  /\ Dropped(r, order) \in Seq(S)
         /\ \A s \in S : (\E i \in DOMAIN Dropped(r, order) : Dropped(r, order)[i] = s) <=>
                           s # r /\ \E i \in DOMAIN order : order[i] = s
         /\ \A i, j \in DOMAIN Dropped(r, order) :
              Dropped(r, order)[i] = Dropped(r, order)[j] => i = j
<1>0. Len(order) \in Nat /\ DOMAIN order = 1..Len(order)
  OBVIOUS
<1>1. CASE ~Contains(order, r)
  BY <1>0, <1>1 DEF Dropped, Contains
<1>2. CASE Contains(order, r)
  <2>1. PICK i \in 1..Len(order) : order[i] = r
    BY <1>2 DEF Contains
  <2>2. i = CHOOSE k \in 1..Len(order) : order[k] = r /\ \A j \in 1..(k - 1) : order[j] # r
    <3>1. \A k \in 1..Len(order) : order[k] = r <=> k = i
      BY <1>0, <2>1
    <3>2. \A j \in 1..(i - 1) : order[j] # r
      BY <1>0, <3>1
    <3> QED
      BY <2>1, <3>1, <3>2
  <2> DEFINE left == SubSeq(order, 1, i - 1)
             right == SubSeq(order, i + 1, Len(order))
             N == Len(order)
             both == left \o right
  <2>3. Dropped(r, order) = both
    BY <1>2, <2>2 DEF Dropped, RemoveAt
  <2>4. i \in Nat /\ N \in Nat /\ 1 <= i /\ i <= N
    BY <1>0
  <2>5. left \in Seq(S) /\ Len(left) = i - 1 /\ \A k \in 1..(i - 1) : left[k] = order[k]
    <3>1. 1 \in Int /\ i - 1 \in Int /\ (i - 1) - 1 + 1 = i - 1
      BY <2>4
    <3>2. \A k \in 1..(i - 1) : order[k] \in S /\ 1 + k - 1 = k
      BY <1>0, <2>4
    <3>3. /\ left \in Seq(S)
          /\ Len(left) = IF 1 <= i - 1 THEN (i - 1) - 1 + 1 ELSE 0
          /\ \A k \in 1..((i - 1) - 1 + 1) : left[k] = order[1 + k - 1]
      BY <3>1, <3>2, SubSeqProperties
    <3> HIDE DEF left
    <3> QED
      BY <2>4, <3>1, <3>2, <3>3
  <2>6. right \in Seq(S) /\ Len(right) = N - i /\ \A k \in 1..(N - i) : right[k] = order[i + k]
    <3>1. i + 1 \in Int /\ N \in Int /\ N - (i + 1) + 1 = N - i
      BY <2>4
    <3>2. /\ \A k \in (i + 1)..N : order[k] \in S
          /\ \A k \in 1..(N - i) : (i + 1) + k - 1 = i + k
      BY <1>0, <2>4
    <3>3. /\ right \in Seq(S)
          /\ Len(right) = IF i + 1 <= N THEN N - (i + 1) + 1 ELSE 0
          /\ \A k \in 1..(N - (i + 1) + 1) : right[k] = order[(i + 1) + k - 1]
      BY <3>1, <3>2, SubSeqProperties
    <3> HIDE DEF right
    <3>4. Len(right) = N - i
      <4>1. Len(right) = IF i + 1 <= N THEN N - (i + 1) + 1 ELSE 0
        BY <3>3
      <4>2. CASE i + 1 <= N
        BY <3>1, <4>1, <4>2
      <4>3. CASE ~(i + 1 <= N)
        <5>1. i = N
          BY <2>4, <4>3
        <5> QED
          BY <2>4, <4>1, <4>3, <5>1
      <4> QED
        BY <4>2, <4>3
    <3>5. \A k \in 1..(N - i) : right[k] = order[i + k]
      <4>1. \A k \in 1..(N - i) : right[k] = order[(i + 1) + k - 1]
        BY <3>1, <3>3
      <4> QED
        BY <3>2, <4>1
    <3> QED
      BY <3>3, <3>4, <3>5
  <2> HIDE DEF left, right
  <2>7. /\ both \in Seq(S) /\ Len(both) = N - 1
        /\ \A k \in 1..(N - 1) : both[k] = IF k <= i - 1 THEN left[k] ELSE right[k - (i - 1)]
    <3>1. Len(left) + Len(right) = N - 1
      BY <2>4, <2>5, <2>6
    <3>2. /\ both \in Seq(S) /\ Len(both) = Len(left) + Len(right)
          /\ \A k \in 1..(Len(left) + Len(right)) :
               both[k] = IF k <= Len(left) THEN left[k] ELSE right[k - Len(left)]
      BY <2>5, <2>6, ConcatProperties
    <3> HIDE DEF both
    <3> QED
      BY <2>5, <3>1, <3>2
  <2> HIDE DEF both
  <2>8. \A k \in 1..(N - 1) : both[k] = order[IF k < i THEN k ELSE k + 1]
    <3> SUFFICES ASSUME NEW k \in 1..(N - 1) PROVE both[k] = order[IF k < i THEN k ELSE k + 1]
      OBVIOUS
    <3>1. CASE k < i
      BY <2>4, <2>5, <2>7, <3>1
    <3>2. CASE ~(k < i)
      <4>1. k - (i - 1) \in 1..(N - i) /\ i + (k - (i - 1)) = k + 1 /\ ~(k <= i - 1)
        BY <2>4, <3>2
      <4> QED
        BY <2>6, <2>7, <3>2, <4>1
    <3> QED
      BY <3>1, <3>2
  <2>9. DOMAIN both = 1..(N - 1)
    BY <2>7
  <2>10. \A k, l \in 1..(N - 1) : both[k] = both[l] => k = l
    BY <1>0, <2>4, <2>8
  <2>11. \A k \in 1..(N - 1) : both[k] # r
    BY <1>0, <2>1, <2>4, <2>8
  <2>12. ASSUME NEW s \in S, s # r, NEW j \in DOMAIN order, order[j] = s
         PROVE  \E k \in 1..(N - 1) : both[k] = s
    <3>1. j \in 1..N /\ j # i
      BY <1>0, <2>1, <2>12
    <3>2. CASE j < i
      BY <2>4, <2>8, <2>12, <3>1, <3>2
    <3>3. CASE j > i
      <4>1. j - 1 \in 1..(N - 1) /\ ~(j - 1 < i) /\ (j - 1) + 1 = j
        BY <2>4, <3>1, <3>3
      <4> QED
        BY <2>8, <2>12, <4>1
    <3> QED
      BY <2>4, <3>1, <3>2, <3>3
  <2>13. ASSUME NEW s \in S, NEW k \in 1..(N - 1), both[k] = s
         PROVE  \E j \in DOMAIN order : order[j] = s
    BY <1>0, <2>4, <2>8, <2>13
  <2> HIDE DEF N
  <2> QED
    BY <2>3, <2>7, <2>9, <2>10, <2>11, <2>12, <2>13
<1> QED
  BY <1>1, <1>2

-----------------------------------------------------------------------------
(* A step is one of these; those of the main goroutine by what they touch.  *)
LEMMA Steps ==
  ASSUME [Next]_vars
  PROVE  \/ Cancel \/ TickerFires \/ TickerDraws \/ TickerStops
         \/ \E s \in Scope : Send(s) \/ Answered(s) \/ Abandoned(s) \/ Ticked(s)
         \/ \E r \in Repository :
              Start(r) \/ GiveUp(r) \/ RepositoryDone(r) \/ Flush(r) \/ Update(r) \/ Fail(r)
         \/ Replay \/ Open \/ FetchFails \/ FetchRepositories \/ Joined
         \/ ClearStops \/ ClearJoins \/ ClearErases \/ Summarise
         \/ UNCHANGED vars
BY DEF Next, RunScan, Requests, FetchRepository, Reported

(* Appending to a sequence, position by position. *)
LEMMA AppendFacts ==
  ASSUME NEW S, NEW seq \in Seq(S), NEW e \in S
  PROVE  /\ Append(seq, e) \in Seq(S)
         /\ Len(Append(seq, e)) = Len(seq) + 1
         /\ DOMAIN Append(seq, e) = 1..(Len(seq) + 1)
         /\ DOMAIN seq = 1..Len(seq)
         /\ Append(seq, e)[Len(seq) + 1] = e
         /\ \A i \in DOMAIN seq : Append(seq, e)[i] = seq[i]
OBVIOUS

(* What is printed is a line. *)
LEMMA EntryIsLine ==
  ASSUME NEW kind \in {"heading", "request", "summary"}, NEW s \in Scope, NEW n \in Nat
  PROVE  Entry(kind, s, n) \in Line
BY DEF Entry, Line

(* A redraw covers what the status line covered, padding and all. *)
LEMMA RedrawnType ==
  ASSUME TypeOK, NEW s \in Scope, NEW counted \in BOOLEAN
  PROVE  /\ Redrawn(s, counted) \in Drawn
         /\ line.held = line.last => Redrawn(s, counted).held = Redrawn(s, counted).last
<1>1. Wide[s] \in Nat /\ line.last \in Nat /\ line.held \in Nat
  BY TerminalAssumption DEF TypeOK, Drawn
<1> DEFINE width == Wide[s] + IF counted THEN 1 ELSE 0
<1>2. width \in Nat
  BY <1>1
<1>3. Redrawn(s, counted) =
        [text |-> s, counted |-> counted, last |-> width,
         held |-> IF line.held > Padded(width) THEN line.held ELSE width]
  BY DEF Redrawn
<1> HIDE DEF width
<1>4. line.held = line.last => ~(line.held > Padded(width))
  BY <1>1, <1>2 DEF Padded
<1> QED
  BY <1>1, <1>2, <1>3, <1>4 DEF Drawn

(* Types, to begin with ... *)
LEMMA TypeHolds == Init => TypeOK
<1> SUFFICES ASSUME Init PROVE TypeOK
  OBVIOUS
<1> USE DEF Init
<1>0. Instance \in Scope
  BY DEF Scope
<1>1. setting \in Setting
  BY TerminalAssumption
<1>2. request \in Requested
  BY DEF Requested
<1>3. tracer \in Traced
  BY DEF Traced
<1>4. block \in Blocks
  BY <1>0 DEF Blocks, NoBlock
<1>5. printed \in Lined /\ spinner \in Spinning
  BY DEF Lined, Spinning
<1>6. line \in Drawn
  BY <1>0 DEF Drawn
<1>7. history \in Recorded
  BY DEF Recorded
<1>8. life \in [Repository -> Lived]
  BY DEF Lived
<1> QED
  BY <1>1, <1>2, <1>3, <1>4, <1>5, <1>6, <1>7, <1>8 DEF TypeOK, Places

(* ... and after every step. *)
LEMMA TypeKept ==
  ASSUME TypeOK, OrderIsSet, BlockIsRest, [Next]_vars
  PROVE  TypeOK'
<1>0. Instance \in Scope /\ \A r \in Repository : r \in Scope
  BY DEF Scope
<1>a. /\ setting \in Setting /\ cancelled \in BOOLEAN /\ main \in Places /\ life \in [Repository -> Lived]
      /\ request \in Requested /\ tracer \in Traced /\ block \in Blocks /\ printed \in Lined
      /\ spinner \in Spinning /\ line \in Drawn /\ history \in Recorded
  BY DEF TypeOK
<1>b. ASSUME NEW e \in Line, printed' = [printed EXCEPT !.log = Append(@, e)] PROVE printed' \in Lined
  BY <1>a, <1>b DEF Lined
<1>c. ASSUME Narrates PROVE printed' \in Lined
  BY <1>a, <1>c DEF Lined, Narrates
<1>d. ASSUME NEW r \in Repository, NEW from, NEW to \in Lived, Lives(r, from, to)
      PROVE  life' \in [Repository -> Lived]
  BY <1>a, <1>d DEF Lives
<1>e. ASSUME NEW s \in Scope, NEW a \in {"idle", "flight", "recorded"}, NEW n \in Nat, NEW m \in Nat,
             \/ request' = [request EXCEPT ![s] = [at |-> a, attempt |-> n, made |-> m]]
             \/ request' = [request EXCEPT ![s].at = a]
             \/ request' = [request EXCEPT ![s].at = a, ![s].attempt = n]
      PROVE  request' \in Requested
  BY <1>a, <1>e DEF Requested
<1>f. ASSUME NEW s \in Scope
      PROVE  /\ request[s].attempt \in Nat /\ request[s].made \in Nat
             /\ history.heard[s] \in Seq(Nat) /\ history.sent \in Nat /\ history.lost \in Nat
  BY <1>a DEF Requested, Recorded
<1>h. ASSUME NEW sent \in Nat, NEW lost \in Nat, NEW heard \in [Scope -> Seq(Nat)],
             history' = [sent |-> sent, lost |-> lost, heard |-> heard]
      PROVE  history' \in Recorded
  BY <1>h DEF Recorded
<1>i. /\ history = [sent |-> history.sent, lost |-> history.lost, heard |-> history.heard]
      /\ history.heard \in [Scope -> Seq(Nat)]
  BY <1>a DEF Recorded
<1>g. ASSUME NEW f, f \in {"none", "select", "draw", "stopped"}, NEW b \in BOOLEAN,
             \/ spinner' = [spinner EXCEPT !.at = f]
             \/ spinner' = [spinner EXCEPT !.stopped = b]
      PROVE  spinner' \in Spinning
  BY <1>a, <1>g DEF Spinning
<1>1. CASE Cancel
  BY <1>1, <1>a DEF Cancel, TypeOK
<1>2. CASE TickerFires
  <2>1. spinner' \in Spinning
    BY <1>2, <1>g DEF TickerFires
  <2> QED
    BY <1>2, <1>a, <2>1 DEF TickerFires, TypeOK
<1>3. CASE TickerDraws
  <2>1. spinner' \in Spinning
    BY <1>3, <1>g DEF TickerDraws
  <2>2. line.text \in Scope /\ line.counted \in BOOLEAN
    BY <1>a DEF Drawn
  <2>3. line' \in Drawn
    BY <1>3, <2>2, RedrawnType DEF TickerDraws
  <2> QED
    BY <1>3, <1>a, <2>1, <2>3 DEF TickerDraws, TypeOK
<1>4. CASE TickerStops
  <2>1. spinner' \in Spinning
    BY <1>4, <1>g DEF TickerStops
  <2> QED
    BY <1>4, <1>a, <2>1 DEF TickerStops, TypeOK
<1>5. ASSUME NEW s \in Scope, Send(s) PROVE TypeOK'
  <2>1. request' \in Requested
    BY <1>5, <1>e, <1>f DEF Send
  <2>2. history' \in Recorded
    <3>1. history' = [sent |-> history.sent + 1, lost |-> history.lost, heard |-> history.heard]
      BY <1>5, <1>i DEF Send
    <3> QED
      BY <1>f, <1>h, <1>i, <3>1
  <2>3. printed' \in Lined
    BY <1>5, <1>a, <1>c DEF Send
  <2> QED
    BY <1>5, <1>a, <2>1, <2>2, <2>3 DEF Send, TypeOK
<1>6. ASSUME NEW s \in Scope, Answered(s) PROVE TypeOK'
  <2>1. request' \in Requested
    BY <1>6, <1>e, <1>f DEF Answered
  <2>2. history' \in Recorded
    <3>1. Append(history.heard[s], request[s].attempt) \in Seq(Nat)
      BY <1>f
    <3> DEFINE heard == [history.heard EXCEPT ![s] = Append(@, request[s].attempt)]
    <3>2. history' = [sent |-> history.sent, lost |-> history.lost, heard |-> heard]
      BY <1>6, <1>i DEF Answered
    <3>3. heard \in [Scope -> Seq(Nat)]
      BY <1>i, <3>1
    <3> HIDE DEF heard
    <3> QED
      BY <1>f, <1>h, <3>2, <3>3
  <2> DEFINE n == Len(history.heard[s]) + 1
             held == Logged /\ s # Instance
             pending == IF held THEN Held(s, n, tracer.pending) ELSE tracer.pending
             order == IF held /\ tracer.pending[s] = <<>> THEN Append(tracer.order, s) ELSE tracer.order
  <2>3. n \in Nat
    BY <1>f
  <2>4. /\ tracer'.total = tracer.total + 1
        /\ tracer'.retries = tracer.retries + IF request[s].attempt > 0 THEN 1 ELSE 0
        /\ tracer'.pending = pending /\ tracer'.order = order
        /\ tracer' = [pending |-> tracer'.pending, order |-> tracer'.order,
                      total |-> tracer'.total, retries |-> tracer'.retries]
    BY <1>6, <1>a DEF Answered, Traced
  <2>5. tracer' \in Traced
    <3>1. s # Instance => s \in Repository
      BY DEF Scope
    <3>2. /\ tracer.total \in Nat /\ tracer.retries \in Nat /\ tracer.order \in Seq(Repository)
          /\ tracer.pending \in [Repository -> Seq(Nat)]
      BY <1>a DEF Traced
    <3> HIDE DEF n
    <3>3. pending \in [Repository -> Seq(Nat)]
      BY <2>3, <3>1, <3>2 DEF Held
    <3>4. order \in Seq(Repository)
      BY <3>1, <3>2
    <3> HIDE DEF pending, order
    <3> QED
      BY <2>4, <3>2, <3>3, <3>4 DEF Traced
  <2>6. printed' \in Lined
    <3>1. Entry("request", s, n) \in Line
      BY <2>3, EntryIsLine
    <3>2. \/ printed' = printed
          \/ printed' = [printed EXCEPT !.log = Append(@, Entry("request", s, n))]
      BY <1>6 DEF Answered, Prints
    <3> HIDE DEF n
    <3> QED
      BY <1>a, <1>b, <3>1, <3>2
  <2> QED
    BY <1>6, <1>a, <2>1, <2>2, <2>5, <2>6 DEF Answered, TypeOK
<1>7. ASSUME NEW s \in Scope, Abandoned(s) PROVE TypeOK'
  <2>1. request' \in Requested
    <3>1. request' = [request EXCEPT ![s] = [at |-> "idle", attempt |-> 0, made |-> request[s].made + 1]]
      BY <1>7 DEF Abandoned
    <3>2. request[s].made + 1 \in Nat
      BY <1>f
    <3> QED
      BY <1>e, <3>1, <3>2
  <2>2. history' \in Recorded
    <3>1. history' = [sent |-> history.sent, lost |-> history.lost + 1, heard |-> history.heard]
      BY <1>7, <1>i DEF Abandoned
    <3> QED
      BY <1>f, <1>h, <1>i, <3>1
  <2> QED
    BY <1>7, <1>a, <2>1, <2>2 DEF Abandoned, TypeOK
<1>8. ASSUME NEW s \in Scope, Ticked(s) PROVE TypeOK'
  <2>1. request' \in Requested
    <3>1. CASE request' = [request EXCEPT ![s] = [at |-> "idle", attempt |-> 0, made |-> @.made + 1]]
      <4>1. request' = [request EXCEPT ![s] = [at |-> "idle", attempt |-> 0, made |-> request[s].made + 1]]
        BY <3>1
      <4>2. request[s].made + 1 \in Nat
        BY <1>f
      <4> QED
        BY <1>e, <4>1, <4>2
    <3>2. CASE request' = [request EXCEPT ![s].at = "idle", ![s].attempt = @ + 1]
      <4>1. request' = [request EXCEPT ![s] = [at |-> "idle", attempt |-> request[s].attempt + 1,
                                               made |-> request[s].made]]
        BY <1>a, <3>2 DEF Requested
      <4>2. request[s].attempt + 1 \in Nat
        BY <1>f
      <4> QED
        BY <1>e, <1>f, <4>1, <4>2
    <3> QED
      BY <1>8, <3>1, <3>2 DEF Ticked
  <2>2. line' \in Drawn
    BY <1>8, <1>a DEF Ticked, Drawn, HasStatusLine
  <2> QED
    BY <1>8, <1>a, <2>1, <2>2 DEF Ticked, TypeOK
<1>9. ASSUME NEW r \in Repository, Start(r) PROVE TypeOK'
  <2>1. life' \in [Repository -> Lived] /\ printed' \in Lined
    BY <1>9, <1>c, <1>d DEF Start, Lived
  <2> QED
    BY <1>9, <1>a, <2>1 DEF Start, TypeOK
<1>10. ASSUME NEW r \in Repository, GiveUp(r) PROVE TypeOK'
  <2>1. life' \in [Repository -> Lived]
    BY <1>10, <1>d DEF GiveUp, Lived
  <2> QED
    BY <1>10, <1>a, <2>1 DEF GiveUp, TypeOK
<1>11. ASSUME NEW r \in Repository, Fail(r) PROVE TypeOK'
  <2>1. life' \in [Repository -> Lived]
    BY <1>11, <1>d DEF Fail, Lived
  <2> QED
    BY <1>11, <1>a, <2>1 DEF Fail, TypeOK
<1>12. ASSUME NEW r \in Repository, Update(r) PROVE TypeOK'
  <2>1. life' \in [Repository -> Lived]
    BY <1>12, <1>d DEF Update, Lived
  <2>2. line.counted \in BOOLEAN
    BY <1>a DEF Drawn
  <2>3. line' \in Drawn
    BY <1>0, <1>12, <1>a, <2>2, RedrawnType DEF Update
  <2> QED
    BY <1>12, <1>a, <2>1, <2>3 DEF Update, TypeOK
<1>13. ASSUME NEW r \in Repository, RepositoryDone(r) PROVE TypeOK'
  <2>1. Entry("heading", r, 0) \in Line
    BY <1>0, EntryIsLine
  <2>2. Result \in {"fetched", "failed"}
    BY DEF Result
  <2>3. /\ tracer.order \in Seq(Repository) /\ tracer.pending \in [Repository -> Seq(Nat)]
        /\ tracer.total \in Nat /\ tracer.retries \in Nat
    BY <1>a DEF Traced
  <2>4. Dropped(r, tracer.order) \in Seq(Repository)
    BY <2>3, OneOut DEF OrderIsSet
  <2>5. tracer' = [tracer EXCEPT !.pending = [@ EXCEPT ![r] = <<>>], !.order = Dropped(r, @)]
    BY <1>13 DEF RepositoryDone, Finish
  <2>6. tracer' \in Traced
    <3> DEFINE pending == [tracer.pending EXCEPT ![r] = <<>>]
    <3>1. tracer' = [pending |-> pending, order |-> Dropped(r, tracer.order),
                     total |-> tracer.total, retries |-> tracer.retries]
      BY <1>a, <2>5 DEF Traced
    <3>2. pending \in [Repository -> Seq(Nat)]
      BY <2>3
    <3> HIDE DEF pending
    <3> QED
      BY <2>3, <2>4, <3>1, <3>2 DEF Traced
  <2>7. \/ block' = [of |-> r, left |-> tracer.pending[r], result |-> Result]
        \/ block' = block
    BY <1>13 DEF RepositoryDone, Finish
  <2>8. block' \in Blocks
    BY <1>0, <1>a, <2>2, <2>3, <2>7 DEF Blocks
  <2>9. life' \in [Repository -> Lived]
    BY <1>13, <1>d, <2>2 DEF RepositoryDone, Finish, Lived
  <2>10. printed' \in Lined
    BY <1>13, <1>a, <1>b, <2>1 DEF RepositoryDone, Finish, Prints
  <2> QED
    BY <1>13, <1>a, <2>6, <2>8, <2>9, <2>10 DEF RepositoryDone, TypeOK
<1>14. ASSUME NEW r \in Repository, Flush(r) PROVE TypeOK'
  <2>1. block.left \in Seq(Nat) /\ block.result \in {"none", "fetched", "failed"}
    BY <1>a DEF Blocks
  <2>4. block.result # "none"
    BY <1>14, TerminalAssumption DEF BlockIsRest, Flush
  <2>2. CASE block.left # <<>>
    <3>1. Head(block.left) \in Nat /\ Tail(block.left) \in Seq(Nat)
      BY <2>1, <2>2, HeadTailProperties
    <3>2. Entry("request", r, Head(block.left)) \in Line
      BY <1>0, <3>1, EntryIsLine
    <3>3. printed' \in Lined
      BY <1>14, <1>b, <2>2, <3>2 DEF Flush, Prints
    <3>4. block' = [block EXCEPT !.left = Tail(@)]
      BY <1>14, <2>2 DEF Flush
    <3>5. block' \in Blocks
      BY <1>a, <3>1, <3>4 DEF Blocks
    <3> QED
      BY <1>14, <1>a, <2>2, <3>3, <3>5 DEF Flush, TypeOK
  <2>3. CASE block.left = <<>>
    <3>1. block' \in Blocks
      <4>1. block' = [of |-> Instance, left |-> <<>>, result |-> "none"]
        BY <1>14, <2>3 DEF Flush, NoBlock
      <4>2. <<>> \in Seq(Nat)
        OBVIOUS
      <4> QED
        BY <1>0, <4>1, <4>2 DEF Blocks
    <3>2. life' \in [Repository -> Lived]
      <4>1. Lives(r, "flushing", block.result) /\ block.result \in Lived
        BY <1>14, <2>1, <2>3, <2>4 DEF Flush, Lived
      <4> QED
        BY <1>d, <4>1
    <3> QED
      BY <1>14, <1>a, <2>3, <3>1, <3>2 DEF Flush, TypeOK
  <2> QED
    BY <2>2, <2>3
<1>15. CASE Open
  <2>1. spinner' \in Spinning
    BY <1>15, <1>a, <1>g DEF Open
  <2>2. line' \in Drawn
    BY <1>0, <1>15, <1>a, RedrawnType DEF Open
  <2> QED
    BY <1>15, <1>a, <2>1, <2>2 DEF Open, Proceeds, TypeOK, Places
<1>16. CASE Replay \/ FetchFails \/ FetchRepositories \/ Joined \/ ClearJoins
   BY <1>16, <1>a DEF Replay, FetchFails, FetchRepositories, Joined, ClearJoins, Proceeds, TypeOK,
     Places
<1>17. CASE ClearStops
  <2>1. spinner' \in Spinning
    BY <1>17, <1>g DEF ClearStops
  <2> QED
    BY <1>17, <1>a, <2>1 DEF ClearStops, Proceeds, TypeOK, Places
<1>18. CASE ClearErases
  <2>1. line' \in Drawn
    BY <1>18, <1>a DEF ClearErases, Drawn
  <2> QED
    BY <1>18, <1>a, <2>1 DEF ClearErases, Proceeds, TypeOK, Places
<1>19. CASE Summarise
  <2>1. tracer.total \in Nat
    BY <1>a DEF Traced
  <2>2. Entry("summary", Instance, tracer.total) \in Line
    BY <1>0, <2>1, EntryIsLine
  <2>3. printed' \in Lined
    BY <1>19, <1>a, <1>b, <2>2 DEF Summarise, Prints
  <2> QED
    BY <1>19, <1>a, <2>3 DEF Summarise, Proceeds, TypeOK, Places
<1>20. CASE UNCHANGED vars
  BY <1>20, <1>a DEF vars, TypeOK
<1> QED
  BY <1>1, <1>2, <1>3, <1>4, <1>5, <1>6, <1>7, <1>8, <1>9, <1>10, <1>11, <1>12, <1>13, <1>14,
     <1>15, <1>16, <1>17, <1>18, <1>19, <1>20, Steps

-----------------------------------------------------------------------------
(* A repository is being fetched only while the main goroutine waits.       *)
LEMMA WaitedFor ==
  ASSUME TypeOK, InTurn, NEW r \in Repository, life[r] \notin {"waiting", "over"}
  PROVE  main = "joining"
BY DEF TypeOK, InTurn, Places

(* Requests and repositories stay in turn: each goroutine waits for its    *)
(* requests, and runScan for each goroutine.                               *)
LEMMA InTurnKept ==
  ASSUME TypeOK, InTurn, BlockIsRest, [Next]_vars
  PROVE  InTurn'
<1>a. ASSUME UNCHANGED <<main, life, request, history>> PROVE InTurn'
  BY <1>a DEF InTurn, Requesting
<1>b. ASSUME NEW s \in Scope, UNCHANGED <<main, life>>,
             request[s].at # "idle" \/ request'[s].at = "idle" \/ Requesting(s),
             \A q \in Scope : q # s => request'[q] = request[q],
             \A r \in Repository : history'.heard[r] = history.heard[r] \/ life[r] # "waiting"
      PROVE  InTurn'
  <2>1. \A q \in Scope : Requesting(q)' <=> Requesting(q)
    BY <1>b DEF Requesting
  <2>2. \A q \in Scope : request'[q].at # "idle" => Requesting(q)
    BY <1>b DEF InTurn
  <2> QED
    BY <1>b, <2>1, <2>2 DEF InTurn
<1>c. ASSUME NEW r \in Repository, NEW to, main = "joining", life[r] # "waiting" \/ to # "waiting",
             to \in {"waiting", "running"} => life[r] = to \/ request[r].at = "idle",
             life' = [life EXCEPT ![r] = to], to # "waiting",
             to # "running" => request[r].at = "idle", UNCHANGED <<main, request, history>>
      PROVE  InTurn'
  <2>1. \A q \in Repository : q # r => life'[q] = life[q]
    BY <1>c
  <2>2. life'[r] = to
    BY <1>c DEF TypeOK
  <2>3. \A q \in Scope : request[q].at # "idle" => Requesting(q)'
    <3> SUFFICES ASSUME NEW q \in Scope, request[q].at # "idle" PROVE Requesting(q)'
      OBVIOUS
    <3>1. Requesting(q)
      BY DEF InTurn
    <3>2. CASE q = Instance
      BY <1>c, <3>2 DEF Requesting
    <3>3. CASE q # Instance /\ q # r
      <4>1. q \in Repository
        BY <3>3 DEF Scope
      <4> QED
        BY <2>1, <3>1, <3>3, <4>1 DEF Requesting
    <3>4. CASE q # Instance /\ q = r
      BY <1>c, <2>2, <3>4 DEF Requesting
    <3> QED
      BY <3>2, <3>3, <3>4
  <2> QED
    BY <1>c, <2>1, <2>2, <2>3 DEF InTurn
<1>d. ASSUME NEW r \in Repository, request[r].at # "idle" PROVE life[r] = "running" /\ r \in Scope
  BY <1>d, TerminalAssumption DEF InTurn, Requesting, Scope
<1>e. \A r \in Repository : r \in Scope /\ r # Instance
  BY TerminalAssumption DEF Scope
<1>1. CASE Cancel \/ TickerFires \/ TickerDraws \/ TickerStops
  BY <1>1, <1>a DEF Cancel, TickerFires, TickerDraws, TickerStops
<1>2. ASSUME NEW s \in Scope, Send(s) PROVE InTurn'
  <2>1. \A q \in Scope : q # s => request'[q] = request[q]
    BY <1>2 DEF Send, TypeOK, Requested
  <2>2. history'.heard = history.heard
    BY <1>2 DEF Send, TypeOK, Recorded
  <2> QED
    BY <1>2, <1>b, <2>1, <2>2 DEF Send
<1>3. ASSUME NEW s \in Scope, Answered(s) PROVE InTurn'
  <2>1. \A q \in Scope : q # s => request'[q] = request[q]
    BY <1>3 DEF Answered, TypeOK, Requested
  <2>2. \A q \in Scope : q # s => history'.heard[q] = history.heard[q]
    BY <1>3 DEF Answered, TypeOK, Recorded
  <2>3. request[s].at # "idle"
    BY <1>3 DEF Answered
  <2>4. \A r \in Repository : history'.heard[r] = history.heard[r] \/ life[r] # "waiting"
    BY <1>d, <1>e, <2>2, <2>3
  <2> QED
    BY <1>3, <1>b, <2>1, <2>3, <2>4 DEF Answered
<1>4. ASSUME NEW s \in Scope, Abandoned(s) PROVE InTurn'
  <2>1. \A q \in Scope : q # s => request'[q] = request[q]
    BY <1>4 DEF Abandoned, TypeOK, Requested
  <2>2. history'.heard = history.heard
    BY <1>4 DEF Abandoned, TypeOK, Recorded
  <2> QED
    BY <1>4, <1>b, <2>1, <2>2 DEF Abandoned
<1>5. ASSUME NEW s \in Scope, Ticked(s) PROVE InTurn'
  <2>1. \A q \in Scope : q # s => request'[q] = request[q]
    BY <1>5 DEF Ticked, TypeOK, Requested
  <2> QED
    BY <1>5, <1>b, <2>1 DEF Ticked
<1>6. ASSUME NEW r \in Repository, Start(r) PROVE InTurn'
  BY <1>6, <1>c, <1>d DEF Start, Lives
<1>7. ASSUME NEW r \in Repository, GiveUp(r) PROVE InTurn'
  BY <1>7, <1>c, <1>d DEF GiveUp, Lives
<1>8. ASSUME NEW r \in Repository, RepositoryDone(r) PROVE InTurn'
  <2>1. main = "joining"
    BY <1>8, WaitedFor DEF RepositoryDone
  <2>2. PICK to \in {"flushing", "failed", "fetched"} : life' = [life EXCEPT ![r] = to]
    BY <1>8 DEF RepositoryDone, Finish, Lives, Result
  <2> QED
    BY <1>8, <1>c, <2>1, <2>2 DEF RepositoryDone, Quiet
<1>9. ASSUME NEW r \in Repository, Flush(r) PROVE InTurn'
  <2>1. life[r] = "flushing"
    BY <1>9 DEF Flush, BlockIsRest
  <2>2. main = "joining" /\ request[r].at = "idle"
    BY <1>d, <2>1, WaitedFor
  <2>3. CASE block.left = <<>>
    <3>1. block.result \in {"fetched", "failed"}
      BY <1>9, <1>e DEF Flush, BlockIsRest, TypeOK, Blocks
    <3> QED
      BY <1>9, <1>c, <2>1, <2>2, <2>3, <3>1 DEF Flush, Lives
  <2>4. CASE block.left # <<>>
    BY <1>9, <1>a, <2>4 DEF Flush
  <2> QED
    BY <2>3, <2>4
<1>10. ASSUME NEW r \in Repository, Update(r) \/ Fail(r) PROVE InTurn'
  <2>1. /\ life[r] \in {"fetched", "failed"} /\ life' = [life EXCEPT ![r] = "over"]
        /\ UNCHANGED <<main, request, history>>
    BY <1>10 DEF Update, Fail, Lives
  <2>2. main = "joining" /\ request[r].at = "idle"
    BY <1>d, <2>1, WaitedFor
  <2> QED
    BY <1>c, <2>1, <2>2
<1>11. CASE \/ Replay \/ Open \/ FetchFails \/ FetchRepositories \/ Joined
            \/ ClearStops \/ ClearJoins \/ ClearErases \/ Summarise
  <2>1. UNCHANGED <<life, request, history>>
     BY <1>11 DEF Replay, Open, FetchFails, FetchRepositories, Joined, ClearStops, ClearJoins,
       ClearErases, Summarise
  <2>2. /\ main' \in {"open", "fetching"} => main \in {"open", "fetching"}
        /\ main' \notin {"open", "fetching", "joining"} =>
             \A r \in Repository : life[r] \in {"waiting", "over"}
     BY <1>11 DEF InTurn, Replay, Open, FetchFails, FetchRepositories, Joined, ClearStops,
       ClearJoins, ClearErases, Summarise, Proceeds
  <2>3. main \in {"fetching", "joining"} => main' \in {"fetching", "joining"} \/ request[Instance].at = "idle"
     BY <1>11 DEF Replay, Open, FetchFails, FetchRepositories, Joined, ClearStops, ClearJoins,
       ClearErases, Summarise, Proceeds, Quiet
  <2>4. \A s \in Scope : request[s].at # "idle" => Requesting(s)'
    BY <2>1, <2>3 DEF InTurn, Requesting
  <2> QED
    BY <2>1, <2>2, <2>4 DEF InTurn
<1>12. CASE UNCHANGED vars
  BY <1>12, <1>a DEF vars
<1> QED
  BY <1>1, <1>2, <1>3, <1>4, <1>5, <1>6, <1>7, <1>8, <1>9, <1>10, <1>11, <1>12, Steps

-----------------------------------------------------------------------------
(* What a scan was run with stays what it was, and so does what it shows.   *)
LEMMA SettingStays ==
  ASSUME [Next]_vars
  PROVE  setting' = setting /\ (HasStatusLine' <=> HasStatusLine) /\ (Logged' <=> Logged)
<1>1. setting' = setting
  <2>1. ASSUME NEW s \in Scope, Send(s) \/ Answered(s) \/ Abandoned(s) \/ Ticked(s)
        PROVE  setting' = setting
    BY <2>1 DEF Send, Answered, Abandoned, Ticked
  <2>2. ASSUME NEW r \in Repository,
               Start(r) \/ GiveUp(r) \/ RepositoryDone(r) \/ Flush(r) \/ Update(r) \/ Fail(r)
        PROVE  setting' = setting
    BY <2>2 DEF Start, GiveUp, RepositoryDone, Flush, Update, Fail
  <2> QED
     BY <2>1, <2>2, Steps DEF Cancel, TickerFires, TickerDraws, TickerStops, Replay, Open,
       FetchFails,
       FetchRepositories, Joined, ClearStops, ClearJoins, ClearErases, Summarise, vars
<1> QED
  BY <1>1 DEF HasStatusLine, Logged, Shown

(* A status line excludes a log and narration. *)
LEMMA StatusLineAlone ==
  ASSUME HasStatusLine
  PROVE  ~Logged /\ ~setting.verbose
BY DEF HasStatusLine, Logged

(* The goroutine that draws is over before the erasure, and no update      *)
(* comes after it.                                                         *)
LEMMA ScreenKept ==
  ASSUME TypeOK, InTurn, Screen, [Next]_vars
  PROVE  Screen'
<1>s. setting' = setting /\ (HasStatusLine' <=> HasStatusLine)
  BY SettingStays
<1>a. ASSUME UNCHANGED <<line, spinner, main>> PROVE Screen'
  BY <1>a, <1>s DEF Screen
<1>b. ASSUME HasStatusLine, line'.held = line'.last, main' = main,
             main \notin {"closing", "report"}, main = "erasing" => spinner'.at \in {"none", "stopped"}
      PROVE  Screen'
  BY <1>b, <1>s DEF Screen
<1>1. CASE Cancel
  BY <1>1, <1>a DEF Cancel
<1>2. CASE TickerFires \/ TickerStops
  <2>1. UNCHANGED <<line, main>> /\ spinner.at = "select" /\ spinner'.at \in {"draw", "stopped"}
    BY <1>2 DEF TickerFires, TickerStops, TypeOK, Spinning
  <2> QED
    BY <1>s, <2>1 DEF Screen
<1>3. CASE TickerDraws
  <2>1. spinner.at = "draw" /\ main' = main /\ line' = Redrawn(line.text, line.counted)
    BY <1>3 DEF TickerDraws
  <2>2. line.text \in Scope /\ line.counted \in BOOLEAN
    BY DEF TypeOK, Drawn
  <2>3. line'.held = line'.last
    BY <2>1, <2>2, RedrawnType DEF Screen
  <2> QED
    BY <1>b, <2>1, <2>3 DEF Screen
<1>4. ASSUME NEW s \in Scope, Send(s) \/ Answered(s) \/ Abandoned(s) PROVE Screen'
  BY <1>4, <1>a DEF Send, Answered, Abandoned
<1>5. ASSUME NEW s \in Scope, Ticked(s) PROVE Screen'
  <2>1. line'.last = line.last /\ line'.held = line.held /\ UNCHANGED <<spinner, main>>
    BY <1>5 DEF Ticked, TypeOK, Drawn
  <2> QED
    BY <1>s, <2>1 DEF Screen
<1>6. ASSUME NEW r \in Repository, Start(r) \/ GiveUp(r) \/ RepositoryDone(r) \/ Flush(r) \/ Fail(r)
      PROVE  Screen'
  BY <1>6, <1>a DEF Start, GiveUp, RepositoryDone, Flush, Fail
<1>7. ASSUME NEW r \in Repository, Update(r) PROVE Screen'
  <2>1. main = "joining" /\ UNCHANGED <<main, spinner>>
    BY <1>7, WaitedFor DEF Update, Lives
  <2>2. CASE HasStatusLine
    <3>1. line' = Redrawn(r, line.counted) /\ r \in Scope /\ line.counted \in BOOLEAN
      BY <1>7, <2>2 DEF Update, Scope, TypeOK, Drawn
    <3>2. line'.held = line'.last
      BY <3>1, RedrawnType DEF Screen
    <3> QED
      BY <1>b, <2>1, <2>2, <3>2
  <2>3. CASE ~HasStatusLine
    BY <1>7, <1>a, <2>1, <2>3 DEF Update
  <2> QED
    BY <2>2, <2>3
<1>8. CASE Open
  <2>1. main = "open" /\ main' = "fetching"
    BY <1>8 DEF Open, Proceeds
  <2>2. CASE HasStatusLine
    <3>1. line' = Redrawn(Instance, FALSE) /\ Instance \in Scope
      BY <1>8, <2>2 DEF Open, Scope
    <3>2. line'.held = line'.last
      BY <3>1, RedrawnType DEF Screen
    <3> QED
      BY <1>s, <2>1, <2>2, <3>2 DEF Screen
  <2>3. CASE ~HasStatusLine
    BY <1>8, <1>s, <2>1, <2>3 DEF Open, Screen
  <2> QED
    BY <2>2, <2>3
<1>9. CASE Replay \/ FetchFails \/ FetchRepositories \/ Joined
  BY <1>9, <1>s DEF Replay, FetchFails, FetchRepositories, Joined, Proceeds, Screen
<1>10. CASE ClearStops
  <2>1. spinner'.at = spinner.at
    BY <1>10 DEF ClearStops, TypeOK, Spinning
  <2> QED
    BY <1>10, <1>s, <2>1 DEF ClearStops, Proceeds, Screen
<1>11. CASE ClearJoins
  BY <1>11, <1>s DEF ClearJoins, Proceeds, Screen
<1>12. CASE ClearErases
  <2>1. line'.held = 0 /\ line'.last = 0
    BY <1>12 DEF ClearErases, Screen, TypeOK, Drawn
  <2> QED
    BY <1>12, <1>s, <2>1 DEF ClearErases, Proceeds, Screen
<1>13. CASE Summarise
  BY <1>13, <1>s DEF Summarise, Proceeds, Screen
<1>14. CASE UNCHANGED vars
  BY <1>14, <1>a DEF vars
<1> QED
  BY <1>1, <1>2, <1>3, <1>4, <1>5, <1>6, <1>7, <1>8, <1>9, <1>10, <1>11, <1>12, <1>13, <1>14, Steps

(* What is written while there is a status line is the closing line, and    *)
(* that comes when the status line has been erased.                        *)
LEMMA NothingOnStatusLine ==
  ASSUME TypeOK, TracerHolds, BlockIsRest, Screen, [Next]_vars, printed' # printed
  PROVE  line.held = 0
<1> SUFFICES ASSUME HasStatusLine PROVE line.held = 0
  BY DEF Screen
<1>a. ~Logged /\ ~setting.verbose
  BY StatusLineAlone
<1>1. ASSUME NEW s \in Scope, Send(s) \/ Answered(s) \/ Abandoned(s) \/ Ticked(s) PROVE FALSE
  BY <1>1, <1>a DEF Send, Answered, Abandoned, Ticked, Narrates
<1>2. ASSUME NEW r \in Repository, Start(r) \/ GiveUp(r) \/ Update(r) \/ Fail(r) PROVE FALSE
  BY <1>2, <1>a DEF Start, GiveUp, Update, Fail, Narrates
<1>3. ASSUME NEW r \in Repository, RepositoryDone(r) PROVE FALSE
  <2>1. tracer.pending[r] = <<>>
    BY <1>a DEF TracerHolds
  <2> QED
    BY <1>3, <2>1 DEF RepositoryDone, Finish
<1>4. ASSUME NEW r \in Repository, Flush(r) PROVE FALSE
  BY <1>4, <1>a, TerminalAssumption DEF Flush, BlockIsRest
<1>5. CASE \/ Cancel \/ TickerFires \/ TickerDraws \/ TickerStops
           \/ Replay \/ Open \/ FetchFails \/ FetchRepositories \/ Joined
           \/ ClearStops \/ ClearJoins \/ ClearErases \/ UNCHANGED vars
  BY <1>5 DEF Cancel, TickerFires, TickerDraws, TickerStops, Replay, Open, FetchFails,
     FetchRepositories, Joined, ClearStops, ClearJoins, ClearErases, vars
<1>6. CASE Summarise
  BY <1>6 DEF Summarise, Proceeds, Screen
<1> QED
  BY <1>1, <1>2, <1>3, <1>4, <1>5, <1>6, Steps

-----------------------------------------------------------------------------
(* The numbers up to the length of a sequence, and one more.               *)
LEMMA OneMore ==
  ASSUME NEW seq \in Seq(Nat), NEW e \in Nat
  PROVE  Append([n \in DOMAIN seq |-> n], Len(seq) + 1) = [n \in DOMAIN Append(seq, e) |-> n]
<1> DEFINE L == Len(seq)
           before == [n \in 1..L |-> n]
           after == [n \in 1..(L + 1) |-> n]
<1>1. L \in Nat /\ DOMAIN seq = 1..L /\ DOMAIN Append(seq, e) = 1..(L + 1) /\ L + 1 \in Nat
  BY AppendFacts
<1> HIDE DEF L
<1>2. before \in Seq(Nat) /\ Len(before) = L
  BY <1>1
<1>3. /\ Append(before, L + 1) \in Seq(Nat) /\ Len(Append(before, L + 1)) = L + 1
      /\ Append(before, L + 1)[L + 1] = L + 1
      /\ \A i \in 1..L : Append(before, L + 1)[i] = before[i]
  BY <1>1, <1>2, AppendFacts
<1>4. after \in Seq(Nat) /\ Len(after) = L + 1
  BY <1>1
<1>5. \A i \in 1..(L + 1) : Append(before, L + 1)[i] = after[i]
  BY <1>1, <1>3
<1>6. Append(before, L + 1) = after
  BY <1>3, <1>4, <1>5, SeqEqual
<1> QED
  BY <1>1, <1>6 DEF L

(* The events of other scopes stay what they were, and one has one more.    *)
LEMMA AnsweredFacts ==
  ASSUME TypeOK, InTurn, NEW s \in Scope, Answered(s)
  PROVE  /\ history.heard[s] \in Seq(Nat) /\ request[s].attempt \in Nat
         /\ history'.heard[s] = Append(history.heard[s], request[s].attempt)
         /\ \A q \in Scope : q # s => history'.heard[q] = history.heard[q]
         /\ history'.sent = history.sent /\ history'.lost = history.lost
         /\ s # Instance => s \in Repository /\ life[s] = "running"
         /\ block.of = Instance
<1>1. history.heard \in [Scope -> Seq(Nat)] /\ request[s].attempt \in Nat
  BY DEF TypeOK, Recorded, Requested
<1>2. history' = [history EXCEPT !.heard[s] = Append(@, request[s].attempt)]
  BY DEF Answered
<1>3. Requesting(s)
  BY DEF Answered, InTurn
<1> QED
  BY <1>1, <1>2, <1>3 DEF Answered, TypeOK, Recorded, Requesting, Scope, TracerFree

(* The tracer holds neither more nor less than the requests of             *)
(* repositories that run.                                                  *)
LEMMA TracerKept ==
  ASSUME TypeOK, InTurn, BlockIsRest, OrderIsSet, TracerHolds, [Next]_vars
  PROVE  OrderIsSet' /\ TracerHolds'
<1>s. Logged' <=> Logged
  BY SettingStays
<1>a. ASSUME tracer' = tracer, history'.heard = history.heard,
             \A r \in Repository : life'[r] = "running" <=> life[r] = "running"
      PROVE  OrderIsSet' /\ TracerHolds'
  BY <1>a, <1>s DEF OrderIsSet, TracerHolds
<1>b. ASSUME NEW r \in Repository, NEW from, NEW to, Lives(r, from, to), from # "running", to # "running",
             UNCHANGED <<tracer, history>>
      PROVE  OrderIsSet' /\ TracerHolds'
  BY <1>a, <1>b DEF Lives, TypeOK
<1>c. /\ tracer.order \in Seq(Repository) /\ tracer.pending \in [Repository -> Seq(Nat)]
      /\ tracer = [pending |-> tracer.pending, order |-> tracer.order,
                   total |-> tracer.total, retries |-> tracer.retries]
  BY DEF TypeOK, Traced
<1>1. CASE Cancel \/ TickerFires \/ TickerDraws \/ TickerStops
  BY <1>1, <1>a DEF Cancel, TickerFires, TickerDraws, TickerStops
<1>2. ASSUME NEW s \in Scope, Send(s) \/ Abandoned(s) \/ Ticked(s) PROVE OrderIsSet' /\ TracerHolds'
  <2>1. UNCHANGED <<tracer, life>> /\ history'.heard = history.heard
    BY <1>2 DEF Send, Abandoned, Ticked, TypeOK, Recorded
  <2> QED
    BY <1>a, <2>1
<1>3. ASSUME NEW s \in Scope, Answered(s) PROVE OrderIsSet' /\ TracerHolds'
  <2> DEFINE n == Len(history.heard[s]) + 1
             held == Logged /\ s # Instance
  <2>1. life' = life /\ tracer'.pending = IF held THEN Held(s, n, tracer.pending) ELSE tracer.pending
    BY <1>3, <1>c DEF Answered
  <2>2. tracer'.order = IF held /\ tracer.pending[s] = <<>> THEN Append(tracer.order, s) ELSE tracer.order
    BY <1>3, <1>c DEF Answered
  <2>3. CASE ~held
    <3>1. tracer'.pending = tracer.pending /\ tracer'.order = tracer.order
      BY <2>1, <2>2, <2>3
    <3>2. \A r \in Repository : Logged => history'.heard[r] = history.heard[r]
      BY <1>3, <2>3, AnsweredFacts, TerminalAssumption DEF Scope
    <3>3. OrderIsSet'
      BY <3>1 DEF OrderIsSet
    <3>4. ASSUME NEW r \in Repository
          PROVE  tracer'.pending[r] =
                   IF Logged /\ life[r] = "running" THEN [k \in DOMAIN history'.heard[r] |-> k] ELSE <<>>
      BY <3>1, <3>2 DEF TracerHolds
    <3>5. \A r \in Repository : tracer'.pending[r] # <<>> <=>
                                  \E i \in DOMAIN tracer'.order : tracer'.order[i] = r
      BY <3>1 DEF TracerHolds
    <3> QED
      BY <1>s, <2>1, <3>3, <3>4, <3>5 DEF TracerHolds
  <2>4. CASE held
    <3>1. s \in Repository /\ life[s] = "running" /\ Logged
      BY <1>3, <2>4, AnsweredFacts
    <3>2. tracer.pending[s] = [k \in DOMAIN history.heard[s] |-> k]
      BY <3>1 DEF TracerHolds
    <3>3. /\ tracer'.pending[s] = Append(tracer.pending[s], n)
          /\ \A r \in Repository : r # s => tracer'.pending[r] = tracer.pending[r]
      BY <1>c, <2>1, <2>4, <3>1 DEF Held
    <3>4. tracer'.pending[s] = [k \in DOMAIN history'.heard[s] |-> k]
      BY <1>3, <3>2, <3>3, OneMore, AnsweredFacts
    <3>5. \A r \in Repository : r # s => history'.heard[r] = history.heard[r]
      BY <1>3, AnsweredFacts DEF Scope
    <3>6. tracer'.pending[s] # <<>>
      <4>1. tracer.pending[s] \in Seq(Nat) /\ n \in Nat
        BY <1>3, <1>c, <3>1, AnsweredFacts
      <4> HIDE DEF n
      <4> QED
        BY <3>3, <4>1, AppendFacts
    <3>7. \A r \in Repository : tracer'.pending[r] =
            IF Logged /\ life[r] = "running" THEN [k \in DOMAIN history'.heard[r] |-> k] ELSE <<>>
      BY <3>1, <3>3, <3>4, <3>5 DEF TracerHolds
    <3>8. CASE tracer.pending[s] = <<>>
      <4>1. tracer'.order = Append(tracer.order, s)
        BY <2>2, <2>4, <3>8
      <4>2. \A i \in DOMAIN tracer.order : tracer.order[i] # s
        BY <3>1, <3>8 DEF TracerHolds
      <4>3. OrderIsSet'
        BY <1>c, <3>1, <4>1, <4>2, AppendFacts DEF OrderIsSet
      <4>4. \A r \in Repository : (\E i \in DOMAIN tracer'.order : tracer'.order[i] = r) <=>
                                    r = s \/ \E i \in DOMAIN tracer.order : tracer.order[i] = r
        <5> DEFINE N == Len(tracer.order)
        <5>1. /\ DOMAIN tracer'.order = 1..(N + 1) /\ DOMAIN tracer.order = 1..N /\ N \in Nat
              /\ tracer'.order[N + 1] = s
              /\ \A i \in 1..N : tracer'.order[i] = tracer.order[i]
          BY <1>c, <3>1, <4>1, AppendFacts
        <5> HIDE DEF N
        <5>2. 1..(N + 1) = 1..N \cup {N + 1}
          BY <5>1
        <5> QED
          BY <5>1, <5>2
      <4>5. \A r \in Repository : tracer'.pending[r] # <<>> <=>
                                    \E i \in DOMAIN tracer'.order : tracer'.order[i] = r
        BY <3>3, <3>6, <4>4 DEF TracerHolds
      <4> QED
        BY <1>s, <2>1, <3>7, <4>3, <4>5 DEF TracerHolds
    <3>9. CASE tracer.pending[s] # <<>>
      <4>1. tracer'.order = tracer.order
        BY <2>2, <3>9
      <4>2. OrderIsSet'
        BY <4>1 DEF OrderIsSet
      <4>3. \A r \in Repository : tracer'.pending[r] # <<>> <=>
                                    \E i \in DOMAIN tracer'.order : tracer'.order[i] = r
        BY <3>1, <3>3, <3>6, <3>9, <4>1 DEF TracerHolds
      <4> QED
        BY <1>s, <2>1, <3>7, <4>2, <4>3 DEF TracerHolds
    <3> QED
      BY <3>8, <3>9
  <2> QED
    BY <2>3, <2>4
<1>4. ASSUME NEW r \in Repository, Start(r) PROVE OrderIsSet' /\ TracerHolds'
  <2>1. /\ life[r] = "waiting" /\ life' = [life EXCEPT ![r] = "running"] /\ UNCHANGED <<tracer, history>>
    BY <1>4 DEF Start, Lives
  <2>2. history.heard[r] = <<>> /\ tracer.pending[r] = <<>>
    BY <2>1 DEF InTurn, TracerHolds
  <2>3. [n \in DOMAIN history.heard[r] |-> n] = <<>>
    BY <2>2
  <2>4. \A q \in Repository : q # r => life'[q] = life[q]
    BY <2>1
  <2>5. OrderIsSet'
    BY <2>1 DEF OrderIsSet
  <2> QED
    BY <1>s, <2>1, <2>2, <2>3, <2>4, <2>5 DEF TracerHolds
<1>5. ASSUME NEW r \in Repository, GiveUp(r) \/ Update(r) \/ Fail(r) PROVE OrderIsSet' /\ TracerHolds'
  BY <1>5, <1>b DEF GiveUp, Update, Fail
<1>6. ASSUME NEW r \in Repository, RepositoryDone(r) PROVE OrderIsSet' /\ TracerHolds'
  <2>1. /\ tracer'.pending = [tracer.pending EXCEPT ![r] = <<>>] /\ history' = history
        /\ tracer'.order = Dropped(r, tracer.order)
    BY <1>6, <1>c DEF RepositoryDone, Finish
  <2>2. /\ life'[r] # "running"
        /\ \A q \in Repository : q # r => life'[q] = life[q]
    BY <1>6 DEF RepositoryDone, Finish, Lives, Result, TypeOK
  <2>3. /\ tracer'.pending[r] = <<>>
        /\ \A q \in Repository : q # r => tracer'.pending[q] = tracer.pending[q]
    BY <1>c, <2>1
  <2>4. OrderIsSet'
    BY <1>c, <2>1, OneOut DEF OrderIsSet
  <2>5. \A q \in Repository : (\E i \in DOMAIN tracer'.order : tracer'.order[i] = q) <=>
                                q # r /\ \E i \in DOMAIN tracer.order : tracer.order[i] = q
    <3>1. \A i, j \in DOMAIN tracer.order : tracer.order[i] = tracer.order[j] => i = j
      BY DEF OrderIsSet
    <3>2. \A q \in Repository : (\E i \in DOMAIN Dropped(r, tracer.order) : Dropped(r, tracer.order)[i] = q) <=>
                                  q # r /\ \E i \in DOMAIN tracer.order : tracer.order[i] = q
      BY <1>c, <3>1, OneOut
    <3> QED
      BY <2>1, <3>2
  <2>6. \A q \in Repository : tracer'.pending[q] # <<>> <=>
                                \E i \in DOMAIN tracer'.order : tracer'.order[i] = q
    BY <2>3, <2>5 DEF TracerHolds
  <2>7. \A q \in Repository : tracer'.pending[q] =
          IF Logged /\ life'[q] = "running" THEN [n \in DOMAIN history'.heard[q] |-> n] ELSE <<>>
    BY <2>1, <2>2, <2>3 DEF TracerHolds
  <2> QED
    BY <1>s, <2>4, <2>6, <2>7 DEF TracerHolds
<1>7. ASSUME NEW r \in Repository, Flush(r) PROVE OrderIsSet' /\ TracerHolds'
  <2>1. block.left = <<>> => block.result # "running"
    BY DEF TypeOK, Blocks
  <2>2. CASE block.left = <<>>
    BY <1>7, <1>b, <2>1, <2>2 DEF Flush
  <2>3. CASE block.left # <<>>
    BY <1>7, <1>a, <2>3 DEF Flush
  <2> QED
    BY <2>2, <2>3
<1>8. CASE \/ Replay \/ Open \/ FetchFails \/ FetchRepositories \/ Joined
           \/ ClearStops \/ ClearJoins \/ ClearErases \/ Summarise \/ UNCHANGED vars
   BY <1>8, <1>a DEF Replay, Open, FetchFails, FetchRepositories, Joined, ClearStops, ClearJoins,
     ClearErases, Summarise, vars
<1> QED
  BY <1>1, <1>2, <1>3, <1>4, <1>5, <1>6, <1>7, <1>8, Steps

-----------------------------------------------------------------------------
(* How many lines a scope has in the log, without the case of a block of   *)
(* none.                                                                   *)
LEMMA LinesAreCounted ==
  ASSUME TypeOK, BlockIsRest, NEW s \in Scope
  PROVE  /\ Lines(s) \in Nat /\ Len(history.heard[s]) \in Nat
         /\ s # block.of \/ s = Instance =>
              Lines(s) = IF ~Logged \/ (s # Instance /\ life[s] \in {"waiting", "running"}) THEN 0
                         ELSE Len(history.heard[s])
         /\ s = block.of /\ s # Instance => Lines(s) = Len(history.heard[s]) - Len(block.left)
<1>1. history.heard[s] \in Seq(Nat) /\ block.left \in Seq(Nat)
  BY DEF TypeOK, Recorded, Blocks
<1>2. Len(history.heard[s]) \in Nat /\ Len(block.left) \in Nat
  BY <1>1
<1>3. CASE s = block.of /\ s # Instance
  <2>1. Logged /\ Len(block.left) <= Len(history.heard[s]) /\ life[s] = "flushing"
    BY <1>3 DEF BlockIsRest, Scope
  <2>2. Lines(s) = Len(history.heard[s]) - Len(block.left)
    BY <1>3, <2>1 DEF Lines
  <2>3. Len(history.heard[s]) - Len(block.left) \in Nat
    BY <1>2, <2>1
  <2> QED
    BY <1>2, <1>3, <2>2, <2>3
<1>4. CASE s # block.of \/ s = Instance
  <2> DEFINE h == Len(history.heard[s])
             l == Len(block.left)
  <2>1. s = block.of => l = 0
    BY <1>4 DEF BlockIsRest
  <2>2. Lines(s) = IF ~Logged \/ (s # Instance /\ life[s] \in {"waiting", "running"}) THEN 0
                   ELSE IF s = block.of THEN h - l ELSE h
    BY DEF Lines
  <2>3. h \in Nat
    BY <1>2
  <2> HIDE DEF h, l
  <2>4. s = block.of => h - l = h
    BY <2>1, <2>3
  <2>5. Lines(s) = IF ~Logged \/ (s # Instance /\ life[s] \in {"waiting", "running"}) THEN 0 ELSE h
    BY <2>2, <2>4
  <2>6. Lines(s) \in Nat
    BY <2>3, <2>5
  <2>7. ~(s = block.of /\ s # Instance)
    BY <1>4
  <2> QED
    BY <1>2, <2>5, <2>6, <2>7 DEF h
<1> QED
  BY <1>3, <1>4

(* A log that stays says what it said, as long as no line is taken back.   *)
LEMMA LogStays ==
  ASSUME TypeOK, LogIsLines, BlocksAreWhole, printed'.log = printed.log,
         \A s \in Scope : Lines(s)' = Lines(s),
         \A r \in Repository : life[r] \notin {"waiting", "running"} => life'[r] \notin {"waiting", "running"},
         main = "report" => main' = "report"
  PROVE  LogIsLines' /\ BlocksAreWhole'
<1>1. \A i \in DOMAIN printed.log :
        /\ printed.log[i].scope \in Scope
        /\ printed.log[i].scope # Instance => printed.log[i].scope \in Repository
  <2>1. printed.log \in Seq(Line)
    BY DEF TypeOK, Lined
  <2>2. \A i \in DOMAIN printed.log : printed.log[i] \in Line
    BY <2>1
  <2> QED
    BY <2>2 DEF Line, Scope
<1>2. ASSUME NEW i \in DOMAIN printed.log PROVE Told(printed.log[i])'
  <2>1. Told(printed.log[i])
    BY DEF LogIsLines
  <2> QED
    BY <1>1, <2>1 DEF Told
<1>3. LogIsLines'
  BY <1>2 DEF LogIsLines
<1>4. BlocksAreWhole'
  BY <1>1 DEF BlocksAreWhole
<1> QED
  BY <1>3, <1>4

(* A line that comes to the log is a new one, and follows what it should.   *)
LEMMA LogGrows ==
  ASSUME TypeOK, LogIsLines, BlocksAreWhole, NEW e \in Line,
         printed'.log = Append(printed.log, e),
         \A i \in DOMAIN printed.log : printed.log[i] # e,
         \A s \in Scope : 1..Lines(s) \subseteq 1..Lines(s)',
         \A s \in Scope : \A n \in 1..Lines(s)' : n \in 1..Lines(s) \/ e = Entry("request", s, n),
         \A r \in Repository : life[r] \notin {"waiting", "running"} => life'[r] \notin {"waiting", "running"},
         main = "report" => main' = "report",
         Told(e)',
         e.scope # Instance =>
           /\ life'[e.scope] \notin {"waiting", "running"}
           /\ e.kind = "request" =>
                /\ printed.log # <<>>
                /\ printed.log[Len(printed.log)] =
                     Entry(IF e.n = 1 THEN "heading" ELSE "request", e.scope, e.n - 1)
  PROVE  LogIsLines' /\ BlocksAreWhole'
<1> DEFINE log == printed.log
           N == Len(log)
<1>1. /\ log \in Seq(Line)
      /\ N \in Nat /\ DOMAIN log = 1..N /\ DOMAIN printed'.log = 1..(N + 1)
      /\ printed'.log[N + 1] = e
      /\ \A i \in 1..N : printed'.log[i] = log[i]
  BY AppendFacts DEF TypeOK, Lined
<1>2. \A i \in 1..N : log[i].scope \in Scope /\ (log[i].scope # Instance => log[i].scope \in Repository)
  <2>1. \A i \in 1..N : log[i] \in Line
    BY <1>1
  <2> HIDE DEF log, N
  <2> QED
    BY <2>1 DEF Line, Scope
<1>3. 1..(N + 1) = 1..N \cup {N + 1}
  BY <1>1
<1>4. ASSUME NEW i \in 1..N PROVE Told(log[i])'
  <2>1. Told(log[i])
    BY <1>1 DEF LogIsLines
  <2> QED
    BY <1>2, <2>1 DEF Told
<1>5. \A i \in DOMAIN printed'.log : Told(printed.log[i])'
  <2> SUFFICES ASSUME NEW i \in 1..(N + 1) PROVE Told(printed.log[i])'
    BY <1>1
  <2>1. CASE i \in 1..N
    BY <1>4, <2>1
  <2>2. CASE i = N + 1
    <3>1. printed'.log[i] = e
      BY <1>1, <2>2
    <3> QED
      BY <3>1 DEF Told
  <2> QED
    BY <1>3, <2>1, <2>2
<1>6. ASSUME NEW s \in Scope, NEW n \in 1..Lines(s)'
      PROVE  \E i \in DOMAIN printed'.log : printed'.log[i] = Entry("request", s, n)
  <2>1. CASE n \in 1..Lines(s)
    <3>1. PICK i \in 1..N : log[i] = Entry("request", s, n)
      BY <1>1, <2>1 DEF LogIsLines
    <3> QED
      BY <1>1, <1>3, <3>1
  <2>2. CASE e = Entry("request", s, n)
    BY <1>1, <1>3, <2>2
  <2> QED
    BY <2>1, <2>2
<1>7. LogIsLines'
  BY <1>5, <1>6 DEF LogIsLines
<1>8. ASSUME NEW i \in 1..(N + 1), printed'.log[i].scope # Instance
      PROVE  /\ life'[printed'.log[i].scope] \notin {"waiting", "running"}
             /\ printed'.log[i].kind = "request" =>
                  /\ i > 1
                  /\ printed'.log[i - 1] =
                       Entry(IF printed'.log[i].n = 1 THEN "heading" ELSE "request",
                             printed'.log[i].scope, printed'.log[i].n - 1)
  <2>1. CASE i \in 1..N
    <3>1. /\ life[log[i].scope] \notin {"waiting", "running"}
          /\ log[i].kind = "request" =>
               i > 1 /\ log[i - 1] = Entry(IF log[i].n = 1 THEN "heading" ELSE "request",
                                           log[i].scope, log[i].n - 1)
      BY <1>1, <1>8, <2>1 DEF BlocksAreWhole
    <3>2. i > 1 => i - 1 \in 1..N
      BY <1>1, <2>1
    <3> QED
      BY <1>1, <1>2, <1>8, <2>1, <3>1, <3>2
  <2>2. CASE i = N + 1
    <3>1. (N + 1) - 1 = N /\ (log # <<>> => N \in 1..N /\ N + 1 > 1)
      BY <1>1
    <3> HIDE DEF N
    <3>2. printed'.log[i] = e /\ i - 1 = N
      BY <1>1, <2>2, <3>1
    <3>3. log # <<>> => printed'.log[N] = log[N] /\ i > 1
      BY <1>1, <2>2, <3>1
    <3> QED
      BY <1>8, <3>2, <3>3 DEF N
  <2> QED
    BY <1>3, <2>1, <2>2
<1>9. ASSUME NEW i \in 1..(N + 1), NEW j \in 1..(N + 1), printed'.log[i] = printed'.log[j] PROVE i = j
  <2>1. \A k, l \in 1..N : log[k] = log[l] => k = l
    BY <1>1 DEF BlocksAreWhole
  <2>2. \A k \in 1..N : log[k] # e
    BY <1>1
  <2> HIDE DEF N, log
  <2> QED
    BY <1>1, <1>3, <1>9, <2>1, <2>2
<1>10. BlocksAreWhole'
  <2> HIDE DEF N, log
  <2> QED
    BY <1>1, <1>8, <1>9 DEF BlocksAreWhole, Entry
<1> QED
  BY <1>7, <1>10

(* A block is written under the mutex: no other line comes into it. *)
LEMMA LogKept ==
  ASSUME TypeOK, InTurn, BlockIsRest, TracerHolds, LogIsLines, BlocksAreWhole, [Next]_vars
  PROVE  BlockIsRest' /\ LogIsLines' /\ BlocksAreWhole'
<1>s. (Logged' <=> Logged) /\ Logged \in BOOLEAN
  BY SettingStays DEF Logged
<1>e. \A r \in Repository : r \in Scope /\ r # Instance
  BY TerminalAssumption DEF Scope
<1>t. /\ history.heard \in [Scope -> Seq(Nat)] /\ block.left \in Seq(Nat) /\ block.of \in Scope
      /\ printed.log \in Seq(Line) /\ life \in [Repository -> Lived]
      /\ \A r \in Repository : tracer.pending[r] \in Seq(Nat)
  BY DEF TypeOK, Recorded, Blocks, Lined, Traced
(* Steps that write nothing and leave every repository where it was.        *)
<1>a. ASSUME printed'.log = printed.log, UNCHANGED <<life, block>>, history'.heard = history.heard,
             main = "report" => main' = "report"
      PROVE  BlockIsRest' /\ LogIsLines' /\ BlocksAreWhole'
  <2>1. \A s \in Scope : Lines(s)' = Lines(s)
    BY <1>a, <1>s DEF Lines
  <2>2. BlockIsRest'
    BY <1>a, <1>s, <1>t, <2>1 DEF BlockIsRest
  <2> QED
    BY <1>a, <2>1, <2>2, LogStays
(* Steps of a repository that is not writing a block, nor about to.         *)
<1>b. ASSUME NEW r \in Repository, NEW from, NEW to, Lives(r, from, to),
             from # "flushing", to \notin {"flushing", "waiting"},
             from \in {"waiting", "running"} \/ to # "running",
             (from \in {"waiting", "running"} /\ to # "running" /\ Logged) => history.heard[r] = <<>>,
             printed'.log = printed.log, UNCHANGED <<main, block, history>>
      PROVE  BlockIsRest' /\ LogIsLines' /\ BlocksAreWhole'
  <2>1. /\ life[r] = from /\ life'[r] = to
        /\ \A q \in Repository : q # r => life'[q] = life[q]
    BY <1>b, <1>t DEF Lives
  <2>2. block.of # r
    BY <1>b, <2>1 DEF BlockIsRest
  <2>3. ASSUME NEW s \in Scope PROVE Lines(s)' = Lines(s)
    <3>1. CASE s # r
      <4>1. s # Instance => life'[s] = life[s]
        BY <2>1, <3>1 DEF Scope
      <4> QED
        BY <1>b, <1>s, <4>1 DEF Lines
    <3>2. CASE s = r
      <4>1. Lines(s) = IF ~Logged \/ from \in {"waiting", "running"} THEN 0 ELSE Len(history.heard[r])
        BY <1>e, <2>1, <2>2, <3>2 DEF Lines
      <4>2. Lines(s)' = IF ~Logged \/ to \in {"waiting", "running"} THEN 0 ELSE Len(history.heard[r])
        BY <1>b, <1>e, <1>s, <2>1, <2>2, <3>2 DEF Lines
      <4>3. CASE ~Logged
        BY <4>1, <4>2, <4>3
      <4>4. CASE Logged /\ from \in {"waiting", "running"} /\ to # "running"
        <5>1. Len(history.heard[r]) = 0
          BY <1>b, <4>4
        <5> QED
          BY <4>1, <4>2, <4>4, <5>1
      <4>5. CASE Logged /\ from \notin {"waiting", "running"}
        BY <1>b, <4>1, <4>2, <4>5
      <4>6. CASE Logged /\ from \in {"waiting", "running"} /\ to = "running"
        BY <4>1, <4>2, <4>6
      <4> QED
        BY <4>3, <4>4, <4>5, <4>6
    <3> QED
      BY <3>1, <3>2
  <2>4. \A q \in Repository : life'[q] = "flushing" <=> block.of = q
    BY <1>b, <2>1, <2>2 DEF BlockIsRest
  <2>5. BlockIsRest'
    BY <1>b, <1>s, <1>t, <2>3, <2>4 DEF BlockIsRest
  <2>6. \A q \in Repository : life[q] \notin {"waiting", "running"} => life'[q] \notin {"waiting", "running"}
    BY <1>b, <2>1
  <2> QED
    BY <1>b, <2>3, <2>5, <2>6, LogStays
<1>1. CASE Cancel \/ TickerFires \/ TickerDraws \/ TickerStops
  BY <1>1, <1>a DEF Cancel, TickerFires, TickerDraws, TickerStops
<1>2. ASSUME NEW s \in Scope, Send(s) \/ Abandoned(s) \/ Ticked(s)
      PROVE  BlockIsRest' /\ LogIsLines' /\ BlocksAreWhole'
  <2>1. UNCHANGED <<life, block, main>> /\ history'.heard = history.heard
    BY <1>2 DEF Send, Abandoned, Ticked, TypeOK, Recorded
  <2>2. printed'.log = printed.log
    BY <1>2 DEF Send, Abandoned, Ticked, Narrates, TypeOK, Lined
  <2> QED
    BY <1>a, <2>1, <2>2
<1>3. ASSUME NEW r \in Repository, Start(r) PROVE BlockIsRest' /\ LogIsLines' /\ BlocksAreWhole'
  <2>1. printed'.log = printed.log
    BY <1>3 DEF Start, Narrates, TypeOK, Lined
  <2> QED
    BY <1>3, <1>b, <2>1 DEF Start
<1>4. ASSUME NEW r \in Repository, GiveUp(r) PROVE BlockIsRest' /\ LogIsLines' /\ BlocksAreWhole'
  <2>1. history.heard[r] = <<>>
    BY <1>4 DEF GiveUp, Lives, InTurn
  <2> QED
    BY <1>4, <1>b, <2>1 DEF GiveUp
<1>5. ASSUME NEW r \in Repository, Update(r) \/ Fail(r) PROVE BlockIsRest' /\ LogIsLines' /\ BlocksAreWhole'
  BY <1>5, <1>b DEF Update, Fail
<1>6. CASE \/ Replay \/ Open \/ FetchFails \/ FetchRepositories \/ Joined
           \/ ClearStops \/ ClearJoins \/ ClearErases \/ UNCHANGED vars
   BY <1>6, <1>a DEF Replay, Open, FetchFails, FetchRepositories, Joined, ClearStops, ClearJoins,
     ClearErases, Proceeds, vars
<1>7. CASE Summarise
  <2>1. /\ main = "closing" /\ main' = "report" /\ block.of = Instance
        /\ UNCHANGED <<life, block, history>>
    BY <1>7 DEF Summarise, Proceeds, TracerFree
  <2>2. \A s \in Scope : Lines(s)' = Lines(s)
    BY <1>s, <2>1 DEF Lines
  <2>3. BlockIsRest'
    BY <1>s, <1>t, <2>1 DEF BlockIsRest
  <2>4. CASE tracer.total > 0
    <3>1. PICK e : e = Entry("summary", Instance, tracer.total)
      OBVIOUS
    <3>2. e \in Line /\ e.kind = "summary" /\ e.scope = Instance
      BY <3>1, EntryIsLine DEF TypeOK, Traced, Scope, Entry
    <3>3. printed'.log = Append(printed.log, e)
      BY <1>7, <2>4, <3>1 DEF Summarise, Prints, TypeOK, Lined
    <3>4. \A i \in DOMAIN printed.log : printed.log[i] # e
      BY <2>1, <3>2 DEF LogIsLines, Told
    <3>5. Told(e)'
      BY <2>1, <3>2 DEF Told
    <3> QED
      BY <2>1, <2>2, <2>3, <3>2, <3>3, <3>4, <3>5, LogGrows
  <2>5. CASE ~(tracer.total > 0)
    BY <1>7, <1>a, <2>1, <2>5 DEF Summarise
  <2> QED
    BY <2>4, <2>5
<1>8. ASSUME NEW s \in Scope, Answered(s) PROVE BlockIsRest' /\ LogIsLines' /\ BlocksAreWhole'
  <2>1. /\ history'.heard[s] = Append(history.heard[s], request[s].attempt)
        /\ \A q \in Scope : q # s => history'.heard[q] = history.heard[q]
        /\ s # Instance => s \in Repository /\ life[s] = "running"
        /\ block.of = Instance /\ UNCHANGED <<life, block, main>>
        /\ Len(history'.heard[s]) = Len(history.heard[s]) + 1
    <3>1. Len(history'.heard[s]) = Len(history.heard[s]) + 1
      BY <1>8, AnsweredFacts, AppendFacts
    <3> QED
      BY <1>8, <3>1, AnsweredFacts DEF Answered
  <2>2. \A q \in Scope : q # s => Lines(q)' = Lines(q)
    BY <1>s, <2>1 DEF Lines
  <2>3. BlockIsRest'
    BY <1>s, <1>t, <2>1 DEF BlockIsRest
  <2>4. CASE Logged /\ s = Instance
    <3> DEFINE n == Len(history.heard[s]) + 1
    <3>0. Len(history.heard[s]) \in Nat /\ Instance \in Scope /\ block.left = <<>>
      BY <1>t, <2>1 DEF Scope, BlockIsRest
    <3>1. PICK e : e = Entry("request", s, n)
      OBVIOUS
    <3>2. e \in Line /\ e.kind = "request" /\ e.scope = s /\ e.n = n
      BY <3>0, <3>1, EntryIsLine DEF Entry
    <3>3. printed'.log = Append(printed.log, e)
      BY <1>8, <2>4, <3>1 DEF Answered, Prints, TypeOK, Lined
    <3>4. Lines(s) = Len(history.heard[s])
      BY <2>4, <3>0, LinesAreCounted
    <3>5. Lines(s)' = n
      <4>1. Lines(s)' = IF s = block.of THEN Len(history'.heard[s]) - Len(block.left) ELSE Len(history'.heard[s])
        BY <1>s, <2>1, <2>4 DEF Lines
      <4>2. Len(block.left) = 0
        BY <3>0
      <4> QED
        BY <2>1, <3>0, <4>1, <4>2
    <3> HIDE DEF n
    <3>6. n \in Nat /\ n = Lines(s) + 1 /\ n \notin 1..Lines(s) /\ n \in 1..n /\ 1..n = 1..Lines(s) \cup {n}
      BY <3>0, <3>4 DEF n
    <3>7. \A i \in DOMAIN printed.log : printed.log[i] # e
      BY <3>2, <3>6 DEF LogIsLines, Told
    <3>8. Told(e)'
      BY <3>2, <3>5, <3>6 DEF Told
    <3>9. /\ \A q \in Scope : 1..Lines(q) \subseteq 1..Lines(q)'
          /\ \A q \in Scope : \A k \in 1..Lines(q)' : k \in 1..Lines(q) \/ e = Entry("request", q, k)
      BY <2>2, <3>1, <3>5, <3>6
    <3> QED
      BY <2>1, <2>3, <2>4, <3>2, <3>3, <3>7, <3>8, <3>9, LogGrows
  <2>5. CASE ~(Logged /\ s = Instance)
    <3>1. printed'.log = printed.log
      BY <1>8, <2>5 DEF Answered
    <3>2. Lines(s) = 0 /\ Lines(s)' = 0
      BY <1>s, <2>1, <2>5 DEF Lines
    <3> QED
      BY <2>1, <2>2, <2>3, <3>1, <3>2, LogStays
  <2> QED
    BY <2>4, <2>5
<1>9. ASSUME NEW r \in Repository, RepositoryDone(r)
      PROVE  BlockIsRest' /\ LogIsLines' /\ BlocksAreWhole'
  <2>1. /\ life[r] = "running" /\ block.of = Instance /\ UNCHANGED <<main, history>>
        /\ block.left = <<>>
    BY <1>9 DEF RepositoryDone, TracerFree, BlockIsRest
  <2>2. Result \in {"fetched", "failed"}
    BY DEF Result
  <2>3. CASE tracer.pending[r] = <<>>
    <3>1. /\ life' = [life EXCEPT ![r] = Result] /\ UNCHANGED <<block, printed>>
      BY <1>9, <2>3 DEF RepositoryDone, Finish, Lives
    <3>2. Logged => history.heard[r] = <<>>
      <4> SUFFICES ASSUME Logged PROVE history.heard[r] = <<>>
        OBVIOUS
      <4>1. [n \in DOMAIN history.heard[r] |-> n] = <<>>
        BY <2>1, <2>3 DEF TracerHolds
      <4>2. DOMAIN history.heard[r] = {}
        BY <4>1
      <4>3. history.heard[r] \in Seq(Nat)
        BY <1>e, <1>t
      <4>4. Len(history.heard[r]) = 0
        <5>1. Len(history.heard[r]) \in Nat /\ 1..Len(history.heard[r]) = {}
          BY <4>2, <4>3, LenProperties
        <5>2. 1 \notin 1..Len(history.heard[r])
          BY <5>1
        <5> QED
          BY <5>1, <5>2
      <4> QED
        BY <4>3, <4>4
    <3>3. Lives(r, "running", Result)
      BY <2>1, <3>1 DEF Lives
    <3> QED
      BY <1>b, <2>1, <2>2, <3>1, <3>2, <3>3
  <2>4. CASE tracer.pending[r] # <<>>
    <3> DEFINE H == history.heard[r]
    <3>1. /\ life' = [life EXCEPT ![r] = "flushing"]
          /\ block' = [of |-> r, left |-> tracer.pending[r], result |-> Result]
          /\ printed' = [printed EXCEPT !.log = Append(@, Entry("heading", r, 0))]
      BY <1>9, <2>4 DEF RepositoryDone, Finish, Lives, Prints
    <3>2. /\ life'[r] = "flushing"
          /\ \A q \in Repository : q # r => life'[q] = life[q]
      BY <1>t, <3>1
    <3>3. /\ Logged /\ tracer.pending[r] = [n \in DOMAIN H |-> n]
          /\ H \in Seq(Nat) /\ H # <<>>
      BY <1>e, <1>t, <2>1, <2>4 DEF TracerHolds
    <3>4. /\ block'.of = r /\ block'.left = [n \in DOMAIN H |-> n] /\ block'.result = Result
          /\ Len(block'.left) = Len(H) /\ Len(H) \in Nat
      BY <3>1, <3>3
    <3>5. PICK e : e = Entry("heading", r, 0)
      OBVIOUS
    <3>6. e \in Line /\ e.kind = "heading" /\ e.scope = r /\ e.n = 0
      BY <1>e, <3>5, EntryIsLine DEF Entry
    <3>7. printed'.log = Append(printed.log, e)
      BY <3>1, <3>5 DEF TypeOK, Lined
    <3>8. Lines(r) = 0 /\ Lines(r)' = 0
      <4>1. Lines(r) = 0
        BY <2>1, <1>e DEF Lines
      <4>2. Lines(r)' = Len(H) - Len(block'.left)
        BY <1>e, <1>s, <2>1, <3>2, <3>3, <3>4 DEF Lines
      <4> HIDE DEF H
      <4> QED
        BY <3>4, <4>1, <4>2
    <3>9. ASSUME NEW s \in Scope, s # r PROVE Lines(s)' = Lines(s)
      <4>1. s # Instance => life'[s] = life[s]
        BY <3>2, <3>9 DEF Scope
      <4>2. Lines(s) = IF ~Logged \/ (s # Instance /\ life[s] \in {"waiting", "running"}) THEN 0
                       ELSE Len(history.heard[s])
        BY <2>1, LinesAreCounted
      <4> QED
        BY <1>s, <2>1, <3>4, <3>9, <4>1, <4>2 DEF Lines
    <3>10. \A i \in DOMAIN printed.log : printed.log[i] # e
      BY <2>1, <3>6 DEF LogIsLines, Told
    <3>11. Told(e)'
      BY <1>e, <3>2, <3>6 DEF Told
    <3>12. /\ \A q \in Scope : Lines(q)' = Lines(q)
           /\ \A q \in Repository : life[q] \notin {"waiting", "running"} => life'[q] \notin {"waiting", "running"}
      BY <2>1, <3>2, <3>8, <3>9
    <3>13. LogIsLines' /\ BlocksAreWhole'
      BY <2>1, <3>2, <3>6, <3>7, <3>10, <3>11, <3>12, LogGrows
    <3>14. printed'.log # <<>> /\ printed'.log[Len(printed'.log)] = e
      <4> DEFINE N == Len(printed.log)
      <4>1. /\ Len(printed'.log) = N + 1 /\ N \in Nat /\ DOMAIN printed'.log = 1..(N + 1)
            /\ printed'.log[N + 1] = e
        BY <1>t, <3>6, <3>7, AppendFacts
      <4> QED
        BY <4>1
    <3>15. \A q \in Repository : life'[q] = "flushing" <=> block'.of = q
      BY <1>e, <2>1, <3>2, <3>4 DEF BlockIsRest
    <3>16. \A k \in DOMAIN block'.left : block'.left[k] = Lines(r)' + k
      BY <3>3, <3>4, <3>8
    <3>17. BlockIsRest'
      BY <1>e, <1>s, <2>1, <2>2, <3>3, <3>4, <3>5, <3>8, <3>14, <3>15, <3>16 DEF BlockIsRest
    <3> QED
      BY <3>13, <3>17
  <2> QED
    BY <2>3, <2>4
<1>10. ASSUME NEW r \in Repository, Flush(r) PROVE BlockIsRest' /\ LogIsLines' /\ BlocksAreWhole'
  <2>1. block.of = r /\ block.of # Instance /\ UNCHANGED <<main, history>>
    BY <1>10, <1>e DEF Flush
  <2> DEFINE H == Len(history.heard[r])
             L == Len(block.left)
  <2>2. /\ Logged /\ block.result # "none" /\ L <= H /\ history.heard[r] # <<>>
        /\ \A k \in DOMAIN block.left : block.left[k] = Lines(r) + k
        /\ printed.log # <<>>
        /\ printed.log[Len(printed.log)] = Entry(IF Lines(r) = 0 THEN "heading" ELSE "request", r, Lines(r))
        /\ life[r] = "flushing" /\ \A q \in Repository : q # r => life[q] # "flushing"
    BY <2>1 DEF BlockIsRest
  <2>3. H \in Nat /\ L \in Nat /\ Lines(r) = H - L /\ Lines(r) \in Nat
    <3>1. r \in Scope /\ r = block.of /\ r # Instance
      BY <1>e, <2>1
    <3>2. L \in Nat
      BY <1>t
    <3> QED
      BY <3>1, <3>2, LinesAreCounted
  <2>6. Lines(r) \in Nat
    BY <2>3
  <2>4. CASE block.left = <<>>
    <3>1. /\ life' = [life EXCEPT ![r] = block.result] /\ printed' = printed
          /\ block'.of = Instance /\ block'.left = <<>>
      BY <1>10, <2>4 DEF Flush, Lives, NoBlock
    <3>2. block.result \in {"fetched", "failed"}
      BY <2>2 DEF TypeOK, Blocks
    <3>3. /\ life'[r] = block.result
          /\ \A q \in Repository : q # r => life'[q] = life[q]
      BY <1>t, <3>1
    <3>4. ASSUME NEW s \in Scope PROVE Lines(s)' = Lines(s)
      <4>1. CASE s = r
        <5>1. Lines(r)' = H
          BY <1>e, <1>s, <2>1, <2>2, <3>1, <3>2, <3>3 DEF Lines
        <5>2. L = 0
          BY <2>4
        <5> HIDE DEF H, L
        <5> QED
          BY <2>3, <4>1, <5>1, <5>2
      <4>2. CASE s # r
        <5>1. s # Instance => life'[s] = life[s]
          BY <3>3, <4>2 DEF Scope
        <5>2. Lines(s) = IF ~Logged \/ (s # Instance /\ life[s] \in {"waiting", "running"}) THEN 0
                         ELSE Len(history.heard[s])
          BY <2>1, <4>2, LinesAreCounted
        <5>3. s = Instance => Len(history.heard[s]) - Len(block'.left) = Len(history.heard[s])
          <6>1. Len(history.heard[s]) \in Nat /\ Len(block'.left) = 0
            BY <1>t, <3>1
          <6> QED
            BY <6>1
        <5> QED
          BY <1>s, <2>1, <3>1, <4>2, <5>1, <5>2, <5>3 DEF Lines
      <4> QED
        BY <4>1, <4>2
    <3>5. \A q \in Repository : life'[q] # "flushing"
      BY <2>2, <3>2, <3>3
    <3>6. BlockIsRest'
      BY <1>e, <3>1, <3>5 DEF BlockIsRest
    <3>7. \A q \in Repository : life[q] \notin {"waiting", "running"} => life'[q] \notin {"waiting", "running"}
      BY <3>2, <3>3
    <3> QED
      BY <2>1, <3>1, <3>4, <3>6, <3>7, LogStays
  <2>5. CASE block.left # <<>>
    <3>1. /\ life' = life /\ block'.of = r /\ block'.result = block.result
          /\ block'.left = Tail(block.left)
          /\ printed' = [printed EXCEPT !.log = Append(@, Entry("request", r, Head(block.left)))]
      BY <1>10, <2>1, <2>5 DEF Flush, Prints, TypeOK, Blocks
    <3> DEFINE n == Lines(r) + 1
    <3>2. /\ L # 0 /\ Head(block.left) = block.left[1] /\ 1 \in DOMAIN block.left
          /\ DOMAIN block.left = 1..L
          /\ Tail(block.left) \in Seq(Nat) /\ Len(Tail(block.left)) = L - 1
          /\ \A k \in 1..(L - 1) : Tail(block.left)[k] = block.left[k + 1]
      BY <1>t, <2>5, HeadTailProperties
    <3>3. Head(block.left) = n /\ n \in Nat /\ n >= 1
      <4>1. block.left[1] = Lines(r) + 1
        BY <2>2, <3>2
      <4> QED
        BY <2>6, <3>2, <4>1
    <3>4. PICK e : e = Entry("request", r, n)
      OBVIOUS
    <3>5. e \in Line /\ e.kind = "request" /\ e.scope = r /\ e.n = n
      BY <1>e, <3>3, <3>4, EntryIsLine DEF Entry
    <3>6. printed'.log = Append(printed.log, e)
      BY <3>1, <3>3, <3>4 DEF TypeOK, Lined
    <3>7. Lines(r)' = n
      <4>1. Lines(r)' = H - Len(block'.left)
        BY <1>e, <1>s, <2>1, <2>2, <3>1 DEF Lines
      <4>2. Len(block'.left) = L - 1
        BY <3>1, <3>2
      <4> HIDE DEF H, L
      <4> QED
        BY <2>3, <4>1, <4>2
    <3>8. ASSUME NEW s \in Scope, s # r PROVE Lines(s)' = Lines(s)
      BY <1>s, <2>1, <3>1, <3>8 DEF Lines
    <3>20. n = Lines(r) + 1
      OBVIOUS
    <3> HIDE DEF n
    <3>9. n \notin 1..Lines(r) /\ n \in 1..n /\ 1..n = 1..Lines(r) \cup {n} /\ n - 1 = Lines(r)
          /\ (n = 1 <=> Lines(r) = 0)
      <4> DEFINE m == Lines(r)
      <4>1. m \in Nat /\ n = m + 1
        BY <2>6, <3>20
      <4> HIDE DEF m
      <4>2. n \notin 1..m /\ n \in 1..n /\ 1..n = 1..m \cup {n} /\ n - 1 = m /\ (n = 1 <=> m = 0)
        BY <4>1
      <4> QED
        BY <4>2 DEF m
    <3>10. \A i \in DOMAIN printed.log : printed.log[i] # e
      BY <3>5, <3>9 DEF LogIsLines, Told
    <3>11. Told(e)'
      BY <3>5, <3>7, <3>9 DEF Told
    <3>12. /\ \A q \in Scope : 1..Lines(q) \subseteq 1..Lines(q)'
           /\ \A q \in Scope : \A k \in 1..Lines(q)' : k \in 1..Lines(q) \/ e = Entry("request", q, k)
      BY <3>4, <3>7, <3>8, <3>9
    <3>13. printed.log[Len(printed.log)] = Entry(IF e.n = 1 THEN "heading" ELSE "request", e.scope, e.n - 1)
      BY <2>2, <3>5, <3>9
    <3>14. LogIsLines' /\ BlocksAreWhole'
      BY <2>1, <2>2, <3>1, <3>5, <3>6, <3>10, <3>11, <3>12, <3>13, LogGrows
    <3>15. printed'.log # <<>> /\ printed'.log[Len(printed'.log)] = Entry("request", r, Lines(r)')
      <4> DEFINE N == Len(printed.log)
      <4>1. /\ Len(printed'.log) = N + 1 /\ N \in Nat /\ DOMAIN printed'.log = 1..(N + 1)
            /\ printed'.log[N + 1] = e
        BY <1>t, <3>5, <3>6, AppendFacts
      <4>2. e = Entry("request", r, Lines(r)')
        BY <3>4, <3>7
      <4> QED
        BY <4>1, <4>2
    <3>16. Lines(r)' # 0
      BY <3>3, <3>7
    <3>17. \A k \in DOMAIN block'.left : block'.left[k] = Lines(r)' + k
      <4> SUFFICES ASSUME NEW k \in 1..(L - 1) PROVE block'.left[k] = Lines(r)' + k
        BY <3>1, <3>2
      <4>1. block'.left[k] = block.left[k + 1] /\ k + 1 \in 1..L
        BY <2>3, <3>1, <3>2
      <4>2. block.left[k + 1] = Lines(r) + (k + 1)
        BY <2>2, <3>2, <4>1
      <4> QED
        BY <2>6, <3>7, <3>20, <4>1, <4>2
    <3>18. Len(block'.left) <= Len(history'.heard[r])
      BY <2>1, <2>2, <2>3, <3>1, <3>2
    <3>19. BlockIsRest'
      BY <1>s, <2>1, <2>2, <3>1, <3>15, <3>16, <3>17, <3>18 DEF BlockIsRest
    <3> QED
      BY <3>14, <3>19
  <2> QED
    BY <2>4, <2>5
<1> QED
  BY <1>1, <1>2, <1>3, <1>4, <1>5, <1>6, <1>7, <1>8, <1>9, <1>10, Steps

-----------------------------------------------------------------------------
(* The events, taken apart. *)
LEMMA EventFacts ==
  ASSUME TypeOK
  PROVE  /\ \A e : e \in Events <=> \E s \in Scope : \E n \in DOMAIN history.heard[s] : e = Entry("request", s, n)
         /\ \A s \in Scope : history.heard[s] \in Seq(Nat)
BY DEF Events, TypeOK, Recorded

(* record brings one event, and a retry when it is one. *)
LEMMA EventAdded ==
  ASSUME TypeOK, InTurn, NEW s \in Scope, Answered(s)
  PROVE  \E e : /\ e \notin Events /\ Events' = Events \cup {e}
                /\ Retries' = IF request[s].attempt > 0 THEN Retries \cup {e} ELSE Retries
<1> DEFINE L == Len(history.heard[s])
<1>1. /\ history.heard[s] \in Seq(Nat) /\ L \in Nat
      /\ history'.heard[s] = Append(history.heard[s], request[s].attempt)
      /\ \A q \in Scope : q # s => history'.heard[q] = history.heard[q]
      /\ DOMAIN history.heard[s] = 1..L /\ DOMAIN history'.heard[s] = 1..(L + 1)
      /\ history'.heard[s][L + 1] = request[s].attempt
      /\ \A n \in 1..L : history'.heard[s][n] = history.heard[s][n]
  BY AnsweredFacts, AppendFacts
<1> HIDE DEF L
<1>2. 1..(L + 1) = 1..L \cup {L + 1} /\ L + 1 \notin 1..L
  BY <1>1
<1>3. PICK e : e = Entry("request", s, L + 1)
  OBVIOUS
<1>4. e \notin Events
  BY <1>1, <1>2, <1>3, EventFacts DEF Entry
<1>5. \A x : x \in Events' <=> \E q \in Scope : \E n \in DOMAIN history'.heard[q] : x = Entry("request", q, n)
  BY DEF Events
<1>6. ASSUME NEW x PROVE x \in Events' <=> x \in Events \/ x = e
  <2>1. ASSUME x \in Events PROVE x \in Events'
    <3>0. PICK q \in Scope : \E n \in DOMAIN history.heard[q] : x = Entry("request", q, n)
      BY <2>1, EventFacts
    <3>1. PICK n \in DOMAIN history.heard[q] : x = Entry("request", q, n)
      BY <3>0
    <3>2. n \in DOMAIN history'.heard[q]
      BY <1>1, <1>2, <3>1
    <3> QED
      BY <1>5, <3>1, <3>2
  <2>2. e \in Events'
    BY <1>1, <1>2, <1>3, <1>5
  <2>3. ASSUME x \in Events', x # e PROVE x \in Events
    <3>0. PICK q \in Scope : \E n \in DOMAIN history'.heard[q] : x = Entry("request", q, n)
      BY <1>5, <2>3
    <3>1. PICK n \in DOMAIN history'.heard[q] : x = Entry("request", q, n)
      BY <3>0
    <3>2. n \in DOMAIN history.heard[q]
      BY <1>1, <1>2, <1>3, <2>3, <3>1
    <3> QED
      BY <3>1, <3>2, EventFacts
  <2> QED
    BY <2>1, <2>2, <2>3
<1>7. Events' = Events \cup {e}
  BY <1>6
<1>8. ASSUME NEW x \in Events PROVE history'.heard[x.scope][x.n] = history.heard[x.scope][x.n]
  <2>0. PICK q \in Scope : \E n \in DOMAIN history.heard[q] : x = Entry("request", q, n)
    BY EventFacts
  <2>1. PICK n \in DOMAIN history.heard[q] : x = Entry("request", q, n)
    BY <2>0
  <2>2. x.scope = q /\ x.n = n
    BY <2>1 DEF Entry
  <2> QED
    BY <1>1, <2>1, <2>2
<1>9. history'.heard[e.scope][e.n] = request[s].attempt
  BY <1>1, <1>3 DEF Entry
<1>10. Retries' = IF request[s].attempt > 0 THEN Retries \cup {e} ELSE Retries
  <2>1. Retries' = {x \in Events' : history'.heard[x.scope][x.n] > 0}
    BY DEF Retries
  <2>2. ASSUME NEW x PROVE x \in Retries' <=> x \in Retries \/ (x = e /\ request[s].attempt > 0)
    BY <1>4, <1>7, <1>8, <1>9, <2>1 DEF Retries
  <2> QED
    BY <2>2
<1> QED
  BY <1>4, <1>7, <1>10

(* The counts follow the events, and what is in flight is neither counted  *)
(* nor lost.                                                               *)
LEMMA AccountedKept ==
  ASSUME TypeOK, InTurn, Accounted, [Next]_vars
  PROVE  Accounted'
<1>t. /\ tracer.total \in Nat /\ tracer.retries \in Nat /\ history.sent \in Nat /\ history.lost \in Nat
      /\ \A s \in Scope : request[s].attempt \in Nat
  BY DEF TypeOK, Traced, Recorded, Requested
<1>c. Cardinality(Flying) \in Nat
  BY FS_CardinalityType DEF Accounted
<1>a. ASSUME tracer'.total = tracer.total, tracer'.retries = tracer.retries, UNCHANGED <<history, request>>
      PROVE  Accounted'
  BY <1>a DEF Accounted, Events, Retries, Flying
<1>e. ASSUME history'.heard = history.heard PROVE Events' = Events /\ Retries' = Retries
  BY <1>e DEF Events, Retries
<1>f. ASSUME NEW s \in Scope, \A q \in Scope : q # s => request'[q] = request[q]
      PROVE  /\ request'[s].at # "flight" => Flying' = Flying \ {s}
             /\ request'[s].at = "flight" => Flying' = Flying \cup {s}
  BY <1>f DEF Flying
<1>1. CASE \/ Cancel \/ TickerFires \/ TickerDraws \/ TickerStops
           \/ Replay \/ Open \/ FetchFails \/ FetchRepositories \/ Joined
           \/ ClearStops \/ ClearJoins \/ ClearErases \/ Summarise \/ UNCHANGED vars
  <2>1. UNCHANGED <<tracer, history, request>>
    BY <1>1 DEF Cancel, TickerFires, TickerDraws, TickerStops, Replay, Open, FetchFails,
       FetchRepositories, Joined, ClearStops, ClearJoins, ClearErases, Summarise, vars
  <2> QED
    BY <1>a, <2>1
<1>2. ASSUME NEW r \in Repository, Start(r) \/ GiveUp(r) \/ Flush(r) \/ Update(r) \/ Fail(r)
      PROVE  Accounted'
  BY <1>2, <1>a DEF Start, GiveUp, Flush, Update, Fail
<1>3. ASSUME NEW r \in Repository, RepositoryDone(r) PROVE Accounted'
  <2>1. tracer'.total = tracer.total /\ tracer'.retries = tracer.retries
    BY <1>3 DEF RepositoryDone, Finish, TypeOK, Traced
  <2> QED
    BY <1>3, <1>a, <2>1 DEF RepositoryDone
<1>4. ASSUME NEW s \in Scope, Send(s) PROVE Accounted'
  <2>1. /\ request[s].at = "idle" /\ request'[s].at = "flight" /\ tracer' = tracer
        /\ \A q \in Scope : q # s => request'[q] = request[q]
    BY <1>4 DEF Send, TypeOK, Requested
  <2>2. history'.sent = history.sent + 1 /\ history'.lost = history.lost /\ history'.heard = history.heard
    BY <1>4 DEF Send, TypeOK, Recorded
  <2>3. Flying' = Flying \cup {s} /\ s \notin Flying
    BY <1>f, <2>1 DEF Flying
  <2>4. IsFiniteSet(Flying') /\ Cardinality(Flying') = Cardinality(Flying) + 1
    BY <2>3, FS_AddElement DEF Accounted
  <2> QED
    BY <1>c, <1>e, <1>t, <2>1, <2>2, <2>4 DEF Accounted
<1>5. ASSUME NEW s \in Scope, Abandoned(s) PROVE Accounted'
  <2>1. /\ request[s].at = "flight" /\ request'[s].at = "idle" /\ tracer' = tracer
        /\ \A q \in Scope : q # s => request'[q] = request[q]
    BY <1>5 DEF Abandoned, TypeOK, Requested
  <2>2. history'.sent = history.sent /\ history'.lost = history.lost + 1 /\ history'.heard = history.heard
    BY <1>5 DEF Abandoned, TypeOK, Recorded
  <2>3. Flying' = Flying \ {s} /\ s \in Flying
    BY <1>f, <2>1 DEF Flying
  <2>4. IsFiniteSet(Flying') /\ Cardinality(Flying') = Cardinality(Flying) - 1
    BY <2>3, FS_RemoveElement DEF Accounted
  <2> QED
    BY <1>c, <1>e, <1>t, <2>1, <2>2, <2>4 DEF Accounted
<1>6. ASSUME NEW s \in Scope, Ticked(s) PROVE Accounted'
  <2>1. /\ request[s].at = "recorded" /\ request'[s].at = "idle" /\ UNCHANGED <<tracer, history>>
        /\ \A q \in Scope : q # s => request'[q] = request[q]
    BY <1>6 DEF Ticked, TypeOK, Requested
  <2>2. Flying' = Flying
    BY <1>f, <2>1 DEF Flying
  <2> QED
    BY <1>e, <2>1, <2>2 DEF Accounted
<1>7. ASSUME NEW s \in Scope, Answered(s) PROVE Accounted'
  <2>1. /\ request[s].at = "flight" /\ request'[s].at = "recorded"
        /\ \A q \in Scope : q # s => request'[q] = request[q]
    BY <1>7 DEF Answered, TypeOK, Requested
  <2>2. /\ tracer'.total = tracer.total + 1
        /\ tracer'.retries = tracer.retries + IF request[s].attempt > 0 THEN 1 ELSE 0
        /\ history'.sent = history.sent /\ history'.lost = history.lost
    BY <1>7, AnsweredFacts DEF Answered, TypeOK, Traced
  <2>3. Flying' = Flying \ {s} /\ s \in Flying
    BY <1>f, <2>1 DEF Flying
  <2>4. IsFiniteSet(Flying') /\ Cardinality(Flying') = Cardinality(Flying) - 1
    BY <2>3, FS_RemoveElement DEF Accounted
  <2>5. PICK e : /\ e \notin Events /\ Events' = Events \cup {e}
                 /\ Retries' = IF request[s].attempt > 0 THEN Retries \cup {e} ELSE Retries
    BY <1>7, EventAdded
  <2>6. IsFiniteSet(Events') /\ Cardinality(Events') = Cardinality(Events) + 1
    BY <2>5, FS_AddElement DEF Accounted
  <2>7. e \notin Retries
    BY <2>5 DEF Retries
  <2>8. /\ IsFiniteSet(Retries')
        /\ Cardinality(Retries') = Cardinality(Retries) + IF request[s].attempt > 0 THEN 1 ELSE 0
    <3>1. CASE request[s].attempt > 0
      BY <2>5, <2>7, <3>1, FS_AddElement DEF Accounted
    <3>2. CASE ~(request[s].attempt > 0)
      <4>1. Cardinality(Retries) \in Nat
        BY FS_CardinalityType DEF Accounted
      <4> QED
        BY <2>5, <3>2, <4>1 DEF Accounted
    <3> QED
      BY <3>1, <3>2
  <2>9. tracer'.total = Cardinality(Events') /\ tracer'.retries = Cardinality(Retries')
    BY <2>2, <2>6, <2>8 DEF Accounted
  <2>10. history'.sent = tracer'.total + history'.lost + Cardinality(Flying')
    BY <1>c, <1>t, <2>2, <2>4 DEF Accounted
  <2> QED
    BY <2>4, <2>6, <2>8, <2>9, <2>10 DEF Accounted
<1> QED
  BY <1>1, <1>2, <1>3, <1>4, <1>5, <1>6, <1>7, Steps

-----------------------------------------------------------------------------
(* The invariant, to begin with ... *)
LEMMA InvariantHolds == Init => IInv
<1> SUFFICES ASSUME Init PROVE IInv
  OBVIOUS
<1>1. TypeOK
  BY TypeHolds
<1>2. /\ main = "open" /\ \A r \in Repository : life[r] = "waiting" /\ tracer.pending[r] = <<>>
      /\ \A s \in Scope : request[s].at = "idle" /\ history.heard[s] = <<>>
      /\ tracer.order = <<>> /\ tracer.total = 0 /\ tracer.retries = 0
      /\ block.of = Instance /\ block.left = <<>> /\ printed.log = <<>>
      /\ spinner.at = "none" /\ line.last = 0 /\ line.held = 0
      /\ history.sent = 0 /\ history.lost = 0
  BY DEF Init, NoBlock
<1>3. InTurn
  BY <1>2 DEF InTurn, Scope
<1>4. OrderIsSet /\ TracerHolds
  BY <1>2 DEF OrderIsSet, TracerHolds
<1>5. BlockIsRest
  BY <1>2, TerminalAssumption DEF BlockIsRest
<1>6. \A s \in Scope : Lines(s) = 0
  BY <1>2 DEF Lines
<1>7. LogIsLines /\ BlocksAreWhole
  BY <1>2, <1>6 DEF LogIsLines, BlocksAreWhole
<1>8. Events = {} /\ Flying = {}
  BY <1>2 DEF Events, Flying
<1>9. Retries = {}
  BY <1>8 DEF Retries
<1>10. Accounted
  BY <1>2, <1>8, <1>9, FS_EmptySet DEF Accounted
<1>11. Screen
  BY <1>2 DEF Screen
<1> QED
  BY <1>1, <1>3, <1>4, <1>5, <1>7, <1>10, <1>11 DEF IInv

(* ... and after every step. *)
LEMMA InvariantKept == IInv /\ [Next]_vars => IInv'
BY TypeKept, InTurnKept, TracerKept, LogKept, AccountedKept, ScreenKept DEF IInv

(* When the status line is gone the books are closed.                      *)
LEMMA BooksAreClosed == IInv => EverythingIsAccounted
<1> SUFFICES ASSUME IInv, main \in {"closing", "report"}
             PROVE  /\ tracer.total = Cardinality(Events) /\ tracer.retries = Cardinality(Retries)
                    /\ tracer.total + history.lost = history.sent
                    /\ tracer.order = <<>> /\ \A r \in Repository : tracer.pending[r] = <<>>
                    /\ Logged => Events \subseteq ToSet(printed.log)
  BY DEF EverythingIsAccounted
<1>1. TypeOK /\ InTurn /\ TracerHolds /\ BlockIsRest /\ LogIsLines /\ Accounted
  BY DEF IInv
<1>2. \A r \in Repository : life[r] \in {"waiting", "over"}
  BY <1>1 DEF InTurn
<1>3. Flying = {}
  <2> SUFFICES ASSUME NEW s \in Flying PROVE FALSE
    OBVIOUS
  <2>1. s \in Scope /\ Requesting(s)
    BY <1>1 DEF Flying, InTurn
  <2> QED
    BY <1>2, <2>1 DEF Requesting, Scope
<1>4. tracer.total + history.lost = history.sent
  <2>1. Cardinality(Flying) = 0
    BY <1>3, FS_EmptySet
  <2>2. tracer.total \in Nat /\ history.lost \in Nat
    BY <1>1 DEF TypeOK, Traced, Recorded
  <2> QED
    BY <1>1, <2>1, <2>2 DEF Accounted
<1>5. \A r \in Repository : tracer.pending[r] = <<>>
  BY <1>1, <1>2 DEF TracerHolds
<1>6. tracer.order = <<>>
  <2>1. tracer.order \in Seq(Repository)
    BY <1>1 DEF TypeOK, Traced
  <2>2. ASSUME tracer.order # <<>> PROVE FALSE
    <3>1. 1 \in DOMAIN tracer.order /\ tracer.order[1] \in Repository
      BY <2>1, <2>2
    <3> QED
      BY <1>1, <1>5, <3>1 DEF TracerHolds
  <2> QED
    BY <2>2
<1>7. ASSUME Logged, NEW e \in Events PROVE e \in ToSet(printed.log)
  <2>0. PICK s \in Scope : \E n \in DOMAIN history.heard[s] : e = Entry("request", s, n)
    BY <1>1, EventFacts
  <2>1. PICK n \in DOMAIN history.heard[s] : e = Entry("request", s, n)
    BY <2>0
  <2>2. s # Instance => s \in Repository /\ life[s] = "over"
    <3>1. s # Instance => s \in Repository
      BY DEF Scope
    <3>2. s # Instance /\ life[s] = "waiting" => history.heard[s] = <<>>
      BY <1>1, <3>1 DEF InTurn
    <3> QED
      BY <1>2, <2>1, <3>1, <3>2
  <2>3. s = block.of => s = Instance
    BY <1>1, <2>2 DEF BlockIsRest
  <2>4. Lines(s) = Len(history.heard[s])
    BY <1>1, <1>7, <2>2, <2>3, LinesAreCounted
  <2>5. n \in 1..Lines(s)
    BY <1>1, <2>1, <2>4, EventFacts
  <2>6. PICK i \in DOMAIN printed.log : printed.log[i] = e
    BY <1>1, <2>1, <2>5 DEF LogIsLines
  <2> QED
    BY <2>6 DEF ToSet
<1> QED
  BY <1>1, <1>4, <1>5, <1>6, <1>7 DEF Accounted

(* The invariant of every behaviour. *)
LEMMA Invariance == Spec => []IInv
BY InvariantHolds, InvariantKept, PTL DEF Spec

(* Types, in every reachable state. *)
THEOREM TerminalTypeCorrect == Spec => []TypeOK
<1>1. IInv => TypeOK
  BY DEF IInv
<1> QED
  BY <1>1, Invariance, PTL

(* However the goroutines of repositories interleave, what tracer.record    *)
(* held of one is written as a block of its own, in order, and once.       *)
THEOREM TracerBlocksAreWhole == Spec => []BlocksAreWhole
<1>1. IInv => BlocksAreWhole
  BY DEF IInv
<1> QED
  BY <1>1, Invariance, PTL

(* The closing line of tracer.summary counts every request that was sent    *)
(* and not cut off, and the log, when there is one, shows each of them.    *)
THEOREM TracerAccountsForAll == Spec => []EverythingIsAccounted
BY BooksAreClosed, Invariance, PTL

(* A redraw covers the line before it, and none follows the erasure: clear  *)
(* waits for the goroutine that draws.                                     *)
THEOREM StatusLineIsErased == Spec => []ScreenIsClean
<1>1. IInv => ScreenIsClean
  BY DEF IInv, Screen, ScreenIsClean
<1> QED
  BY <1>1, Invariance, PTL

(* Neither the log, nor narration, nor the closing line is ever written    *)
(* onto a status line.                                                     *)
THEOREM StatusLineStandsAlone == Spec => LinesStandAlone
<1>1. IInv /\ [Next]_vars => [printed' # printed => line.held = 0]_vars
  BY NothingOnStatusLine DEF IInv
<1> QED
  BY <1>1, Invariance, PTL DEF Spec, LinesStandAlone
=============================================================================
