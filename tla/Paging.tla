-------------------------------- MODULE Paging --------------------------------
(***************************************************************************)
(* getPaged (src/internal/scm/bitbucketdc/client.go): one collection read  *)
(* page by page.  The instance numbers the items and leaves out of a page  *)
(* those the token may not see; it says where the next page starts, says   *)
(* nothing, or points backwards.                                           *)
(***************************************************************************)
EXTENDS Naturals, FiniteSets

CONSTANTS
  Size,      \* items of the collection, numbered from 0
  Hidden,    \* those of them the token may not see
  PageLimit, \* pageLimit, the page size getPaged asks for
  MaxPages   \* maxPages

Item == {k \in 0..Size : k < Size}

ASSUME PagingAssumption ==
  /\ Size \in Nat
  /\ Hidden \subseteq Item
  /\ PageLimit \in Nat
  /\ MaxPages \in Nat

Visible == Item \ Hidden

VARIABLES
  pages,  \* getPaged's loop counter
  start,  \* the position it asks for next
  got,    \* how many copies of each item are in out
  walk    \* "reading", "complete", or the error
walkVars == <<pages, start, got, walk>>

WalkInit ==
  /\ pages = 0
  /\ start = 0
  /\ got = [k \in Item |-> 0]
  /\ walk = "reading"

(* The values of a page that ends before position end. *)
Values(end) == {k \in Visible : start <= k /\ k < end}

(* Where the instance may end a page: its own limit may be lower than the  *)
(* one asked for, and a page may even be empty.                            *)
Ends == {end \in start..Size : end - start <= PageLimit}

(* What it may send as nextPageStart.  Only an endpoint that leaves nothing *)
(* out of the page may send none, or one that does not move on; 0 stands   *)
(* for both, since neither is greater than start.                          *)
NextPageStarts(end) ==
  {end} \cup (IF Hidden \cap start..(end - 1) = {} THEN {0} ELSE {})

Asks == walk = "reading" /\ pages < MaxPages

Appended(values) == got' = [k \in Item |-> IF k \in values THEN got[k] + 1 ELSE got[k]]

(* isLastPage: the walk ends.  The instance says so only at the end.       *)
LastPage ==
  /\ Asks
  /\ Size \in Ends
  /\ Appended(Values(Size))
  /\ walk' = "complete"
  /\ UNCHANGED <<pages, start>>

(* Mutation: what the instance says of the next page is ignored.           *)
ResumeByCount(end, next) == start + Cardinality(Values(end))

(* Where the walk goes on after a page that is not the last. *)
Resume(end, next) ==
  IF next > start THEN next ELSE start + Cardinality(Values(end))

(* Mutations: a page that does not say where the next one is passes for    *)
(* the last, or what the page says is followed blindly and without end.    *)
AnotherPageSilentEnd(end, next) ==
  /\ Asks
  /\ Appended(Values(end))
  /\ IF next > start
     THEN start' = next /\ pages' = pages + 1 /\ UNCHANGED walk
     ELSE walk' = "complete" /\ UNCHANGED <<pages, start>>

AnotherPageBlindly(end, next) ==
  /\ Asks
  /\ start' = next
  /\ UNCHANGED <<pages, got, walk>>

(* Not the last page, or an endpoint that never says which one is.         *)
AnotherPage(end, next) ==
  /\ Asks
  /\ Appended(Values(end))
  /\ IF Resume(end, next) > start
     THEN /\ start' = Resume(end, next)
          /\ pages' = pages + 1
          /\ UNCHANGED walk
     ELSE /\ walk' = "stuck"
          /\ UNCHANGED <<pages, start>>

(* An item that does not decode ends the walk between two items. *)
BadItem(end) ==
  /\ Asks
  /\ Appended(Values(end))
  /\ walk' = "undecodable"
  /\ UNCHANGED <<pages, start>>

(* Client.get failed, after its own retries. *)
Refused ==
  /\ Asks
  /\ walk' = "refused"
  /\ UNCHANGED <<pages, start, got>>

TooManyPages ==
  /\ walk = "reading" /\ pages = MaxPages
  /\ walk' = "exhausted"
  /\ UNCHANGED <<pages, start, got>>

PageStep ==
  \/ LastPage
  \/ \E end \in Ends : \E next \in NextPageStarts(end) : AnotherPage(end, next)
  \/ \E end \in Ends : BadItem(end)
  \/ Refused
  \/ TooManyPages

WalkOver == walk # "reading" /\ UNCHANGED walkVars

WalkNext == PageStep \/ WalkOver

WalkSpec == WalkInit /\ [][WalkNext]_walkVars

(* Each request returns: Request shows it. *)
FairWalk == WalkSpec /\ WF_walkVars(PageStep)

-----------------------------------------------------------------------------
WalkTypeOK ==
  /\ pages \in 0..MaxPages
  /\ start \in 0..Size
  /\ got \in [Item -> Nat]
  /\ walk \in {"reading", "complete", "stuck", "undecodable", "refused",
               "exhausted"}

(* A list returned without an error is the whole list: every item the      *)
(* token may see is in it once, whatever the instance left out of the      *)
(* pages, however short it cut them, and whether it said where to go on or *)
(* not.  A short list would read as a branch nobody protected.             *)
CompleteIsWhole ==
  walk = "complete" =>
    \A k \in Item : got[k] = IF k \in Visible THEN 1 ELSE 0

(* Every page that is not the last moves the walk on, past what it has     *)
(* read and never past anything it has not.                                *)
NothingSkippedNorReread ==
  [][start' # start =>
       /\ start' > start
       /\ \A k \in Item : got'[k] = IF k \in Visible /\ k < start' THEN 1 ELSE 0]_walkVars

(* The walk returns, even from an instance that always has another page.   *)
WalkReturns == <>(walk # "reading")
===============================================================================
