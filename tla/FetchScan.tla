------------------------------ MODULE FetchScan ------------------------------
(***************************************************************************)
(* Fetcher.Fetch (src/internal/scm/bitbucketdc/fetcher.go) from the        *)
(* credential probe to the snapshot: one goroutine per project, one per    *)
(* selected repository, two channels used as semaphores, and a context     *)
(* that Ctrl-C or scan.maxDuration may cancel between any two steps.       *)
(*                                                                         *)
(* A request is one step.  It is placed where its answer is settled: a     *)
(* request under way when the context is cancelled either counts as        *)
(* answered before it or is lost to it, and touches only its goroutine's   *)
(* own state.  Where a goroutine looks at the context and then acts on what *)
(* it saw, in view of others, the look and the act are two steps.          *)
(***************************************************************************)
EXTENDS ScanScope, Naturals

CONSTANTS
  Concurrency,   \* FetchOptions.Concurrency
  Reads          \* how many settings are read of a repository not archived

ASSUME FetchAssumption == Concurrency \in Nat \ {0} /\ Reads \in Nat \ {0}

VARIABLES
  cancelled, outcome, snapshot, \* as in ScanContract
  unlisted,     \* Fetcher.unlisted
  phase,        \* how far Fetch itself is
  orgLeft,      \* lists fetchOrganization has still to ask for
  orgDamaged,   \* one of them was lost to the cancellation
  proj,         \* each project's goroutine
  repo,         \* each repository's goroutine
  left,         \* settings its fetchRepository has still to read
  damaged,      \* repositories that lost a read to the cancellation
  projectSlots, \* tokens in the channel of that name
  repoSlots     \* tokens in Fetcher.repoSlots, shared by all projects

fetchVars == <<phase, orgLeft, orgDamaged>>
poolVars  == <<proj, repo, left, damaged, projectSlots, repoSlots>>
vars == <<cancelled, unlisted, outcome, snapshot, fetchVars, poolVars>>

(* fetchOrganization asks for administrators, their grants, the licensed   *)
(* users and the user directory.                                           *)
OrgLists == 4

Init ==
  /\ cancelled = FALSE
  /\ unlisted = {}
  /\ outcome = "pending"
  /\ snapshot = {}
  /\ phase = "credentials"
  /\ orgLeft = OrgLists
  /\ orgDamaged = FALSE
  /\ proj = [p \in Project |-> "none"]
  /\ repo = [r \in Repo |-> "none"]
  /\ left = [r \in Repo |-> 0]
  /\ damaged = {}
  /\ projectSlots = 0
  /\ repoSlots = 0

(* Ctrl-C, or scan.maxDuration, while the scan is running. *)
Cancel ==
  /\ outcome = "pending"
  /\ ~cancelled
  /\ cancelled' = TRUE
  /\ UNCHANGED <<unlisted, outcome, snapshot, fetchVars, poolVars>>

-----------------------------------------------------------------------------
(* Fetch, on the caller's goroutine. *)

Fail(why) ==
  /\ outcome' = why
  /\ phase' = "returned"
  /\ UNCHANGED <<cancelled, unlisted, snapshot, orgLeft, orgDamaged, poolVars>>

(* verifyCredentials: an answer other than success ends the scan. *)
CredentialsAccepted ==
  /\ phase = "credentials" /\ ~cancelled
  /\ phase' = "organization"
  /\ UNCHANGED <<cancelled, unlisted, outcome, snapshot, orgLeft, orgDamaged, poolVars>>

CredentialsRefused ==
  /\ phase = "credentials"
  /\ Fail("credentials")

(* One list of fetchOrganization.  None is fatal, so a cancellation here   *)
(* is noted as missing data and the scan goes on.                          *)
ReadOrganization ==
  /\ phase = "organization" /\ orgLeft > 0
  /\ orgLeft' = orgLeft - 1
  /\ orgDamaged' = (orgDamaged \/ cancelled)
  /\ UNCHANGED <<cancelled, unlisted, outcome, snapshot, phase, poolVars>>

(* fetchProjects gets each named project, or lists them all, and starts a  *)
(* goroutine for each.                                                     *)
ProjectsListed ==
  /\ phase = "organization" /\ orgLeft = 0 /\ ~cancelled
  /\ phase' = "fetching"
  /\ proj' = [p \in Project |-> IF p \in Visited THEN "queued" ELSE "none"]
  /\ UNCHANGED <<cancelled, unlisted, outcome, snapshot, orgLeft, orgDamaged,
                 repo, left, damaged, projectSlots, repoSlots>>

ProjectsRefused ==
  /\ phase = "organization" /\ orgLeft = 0
  /\ Fail("projects")

(* wg.Wait, then the first error, then the --repository targets that no    *)
(* project produced, then the snapshot.                                    *)

(* Mutation: the first error is returned at once. *)
AllProjectsSettledOrOneFailed ==
  \/ \E p \in Visited : proj[p] = "failed"
  \/ \A p \in Visited : proj[p] = "done"

AllProjectsSettled == \A p \in Visited : proj[p] \in {"done", "failed"}
Found == UNION {Selected(p) : p \in {q \in Visited \ unlisted : proj[q] = "done"}}

FailCancelled ==
  /\ phase = "fetching" /\ AllProjectsSettled
  /\ \E p \in Visited : proj[p] = "failed"
  /\ Fail("cancelled")

(* Mutation: a target is looked for in projects that would not list, too. *)
FailMissingUnlistedToo ==
  /\ phase = "fetching" /\ AllProjectsSettled
  /\ \A p \in Visited : proj[p] # "failed"
  /\ Missing(Found, {}) # {}
  /\ Fail("missing")

FailMissing ==
  /\ phase = "fetching" /\ AllProjectsSettled
  /\ \A p \in Visited : proj[p] # "failed"
  /\ Missing(Found, unlisted) # {}
  /\ Fail("missing")

ReturnSnapshot ==
  /\ phase = "fetching" /\ AllProjectsSettled
  /\ \A p \in Visited : proj[p] # "failed"
  /\ Missing(Found, unlisted) = {}
  /\ outcome' = "snapshot"
  /\ snapshot' = Found
  /\ phase' = "returned"
  /\ UNCHANGED <<cancelled, unlisted, orgLeft, orgDamaged, poolVars>>

-----------------------------------------------------------------------------
(* The goroutine of project p. *)

(* select: a free slot and a cancelled context are chosen between freely. *)
TakeProjectSlot(p) ==
  /\ proj[p] = "queued"
  /\ projectSlots < Concurrency
  /\ projectSlots' = projectSlots + 1
  /\ proj' = [proj EXCEPT ![p] = "listing"]
  /\ UNCHANGED <<cancelled, unlisted, outcome, snapshot, fetchVars,
                 repo, left, damaged, repoSlots>>

GiveUpProjectSlot(p) ==
  /\ proj[p] = "queued" /\ cancelled
  /\ proj' = [proj EXCEPT ![p] = "failed"]
  /\ UNCHANGED <<cancelled, unlisted, outcome, snapshot, fetchVars,
                 repo, left, damaged, projectSlots, repoSlots>>

(* Mutation: the slot is not given back. *)
LeaveProjectHolding(p, how) ==
  /\ proj' = [proj EXCEPT ![p] = how]
  /\ UNCHANGED projectSlots

(* The deferred release, with what the goroutine leaves behind. *)
LeaveProject(p, how) ==
  /\ proj' = [proj EXCEPT ![p] = how]
  /\ projectSlots' = projectSlots - 1

(* fetchRepositories: the list arrives, and each selected repository gets  *)
(* a goroutine.                                                            *)
RepositoriesListed(p) ==
  /\ proj[p] = "listing" /\ ~cancelled
  /\ proj' = [proj EXCEPT ![p] = "fetching"]
  /\ repo' = [r \in Repo |-> IF r \in Selected(p) THEN "queued" ELSE repo[r]]
  /\ UNCHANGED <<cancelled, unlisted, outcome, snapshot, fetchVars,
                 left, damaged, projectSlots, repoSlots>>

(* Mutation: the context is not looked at. *)
RepositoriesRefusedAnyway(p) ==
  /\ proj[p] = "listing"
  /\ proj' = [proj EXCEPT ![p] = "refused"]
  /\ UNCHANGED <<cancelled, unlisted, outcome, snapshot, fetchVars,
                 repo, left, damaged, projectSlots, repoSlots>>

(* The list fails, and the context says that the failure is the list's own. *)
RepositoriesRefused(p) ==
  /\ proj[p] = "listing" /\ ~cancelled
  /\ proj' = [proj EXCEPT ![p] = "refused"]
  /\ UNCHANGED <<cancelled, unlisted, outcome, snapshot, fetchVars,
                 repo, left, damaged, projectSlots, repoSlots>>

(* The project is recorded as unlisted and contributes nothing, though the  *)
(* context may have been cancelled since it was looked at.                 *)
RecordUnlisted(p) ==
  /\ proj[p] = "refused"
  /\ unlisted' = unlisted \cup {p}
  /\ LeaveProject(p, "done")
  /\ UNCHANGED <<cancelled, outcome, snapshot, fetchVars,
                 repo, left, damaged, repoSlots>>

(* The list fails and the context is cancelled: that is the error. *)
ListingCancelled(p) ==
  /\ proj[p] = "listing" /\ cancelled
  /\ LeaveProject(p, "failed")
  /\ UNCHANGED <<cancelled, unlisted, outcome, snapshot, fetchVars,
                 repo, left, damaged, repoSlots>>

(* Mutation: neither the repositories' errors nor the context are looked at. *)
JoinProjectForgiving(p) ==
  /\ proj[p] = "fetching"
  /\ \A r \in Selected(p) : repo[r] \in {"kept", "lost"}
  /\ LeaveProject(p, "done")
  /\ UNCHANGED <<cancelled, unlisted, outcome, snapshot, fetchVars,
                 repo, left, damaged, repoSlots>>

(* The inner wg.Wait: an error of any repository, or a context cancelled   *)
(* by now, fails the project; otherwise it is whole.                       *)
JoinProject(p) ==
  /\ proj[p] = "fetching"
  /\ \A r \in Selected(p) : repo[r] \in {"kept", "lost"}
  /\ LeaveProject(p, IF cancelled \/ (\E r \in Selected(p) : repo[r] = "lost")
                     THEN "failed" ELSE "done")
  /\ UNCHANGED <<cancelled, unlisted, outcome, snapshot, fetchVars,
                 repo, left, damaged, repoSlots>>

-----------------------------------------------------------------------------
(* The goroutine of repository r. *)

(* Mutation: a semaphore for each project instead of one for all. *)
TakeRepoSlotPerProject(r) ==
  /\ repo[r] = "queued"
  /\ Cardinality({q \in Repo : repo[q] \in {"reading", "whole"} /\ ProjectOf[q] = ProjectOf[r]})
       < Concurrency
  /\ repoSlots' = repoSlots + 1
  /\ repo' = [repo EXCEPT ![r] = "reading"]
  /\ left' = [left EXCEPT ![r] = IF r \in Archived THEN 1 ELSE 1 + Reads]
  /\ UNCHANGED <<cancelled, unlisted, outcome, snapshot, fetchVars,
                 proj, damaged, projectSlots>>

(* Mutation: projects and repositories share one channel. *)
RepoSlotFreeOfAll == projectSlots + repoSlots < Concurrency

RepoSlotFree == repoSlots < Concurrency

TakeRepoSlot(r) ==
  /\ repo[r] = "queued"
  /\ RepoSlotFree
  /\ repoSlots' = repoSlots + 1
  /\ repo' = [repo EXCEPT ![r] = "reading"]
  /\ left' = [left EXCEPT ![r] = IF r \in Archived THEN 1 ELSE 1 + Reads]
  /\ UNCHANGED <<cancelled, unlisted, outcome, snapshot, fetchVars,
                 proj, damaged, projectSlots>>

GiveUpRepoSlot(r) ==
  /\ repo[r] = "queued" /\ cancelled
  /\ repo' = [repo EXCEPT ![r] = "lost"]
  /\ UNCHANGED <<cancelled, unlisted, outcome, snapshot, fetchVars,
                 proj, left, damaged, projectSlots, repoSlots>>

(* One read of fetchRepository, base access first.  Its failure is noted   *)
(* as unavailable data and the next read follows whatever happened.        *)
ReadSetting(r) ==
  /\ repo[r] = "reading" /\ left[r] > 0
  /\ left' = [left EXCEPT ![r] = @ - 1]
  /\ damaged' = IF cancelled THEN damaged \cup {r} ELSE damaged
  /\ UNCHANGED <<cancelled, unlisted, outcome, snapshot, fetchVars,
                 proj, repo, projectSlots, repoSlots>>

(* Mutation: what was read is taken for whole without a look at the context. *)
FinishRepositoryAnyway(r) ==
  /\ repo[r] = "reading" /\ left[r] = 0
  /\ repo' = [repo EXCEPT ![r] = "whole"]
  /\ UNCHANGED <<cancelled, unlisted, outcome, snapshot, fetchVars,
                 proj, left, damaged, projectSlots, repoSlots>>

(* fetchRepository returns what it read with ctx.Err as it is then.  With   *)
(* one the goroutine notes the error and leaves.                           *)
FinishRepository(r) ==
  /\ repo[r] = "reading" /\ left[r] = 0
  /\ IF cancelled
     THEN repo' = [repo EXCEPT ![r] = "lost"] /\ repoSlots' = repoSlots - 1
     ELSE repo' = [repo EXCEPT ![r] = "whole"] /\ UNCHANGED repoSlots
  /\ UNCHANGED <<cancelled, unlisted, outcome, snapshot, fetchVars,
                 proj, left, damaged, projectSlots>>

(* Without one the repository is stored.  onRepositoryDone is called in     *)
(* between, and the context may be cancelled by then.                      *)
StoreRepository(r) ==
  /\ repo[r] = "whole"
  /\ repo' = [repo EXCEPT ![r] = "kept"]
  /\ repoSlots' = repoSlots - 1
  /\ UNCHANGED <<cancelled, unlisted, outcome, snapshot, fetchVars,
                 proj, left, damaged, projectSlots>>

-----------------------------------------------------------------------------
MainStep ==
  \/ CredentialsAccepted \/ CredentialsRefused
  \/ ReadOrganization
  \/ ProjectsListed \/ ProjectsRefused
  \/ FailCancelled \/ FailMissing \/ ReturnSnapshot

ProjectStep(p) ==
  \/ TakeProjectSlot(p) \/ GiveUpProjectSlot(p)
  \/ RepositoriesListed(p) \/ RepositoriesRefused(p) \/ RecordUnlisted(p)
  \/ ListingCancelled(p) \/ JoinProject(p)

RepoStep(r) ==
  \/ TakeRepoSlot(r) \/ GiveUpRepoSlot(r)
  \/ ReadSetting(r) \/ FinishRepository(r) \/ StoreRepository(r)

(* Fetch has returned; nothing is left to do. *)
Returned == phase = "returned" /\ UNCHANGED vars

Next ==
  \/ Cancel
  \/ MainStep
  \/ \E p \in Project : ProjectStep(p)
  \/ \E r \in Repo : RepoStep(r)
  \/ Returned

Spec == Init /\ [][Next]_vars

(* Every request is answered, times out or is abandoned (the client bounds *)
(* each attempt and the number of attempts), and Go runs every runnable    *)
(* goroutine, so each goroutine's next step is eventually taken.  Nothing  *)
(* says the context is ever cancelled.                                     *)
Fairness ==
  /\ WF_vars(MainStep)
  /\ \A p \in Project : WF_vars(ProjectStep(p))
  /\ \A r \in Repo : WF_vars(RepoStep(r))

FairSpec == Spec /\ Fairness

-----------------------------------------------------------------------------
Reading == {r \in Repo : repo[r] \in {"reading", "whole"}}
Kept    == {r \in Repo : repo[r] = "kept"}

(* What a look at the context has settled: repositories read whole and      *)
(* projects that would not list, recorded as that yet or not.              *)
Whole      == {r \in Repo : repo[r] \in {"whole", "kept"}}
WrittenOff == unlisted \cup {p \in Project : proj[p] = "refused"}

TypeOK ==
  /\ cancelled \in BOOLEAN
  /\ unlisted \subseteq Visited
  /\ outcome \in {"pending", "snapshot"} \cup Failures
  /\ snapshot \subseteq Existing
  /\ phase \in {"credentials", "organization", "fetching", "returned"}
  /\ orgLeft \in 0..OrgLists
  /\ orgDamaged \in BOOLEAN
  /\ proj \in [Project -> {"none", "queued", "listing", "refused", "fetching", "done", "failed"}]
  /\ repo \in [Repo -> {"none", "queued", "reading", "whole", "kept", "lost"}]
  /\ left \in [Repo -> 0..(1 + Reads)]
  /\ damaged \subseteq Repo
  /\ projectSlots \in 0..Concurrency
  /\ repoSlots \in 0..Concurrency

(* However many projects are under way, no more than Concurrency           *)
(* repositories are being read at once: the bound README.md and            *)
(* FetchOptions.Concurrency give, which holds across projects only because *)
(* they share one channel.                                                 *)
RepositoryBound == Cardinality(Reading) <= Concurrency

(* A snapshot is the whole of what was asked for: every selected           *)
(* repository of every visited project was stored, save those of the       *)
(* projects recorded as unlisted, and none of the slots filled by index is *)
(* handed back empty.                                                      *)
SnapshotComplete ==
  outcome = "snapshot" =>
    /\ snapshot = Coverage(unlisted)
    /\ snapshot \subseteq Kept

(* No data lost to a cancellation reaches a snapshot, where it would read  *)
(* as settings the token may not see: neither a repository's nor the       *)
(* organization's, although both fetches note the loss and carry on.       *)
NothingLostToCancellation ==
  outcome = "snapshot" => ~orgDamaged /\ snapshot \cap damaged = {}

(* A snapshot is all that was asked for, and all of it was read: neither    *)
(* an empty slot nor an interrupted read is in it.                         *)
SnapshotIsWhole == SnapshotComplete /\ NothingLostToCancellation

(* The scan fails for a cause of its own and never for a repository's      *)
(* sake: after the project list is read, only a cancellation or a          *)
(* --repository nobody found can end it without a snapshot.                *)
FailureHasCause ==
  /\ outcome = "cancelled" => cancelled
  /\ outcome = "missing" => \E t \in Targets : t \notin Kept /\ ProjectOf[t] \notin unlisted
  /\ outcome \in {"credentials", "projects"} => \A r \in Repo : repo[r] = "none"

(* When Fetch returns, every goroutine it started has finished and both    *)
(* channels are empty: nothing writes to a snapshot already handed over.   *)
NothingRunsAfterReturn ==
  outcome # "pending" =>
    /\ \A p \in Project : proj[p] \in {"none", "done", "failed"}
    /\ \A r \in Repo : repo[r] \in {"none", "kept", "lost"}
    /\ projectSlots = 0 /\ repoSlots = 0

(* A cancellation freezes what the scan has.  No repository is taken for    *)
(* whole after it and no project is written off because of it, whichever    *)
(* branch a goroutine's select takes: what is stored or recorded later was  *)
(* settled before.  So a scan that was cancelled still ends in a snapshot   *)
(* only if all that it owes had been read whole by then.                   *)
CancellationFreezes ==
  [][cancelled =>
       /\ Whole' = Whole /\ WrittenOff' = WrittenOff
       /\ outcome' = "snapshot" => Coverage(WrittenOff) \subseteq Whole]_vars

(* Waiting never goes in a circle.  A project keeps its slot while it waits *)
(* for its repositories, they wait for slots of the other channel, and      *)
(* Fetch for all of them; yet somebody can always go on who waits for       *)
(* nothing, or only for an answer of the instance.                         *)
SomeoneGoesOn ==
  phase = "fetching" =>
    \/ AllProjectsSettled
    \/ \E p \in Visited :
         \/ proj[p] = "queued" /\ (cancelled \/ projectSlots < Concurrency)
         \/ proj[p] \in {"listing", "refused"}
         \/ proj[p] = "fetching" /\ \A r \in Selected(p) : repo[r] \in {"kept", "lost"}
    \/ \E r \in Repo :
         \/ repo[r] = "queued" /\ (cancelled \/ RepoSlotFree)
         \/ repo[r] \in {"reading", "whole"}

(* Fetch returns, cancelled or not: no goroutine waits for a slot that     *)
(* another one never gives back.                                           *)
Terminates == <>(outcome # "pending")

(* What the command sees of a scan are the variables of ScanContract; the  *)
(* goroutines, the slots and the reads are hidden.  A project is set aside  *)
(* when the context says so, and recorded by the time Fetch returns.       *)
Contract == INSTANCE ScanContract WITH
  cancelled <- cancelled, unlisted <- WrittenOff, outcome <- outcome, snapshot <- snapshot

(* The snapshot, the failure and the unlisted projects are what            *)
(* ScanContract promises.                                                  *)
ImplementsContract == Contract!Spec
==============================================================================
