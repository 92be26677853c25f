--------------------------- MODULE FetchScanProofs ---------------------------
(* Proofs about FetchScan, for any projects, repositories and bound. *)
EXTENDS FetchScan, FiniteSetTheorems, TLAPS

Holding == {p \in Project : proj[p] \in {"listing", "refused", "fetching"}}

(* The channels hold one token for each goroutine between its select and   *)
(* its deferred release.                                                   *)
SlotsCounted ==
  /\ projectSlots = Cardinality(Holding)
  /\ repoSlots = Cardinality(Reading)

(* Before the project list arrives no goroutine exists. *)
NotStarted ==
  /\ unlisted = {} /\ damaged = {}
  /\ proj = [p \in Project |-> "none"]
  /\ repo = [r \in Repo |-> "none"]

(* A repository's goroutine exists only while its project's waits for it,  *)
(* and only for a selected repository.                                     *)
Ownership ==
  \A r \in Repo : repo[r] # "none" =>
    /\ ProjectOf[r] \in Visited /\ r \in Selected(ProjectOf[r])
    /\ ProjectOf[r] \notin unlisted
    /\ proj[ProjectOf[r]] \in {"fetching", "done", "failed"}
    /\ repo[r] \in {"queued", "reading", "whole"} => proj[ProjectOf[r]] = "fetching"

(* What a settled project left behind. *)
Settled ==
  \A p \in Project :
    /\ p \in unlisted => proj[p] = "done"
    /\ proj[p] = "done" => p \in Visited
    /\ proj[p] = "done" /\ p \notin unlisted => Selected(p) \subseteq Kept

(* Only a cancellation loses anything, and what it damaged is never whole. *)
Losses ==
  /\ orgDamaged => cancelled
  /\ \A p \in Project : proj[p] = "failed" => cancelled
  /\ \A r \in Repo : repo[r] = "lost" \/ r \in damaged => cancelled
  /\ \A r \in damaged : repo[r] \notin {"whole", "kept"}

(* Fetch itself, in step with its goroutines. *)
Progression ==
  /\ phase = "returned" <=> outcome # "pending"
  /\ outcome # "snapshot" => snapshot = {}
  /\ phase \in {"credentials", "organization"} => NotStarted
  /\ phase = "fetching" => ~orgDamaged /\ \A p \in Visited : proj[p] # "none"
  /\ \A p \in Project : proj[p] # "none" => p \in Visited
  /\ outcome \in {"credentials", "projects"} => NotStarted
  /\ outcome \in {"cancelled", "missing", "snapshot"} => AllProjectsSettled
  /\ outcome = "cancelled" => cancelled
  /\ outcome = "missing" => \E t \in Targets : t \notin Kept /\ ProjectOf[t] \notin unlisted
  /\ outcome = "snapshot" =>
       /\ ~orgDamaged
       /\ snapshot = Coverage(unlisted) /\ snapshot \subseteq Kept

IInv ==
  /\ TypeOK
  /\ SlotsCounted
  /\ Ownership
  /\ Settled
  /\ Losses
  /\ Progression

(* What ScopeAssumption says of sizes, for the facts on cardinality. *)
LEMMA FiniteScope == IsFiniteSet(Project) /\ IsFiniteSet(Repo)
BY ScopeAssumption

(* Selected and Visited stay inside what there is. *)
LEMMA ScopeFacts ==
  /\ Visited \subseteq Project
  /\ \A p \in Project : Selected(p) \subseteq Repo /\ Selected(p) \subseteq Existing
  /\ \A p \in Project : \A r \in Selected(p) : ProjectOf[r] = p
BY ScopeAssumption DEF Visited, Named, Selected

(* Once every goroutine has settled and none failed, what the projects     *)
(* hold is what the scan owes outside the unlisted ones, all of it stored. *)
LEMMA FoundIsCoverage ==
  ASSUME IInv, AllProjectsSettled, \A p \in Visited : proj[p] # "failed"
  PROVE  /\ Found = Coverage(unlisted)
         /\ Found \subseteq Kept
         /\ Found \subseteq Existing
<1>1. \A p \in Visited : proj[p] = "done"
  BY DEF AllProjectsSettled
<1>2. Found = Coverage(unlisted)
  BY <1>1 DEF Found, Coverage
<1>3. \A p \in Visited \ unlisted : Selected(p) \subseteq Kept
  BY <1>1, ScopeFacts DEF IInv, Settled
<1> QED
  BY <1>2, <1>3, ScopeFacts DEF Found

(* The arithmetic of a semaphore: one token more, one token less. *)
LEMMA TakeToken ==
  ASSUME NEW S, IsFiniteSet(S), NEW T \in SUBSET S, NEW x \in S \ T
  PROVE  Cardinality(T \cup {x}) = Cardinality(T) + 1
BY FS_Subset, FS_AddElement

(* The deferred release of a token, likewise. *)
LEMMA ReturnToken ==
  ASSUME NEW S, IsFiniteSet(S), NEW T \in SUBSET S, NEW x \in T
  PROVE  /\ Cardinality(T \ {x}) = Cardinality(T) - 1
         /\ Cardinality(T) \in Nat \ {0}
BY FS_Subset, FS_RemoveElement, FS_CardinalityType, FS_EmptySet

(* Fetch starts with the invariant. *)
LEMMA InitIInv == Init => IInv
<1> SUFFICES ASSUME Init PROVE IInv
  OBVIOUS
<1>1. Holding = {} /\ Reading = {}
  BY DEF Init, Holding, Reading
<1>2. SlotsCounted
  BY <1>1, FS_EmptySet DEF Init, SlotsCounted
<1>3. TypeOK
  <2>1. left \in [Repo -> 0..(1 + Reads)] /\ projectSlots \in 0..Concurrency
    BY FetchAssumption DEF Init
  <2>2. orgLeft \in 0..OrgLists /\ repoSlots \in 0..Concurrency
    BY FetchAssumption DEF Init, OrgLists
  <2> QED
    BY <2>1, <2>2 DEF Init, TypeOK
<1>4. Ownership /\ Settled /\ Losses /\ Progression
  BY DEF Init, Ownership, Settled, Losses, Kept, Progression, NotStarted
<1> QED
  BY <1>2, <1>3, <1>4 DEF IInv

(* Each action below keeps the invariant; first Ctrl-C or the deadline. *)
LEMMA CancelStep ==
  ASSUME IInv, Cancel PROVE IInv'
<1>1. TypeOK'
  BY FetchAssumption DEF IInv, TypeOK, fetchVars, poolVars, Failures, OrgLists,
     Cancel
<1>2. SlotsCounted'
  BY DEF IInv, SlotsCounted, Holding, Reading, poolVars, Cancel
<1>3. Ownership'
  BY DEF IInv, TypeOK, Ownership, poolVars, Cancel
<1>4. Settled'
  BY DEF IInv, TypeOK, Settled, Kept, poolVars, Cancel
<1>5. Losses'
  BY DEF IInv, TypeOK, Losses, Kept, fetchVars, poolVars, Cancel
<1>6. Progression'
  BY DEF IInv, TypeOK, Progression, NotStarted, Kept, fetchVars, poolVars,
     AllProjectsSettled, Cancel
<1> QED
  BY <1>1, <1>2, <1>3, <1>4, <1>5, <1>6 DEF IInv

(* The preflight of verifyCredentials succeeds. *)
LEMMA CredentialsAcceptedStep ==
  ASSUME IInv, CredentialsAccepted PROVE IInv'
<1>1. TypeOK'
  BY FetchAssumption DEF IInv, TypeOK, poolVars, Failures, OrgLists,
     CredentialsAccepted
<1>2. SlotsCounted'
  BY DEF IInv, SlotsCounted, Holding, Reading, poolVars, CredentialsAccepted
<1>3. Ownership'
  BY DEF IInv, TypeOK, Ownership, poolVars, CredentialsAccepted
<1>4. Settled'
  BY DEF IInv, TypeOK, Settled, Kept, poolVars, CredentialsAccepted
<1>5. Losses'
  BY DEF IInv, TypeOK, Losses, Kept, poolVars, CredentialsAccepted
<1>6. Progression'
  BY DEF IInv, TypeOK, Progression, NotStarted, Kept, poolVars,
     AllProjectsSettled, CredentialsAccepted
<1> QED
  BY <1>1, <1>2, <1>3, <1>4, <1>5, <1>6 DEF IInv

(* It fails, and no goroutine was ever started. *)
LEMMA CredentialsRefusedStep ==
  ASSUME IInv, CredentialsRefused PROVE IInv'
<1>1. TypeOK'
  BY FetchAssumption DEF IInv, TypeOK, poolVars, Failures, OrgLists,
     CredentialsRefused, Fail
<1>2. SlotsCounted'
  BY DEF IInv, SlotsCounted, Holding, Reading, poolVars, CredentialsRefused,
     Fail
<1>3. Ownership'
  BY DEF IInv, TypeOK, Ownership, poolVars, CredentialsRefused, Fail
<1>4. Settled'
  BY DEF IInv, TypeOK, Settled, Kept, poolVars, CredentialsRefused, Fail
<1>5. Losses'
  BY DEF IInv, TypeOK, Losses, Kept, poolVars, CredentialsRefused, Fail
<1>6. Progression'
  BY DEF IInv, TypeOK, Progression, NotStarted, Kept, poolVars,
     AllProjectsSettled, CredentialsRefused, Fail
<1> QED
  BY <1>1, <1>2, <1>3, <1>4, <1>5, <1>6 DEF IInv

(* One list of fetchOrganization, lost or not. *)
LEMMA ReadOrganizationStep ==
  ASSUME IInv, ReadOrganization PROVE IInv'
<1>1. TypeOK'
  BY FetchAssumption DEF IInv, TypeOK, poolVars, Failures, OrgLists,
     ReadOrganization
<1>2. SlotsCounted'
  BY DEF IInv, SlotsCounted, Holding, Reading, poolVars, ReadOrganization
<1>3. Ownership'
  BY DEF IInv, TypeOK, Ownership, poolVars, ReadOrganization
<1>4. Settled'
  BY DEF IInv, TypeOK, Settled, Kept, poolVars, ReadOrganization
<1>5. Losses'
  BY DEF IInv, TypeOK, Losses, Kept, poolVars, ReadOrganization
<1>6. Progression'
  BY DEF IInv, TypeOK, Progression, NotStarted, Kept, poolVars,
     AllProjectsSettled, ReadOrganization
<1> QED
  BY <1>1, <1>2, <1>3, <1>4, <1>5, <1>6 DEF IInv

(* The project goroutines are started, none of them with a slot. *)
LEMMA ProjectsListedStep ==
  ASSUME IInv, ProjectsListed PROVE IInv'
<1>1. TypeOK'
  BY FetchAssumption DEF IInv, TypeOK, poolVars, Progression, NotStarted,
     Failures, OrgLists, ProjectsListed
<1>2. SlotsCounted'
  <2>1. Holding' = Holding /\ Reading' = Reading
    BY DEF IInv, Progression, NotStarted, Holding, Reading, ProjectsListed
  <2> QED
    BY <2>1 DEF IInv, SlotsCounted, ProjectsListed
<1>3. Ownership'
  BY DEF IInv, TypeOK, Ownership, poolVars, Progression, NotStarted,
     ProjectsListed
<1>4. Settled'
  BY DEF IInv, TypeOK, Settled, Kept, poolVars, Progression, NotStarted,
     ProjectsListed
<1>5. Losses'
  BY DEF IInv, TypeOK, Losses, Kept, poolVars, Progression, NotStarted,
     ProjectsListed
<1>6. Progression'
  <2>1. ~orgDamaged /\ phase' = "fetching" /\ outcome = "pending" /\ snapshot = {}
    BY DEF IInv, TypeOK, Losses, Progression, ProjectsListed
  <2> QED
    BY <2>1, ScopeFacts DEF IInv, TypeOK, Progression, ProjectsListed
<1> QED
  BY <1>1, <1>2, <1>3, <1>4, <1>5, <1>6 DEF IInv

(* The project list fails, and no goroutine was ever started. *)
LEMMA ProjectsRefusedStep ==
  ASSUME IInv, ProjectsRefused PROVE IInv'
<1>1. TypeOK'
  BY FetchAssumption DEF IInv, TypeOK, poolVars, Failures, OrgLists,
     ProjectsRefused, Fail
<1>2. SlotsCounted'
  BY DEF IInv, SlotsCounted, Holding, Reading, poolVars, ProjectsRefused, Fail
<1>3. Ownership'
  BY DEF IInv, TypeOK, Ownership, poolVars, ProjectsRefused, Fail
<1>4. Settled'
  BY DEF IInv, TypeOK, Settled, Kept, poolVars, ProjectsRefused, Fail
<1>5. Losses'
  BY DEF IInv, TypeOK, Losses, Kept, poolVars, ProjectsRefused, Fail
<1>6. Progression'
  BY DEF IInv, TypeOK, Progression, NotStarted, Kept, poolVars,
     AllProjectsSettled, ProjectsRefused, Fail
<1> QED
  BY <1>1, <1>2, <1>3, <1>4, <1>5, <1>6 DEF IInv

(* The first error is returned, after the wait. *)
LEMMA FailCancelledStep ==
  ASSUME IInv, FailCancelled PROVE IInv'
<1>1. TypeOK'
  BY FetchAssumption DEF IInv, TypeOK, poolVars, Failures, OrgLists,
     FailCancelled, Fail
<1>2. SlotsCounted'
  BY DEF IInv, SlotsCounted, Holding, Reading, poolVars, FailCancelled, Fail
<1>3. Ownership'
  BY DEF IInv, TypeOK, Ownership, poolVars, FailCancelled, Fail
<1>4. Settled'
  BY DEF IInv, TypeOK, Settled, Kept, poolVars, FailCancelled, Fail
<1>5. Losses'
  BY DEF IInv, TypeOK, Losses, Kept, poolVars, FailCancelled, Fail
<1>6. Progression'
  <2>1. cancelled
    BY ScopeFacts DEF IInv, Losses, FailCancelled
  <2> QED
    BY <2>1 DEF IInv, TypeOK, Progression, NotStarted, Kept, poolVars,
       AllProjectsSettled, FailCancelled, Fail
<1> QED
  BY <1>1, <1>2, <1>3, <1>4, <1>5, <1>6 DEF IInv

(* A target nobody found is reported, after the wait. *)
LEMMA FailMissingStep ==
  ASSUME IInv, FailMissing PROVE IInv'
<1>1. TypeOK'
  BY FetchAssumption DEF IInv, TypeOK, poolVars, Failures, OrgLists,
     FailMissing, Fail, Found
<1>2. SlotsCounted'
  BY DEF IInv, SlotsCounted, Holding, Reading, poolVars, FailMissing, Fail,
     Found
<1>3. Ownership'
  BY DEF IInv, TypeOK, Ownership, poolVars, FailMissing, Fail, Found
<1>4. Settled'
  BY DEF IInv, TypeOK, Settled, Kept, poolVars, FailMissing, Fail, Found
<1>5. Losses'
  BY DEF IInv, TypeOK, Losses, Kept, poolVars, FailMissing, Fail, Found
<1>6. Progression'
  <2>1. PICK t \in Targets : t \notin Found /\ ProjectOf[t] \notin unlisted
    BY DEF FailMissing, Missing
  <2>2. t \notin Kept
    <3> SUFFICES ASSUME t \in Kept PROVE FALSE
      OBVIOUS
    <3>1. /\ ProjectOf[t] \in Visited /\ t \in Selected(ProjectOf[t])
          /\ proj[ProjectOf[t]] # "none"
      BY DEF IInv, Ownership, Kept
    <3>2. proj[ProjectOf[t]] = "done"
      BY <3>1 DEF FailMissing, AllProjectsSettled
    <3> QED
      BY <2>1, <3>1, <3>2 DEF Found
  <2> QED
    BY <2>1, <2>2 DEF IInv, TypeOK, Progression, NotStarted, Kept, poolVars,
       AllProjectsSettled, FailMissing, Fail
<1> QED
  BY <1>1, <1>2, <1>3, <1>4, <1>5, <1>6 DEF IInv

(* The snapshot is assembled from settled projects. *)
LEMMA ReturnSnapshotStep ==
  ASSUME IInv, ReturnSnapshot PROVE IInv'
<1>1. TypeOK'
  BY FoundIsCoverage DEF IInv, TypeOK, poolVars, ReturnSnapshot
<1>2. SlotsCounted'
  BY DEF IInv, SlotsCounted, Holding, Reading, poolVars, ReturnSnapshot, Found
<1>3. Ownership'
  BY DEF IInv, TypeOK, Ownership, poolVars, ReturnSnapshot, Found
<1>4. Settled'
  BY DEF IInv, TypeOK, Settled, Kept, poolVars, ReturnSnapshot, Found
<1>5. Losses'
  BY DEF IInv, TypeOK, Losses, Kept, poolVars, ReturnSnapshot, Found
<1>6. Progression'
  BY FoundIsCoverage DEF IInv, TypeOK, Progression, NotStarted, Kept, poolVars,
     AllProjectsSettled, Coverage, ReturnSnapshot
<1> QED
  BY <1>1, <1>2, <1>3, <1>4, <1>5, <1>6 DEF IInv

(* A project takes a token and begins to hold. *)
LEMMA TakeProjectSlotStep ==
  ASSUME NEW p \in Project, IInv, TakeProjectSlot(p) PROVE IInv'
<1>1. TypeOK'
  BY FetchAssumption DEF IInv, TypeOK, fetchVars, Failures, OrgLists,
     TakeProjectSlot
<1>2. SlotsCounted'
  <2>1. /\ Holding' = Holding \cup {p} /\ Reading' = Reading
        /\ Holding \in SUBSET Project /\ p \in Project \ Holding
    BY DEF IInv, TypeOK, Holding, Reading, TakeProjectSlot
  <2> QED
    BY <2>1, FiniteScope, TakeToken DEF IInv, SlotsCounted, TakeProjectSlot
<1>3. Ownership'
  BY ScopeFacts DEF IInv, TypeOK, Ownership, Settled, Losses, TakeProjectSlot
<1>4. Settled'
  BY ScopeFacts DEF IInv, TypeOK, Settled, Kept, Ownership, Losses,
     TakeProjectSlot
<1>5. Losses'
  BY DEF IInv, TypeOK, Losses, Kept, fetchVars, Ownership, Settled,
     TakeProjectSlot
<1>6. Progression'
  BY ScopeFacts DEF IInv, TypeOK, Progression, NotStarted, Kept, fetchVars,
     Ownership, Settled, Losses, AllProjectsSettled, TakeProjectSlot
<1> QED
  BY <1>1, <1>2, <1>3, <1>4, <1>5, <1>6 DEF IInv

(* A project gives up without ever holding one. *)
LEMMA GiveUpProjectSlotStep ==
  ASSUME NEW p \in Project, IInv, GiveUpProjectSlot(p) PROVE IInv'
<1>1. TypeOK'
  BY FetchAssumption DEF IInv, TypeOK, fetchVars, Failures, OrgLists,
     GiveUpProjectSlot
<1>2. SlotsCounted'
  BY DEF IInv, SlotsCounted, Holding, Reading, GiveUpProjectSlot
<1>3. Ownership'
  BY ScopeFacts DEF IInv, TypeOK, Ownership, Settled, Losses, GiveUpProjectSlot
<1>4. Settled'
  BY ScopeFacts DEF IInv, TypeOK, Settled, Kept, Ownership, Losses,
     GiveUpProjectSlot
<1>5. Losses'
  BY DEF IInv, TypeOK, Losses, Kept, fetchVars, Ownership, Settled,
     GiveUpProjectSlot
<1>6. Progression'
  BY ScopeFacts DEF IInv, TypeOK, Progression, NotStarted, Kept, fetchVars,
     Ownership, Settled, Losses, AllProjectsSettled, GiveUpProjectSlot
<1> QED
  BY <1>1, <1>2, <1>3, <1>4, <1>5, <1>6 DEF IInv

(* A project starts the goroutines of what it selects. *)
LEMMA RepositoriesListedStep ==
  ASSUME NEW p \in Project, IInv, RepositoriesListed(p) PROVE IInv'
<1>1. TypeOK'
  BY FetchAssumption DEF IInv, TypeOK, fetchVars, Failures, OrgLists,
     RepositoriesListed
<1>2. SlotsCounted'
  <2>1. Holding' = Holding
    BY DEF IInv, TypeOK, Holding, RepositoriesListed
  <2>2. Reading' = Reading
    BY ScopeFacts DEF IInv, TypeOK, Ownership, Reading, RepositoriesListed
  <2> QED
    BY <2>1, <2>2 DEF IInv, SlotsCounted, RepositoriesListed
<1>3. Ownership'
  <2>1. p \in Visited /\ p \notin unlisted
    BY DEF IInv, Settled, Progression, RepositoriesListed
  <2> QED
    BY <2>1, ScopeFacts DEF IInv, TypeOK, Ownership, RepositoriesListed
<1>4. Settled'
  BY ScopeFacts DEF IInv, TypeOK, Settled, Kept, Ownership, Losses,
     RepositoriesListed
<1>5. Losses'
  BY DEF IInv, TypeOK, Losses, Kept, fetchVars, Ownership, Settled,
     RepositoriesListed
<1>6. Progression'
  BY ScopeFacts DEF IInv, TypeOK, Progression, NotStarted, Kept, fetchVars,
     Ownership, Settled, Losses, AllProjectsSettled, RepositoriesListed
<1> QED
  BY <1>1, <1>2, <1>3, <1>4, <1>5, <1>6 DEF IInv

(* A project that will not list keeps its token. *)
LEMMA RepositoriesRefusedStep ==
  ASSUME NEW p \in Project, IInv, RepositoriesRefused(p) PROVE IInv'
<1>1. TypeOK'
  BY DEF IInv, TypeOK, fetchVars, RepositoriesRefused
<1>2. SlotsCounted'
  <2>1. Holding' = Holding /\ Reading' = Reading
    BY DEF IInv, TypeOK, Holding, Reading, RepositoriesRefused
  <2> QED
    BY <2>1 DEF IInv, SlotsCounted, RepositoriesRefused
<1>3. Ownership'
  BY ScopeFacts DEF IInv, TypeOK, Ownership, RepositoriesRefused
<1>4. Settled'
  BY DEF IInv, TypeOK, Settled, Kept, RepositoriesRefused
<1>5. Losses'
  BY DEF IInv, TypeOK, Losses, fetchVars, RepositoriesRefused
<1>6. Progression'
  BY ScopeFacts DEF IInv, TypeOK, Progression, NotStarted, Kept, fetchVars,
     Settled, Losses, AllProjectsSettled, RepositoriesRefused
<1> QED
  BY <1>1, <1>2, <1>3, <1>4, <1>5, <1>6 DEF IInv

(* A project settles as unlisted, with no repository started. *)
LEMMA RecordUnlistedStep ==
  ASSUME NEW p \in Project, IInv, RecordUnlisted(p) PROVE IInv'
<1>1. TypeOK'
  <2>1. p \in Holding /\ Holding \in SUBSET Project
    BY DEF IInv, TypeOK, Holding, RecordUnlisted, LeaveProject
  <2>2. projectSlots # 0
    BY <2>1, FiniteScope, ReturnToken DEF IInv, SlotsCounted
  <2>3. projectSlots - 1 \in 0..Concurrency
    BY <2>2, FetchAssumption DEF IInv, TypeOK
  <2> QED
    BY <2>3 DEF IInv, TypeOK, Progression, fetchVars, RecordUnlisted,
       LeaveProject
<1>2. SlotsCounted'
  <2>1. /\ Holding' = Holding \ {p} /\ Reading' = Reading
        /\ Holding \in SUBSET Project /\ p \in Holding
    BY DEF IInv, TypeOK, Holding, Reading, RecordUnlisted, LeaveProject
  <2> QED
    BY <2>1, FiniteScope, ReturnToken DEF IInv, SlotsCounted,
       RecordUnlisted, LeaveProject
<1>3. Ownership'
  BY ScopeFacts DEF IInv, TypeOK, Ownership, Settled, Losses,
     RecordUnlisted, LeaveProject
<1>4. Settled'
  BY DEF IInv, TypeOK, Settled, Progression, Kept, RecordUnlisted,
     LeaveProject
<1>5. Losses'
  BY DEF IInv, TypeOK, Losses, Kept, fetchVars, Ownership, Settled,
     RecordUnlisted, LeaveProject
<1>6. Progression'
  BY ScopeFacts DEF IInv, TypeOK, Progression, NotStarted, Kept, fetchVars,
     Ownership, Settled, Losses, AllProjectsSettled, RecordUnlisted,
     LeaveProject
<1> QED
  BY <1>1, <1>2, <1>3, <1>4, <1>5, <1>6 DEF IInv

(* A project settles as failed, its list lost to the cancellation. *)
LEMMA ListingCancelledStep ==
  ASSUME NEW p \in Project, IInv, ListingCancelled(p) PROVE IInv'
<1>1. TypeOK'
  <2>1. p \in Holding /\ Holding \in SUBSET Project
    BY DEF IInv, TypeOK, Holding, ListingCancelled, LeaveProject
  <2>2. projectSlots # 0
    BY <2>1, FiniteScope, ReturnToken DEF IInv, SlotsCounted
  <2>3. projectSlots - 1 \in 0..Concurrency
    BY <2>2, FetchAssumption DEF IInv, TypeOK
  <2> QED
    BY <2>3 DEF IInv, TypeOK, fetchVars, ListingCancelled, LeaveProject
<1>2. SlotsCounted'
  <2>1. /\ Holding' = Holding \ {p} /\ Reading' = Reading
        /\ Holding \in SUBSET Project /\ p \in Holding
    BY DEF IInv, TypeOK, Holding, Reading, ListingCancelled, LeaveProject
  <2> QED
    BY <2>1, FiniteScope, ReturnToken DEF IInv, SlotsCounted, ListingCancelled,
       LeaveProject
<1>3. Ownership'
  BY ScopeFacts DEF IInv, TypeOK, Ownership, Settled, Losses, ListingCancelled,
     LeaveProject
<1>4. Settled'
  BY ScopeFacts DEF IInv, TypeOK, Settled, Kept, Ownership, Losses,
     ListingCancelled, LeaveProject
<1>5. Losses'
  BY DEF IInv, TypeOK, Losses, Kept, fetchVars, Ownership, Settled,
     ListingCancelled, LeaveProject
<1>6. Progression'
  BY ScopeFacts DEF IInv, TypeOK, Progression, NotStarted, Kept, fetchVars,
     Ownership, Settled, Losses, AllProjectsSettled, ListingCancelled,
     LeaveProject
<1> QED
  BY <1>1, <1>2, <1>3, <1>4, <1>5, <1>6 DEF IInv

(* A project settles once all its repositories have. *)
LEMMA JoinProjectStep ==
  ASSUME NEW p \in Project, IInv, JoinProject(p) PROVE IInv'
<1>1. TypeOK'
  <2>1. p \in Holding /\ Holding \in SUBSET Project
    BY DEF IInv, TypeOK, Holding, JoinProject, LeaveProject
  <2>2. projectSlots # 0
    BY <2>1, FiniteScope, ReturnToken DEF IInv, SlotsCounted
  <2>3. projectSlots - 1 \in 0..Concurrency
    BY <2>2, FetchAssumption DEF IInv, TypeOK
  <2> QED
    BY <2>3 DEF IInv, TypeOK, fetchVars, JoinProject, LeaveProject
<1>2. SlotsCounted'
  <2>1. /\ Holding' = Holding \ {p} /\ Reading' = Reading
        /\ Holding \in SUBSET Project /\ p \in Holding
    BY DEF IInv, TypeOK, Holding, Reading, JoinProject, LeaveProject
  <2> QED
    BY <2>1, FiniteScope, ReturnToken DEF IInv, SlotsCounted, JoinProject,
       LeaveProject
<1>3. Ownership'
  BY ScopeFacts DEF IInv, TypeOK, Ownership, Settled, Losses, JoinProject,
     LeaveProject
<1>4. Settled'
  <2>1. proj'[p] = "done" => Selected(p) \subseteq Kept
    BY ScopeFacts DEF IInv, TypeOK, Kept, JoinProject, LeaveProject
  <2> QED
    BY <2>1 DEF IInv, TypeOK, Settled, Progression, Kept, JoinProject,
       LeaveProject
<1>5. Losses'
  <2>1. proj'[p] = "failed" => cancelled
    BY ScopeFacts DEF IInv, TypeOK, Losses, JoinProject, LeaveProject
  <2> QED
    BY <2>1 DEF IInv, TypeOK, Losses, Kept, fetchVars, JoinProject, LeaveProject
<1>6. Progression'
  BY ScopeFacts DEF IInv, TypeOK, Progression, NotStarted, Kept, fetchVars,
     Ownership, Settled, Losses, AllProjectsSettled, JoinProject, LeaveProject
<1> QED
  BY <1>1, <1>2, <1>3, <1>4, <1>5, <1>6 DEF IInv

(* A repository takes a token of the shared channel. *)
LEMMA TakeRepoSlotStep ==
  ASSUME NEW r \in Repo, IInv, TakeRepoSlot(r) PROVE IInv'
<1>1. TypeOK'
  BY FetchAssumption DEF IInv, TypeOK, fetchVars, Failures, OrgLists,
     TakeRepoSlot, RepoSlotFree
<1>2. SlotsCounted'
  <2>1. /\ Reading' = Reading \cup {r} /\ Holding' = Holding
        /\ Reading \in SUBSET Repo /\ r \in Repo \ Reading
    BY DEF IInv, TypeOK, Reading, Holding, TakeRepoSlot
  <2> QED
    BY <2>1, FiniteScope, TakeToken DEF IInv, SlotsCounted, TakeRepoSlot
<1>3. Ownership'
  BY ScopeFacts DEF IInv, TypeOK, Ownership, Settled, Losses, TakeRepoSlot
<1>4. Settled'
  BY ScopeFacts DEF IInv, TypeOK, Settled, Kept, Ownership, Losses, TakeRepoSlot
<1>5. Losses'
  BY DEF IInv, TypeOK, Losses, Kept, fetchVars, Ownership, Settled, TakeRepoSlot
<1>6. Progression'
  BY ScopeFacts DEF IInv, TypeOK, Progression, NotStarted, Kept, fetchVars,
     Ownership, Settled, Losses, AllProjectsSettled, TakeRepoSlot
<1> QED
  BY <1>1, <1>2, <1>3, <1>4, <1>5, <1>6 DEF IInv

(* A repository gives up without ever holding one. *)
LEMMA GiveUpRepoSlotStep ==
  ASSUME NEW r \in Repo, IInv, GiveUpRepoSlot(r) PROVE IInv'
<1>1. TypeOK'
  BY FetchAssumption DEF IInv, TypeOK, fetchVars, Failures, OrgLists,
     GiveUpRepoSlot
<1>2. SlotsCounted'
  BY DEF IInv, SlotsCounted, Holding, Reading, GiveUpRepoSlot
<1>3. Ownership'
  BY ScopeFacts DEF IInv, TypeOK, Ownership, Settled, Losses, GiveUpRepoSlot
<1>4. Settled'
  BY ScopeFacts DEF IInv, TypeOK, Settled, Kept, Ownership, Losses,
     GiveUpRepoSlot
<1>5. Losses'
  BY DEF IInv, TypeOK, Losses, Kept, fetchVars, Ownership, Settled,
     GiveUpRepoSlot
<1>6. Progression'
  BY ScopeFacts DEF IInv, TypeOK, Progression, NotStarted, Kept, fetchVars,
     Ownership, Settled, Losses, AllProjectsSettled, GiveUpRepoSlot
<1> QED
  BY <1>1, <1>2, <1>3, <1>4, <1>5, <1>6 DEF IInv

(* One read of a repository, damaged if cancelled. *)
LEMMA ReadSettingStep ==
  ASSUME NEW r \in Repo, IInv, ReadSetting(r) PROVE IInv'
<1>1. TypeOK'
  BY FetchAssumption DEF IInv, TypeOK, fetchVars, Failures, OrgLists,
     ReadSetting
<1>2. SlotsCounted'
  BY DEF IInv, SlotsCounted, Holding, Reading, ReadSetting
<1>3. Ownership'
  BY ScopeFacts DEF IInv, TypeOK, Ownership, Settled, Losses, ReadSetting
<1>4. Settled'
  BY ScopeFacts DEF IInv, TypeOK, Settled, Kept, Ownership, Losses, ReadSetting
<1>5. Losses'
  BY DEF IInv, TypeOK, Losses, Kept, fetchVars, Ownership, Settled, ReadSetting
<1>6. Progression'
  BY ScopeFacts DEF IInv, TypeOK, Progression, NotStarted, Kept, fetchVars,
     Ownership, Settled, Losses, AllProjectsSettled, ReadSetting
<1> QED
  BY <1>1, <1>2, <1>3, <1>4, <1>5, <1>6 DEF IInv

(* A repository is whole, and keeps its token, or lost. *)
LEMMA FinishRepositoryStep ==
  ASSUME NEW r \in Repo, IInv, FinishRepository(r) PROVE IInv'
<1>1. TypeOK' /\ SlotsCounted'
  <2>1. r \in Reading /\ Reading \in SUBSET Repo /\ Holding' = Holding
    BY DEF IInv, TypeOK, Reading, Holding, FinishRepository
  <2>2. CASE cancelled
    <3>1. Reading' = Reading \ {r}
      BY <2>2 DEF IInv, TypeOK, Reading, FinishRepository
    <3>2. repoSlots # 0 /\ SlotsCounted'
      BY <2>1, <2>2, <3>1, FiniteScope, ReturnToken DEF IInv, SlotsCounted, FinishRepository
    <3>3. repoSlots - 1 \in 0..Concurrency
      BY <3>2, FetchAssumption DEF IInv, TypeOK
    <3> QED
      BY <2>2, <3>2, <3>3 DEF IInv, TypeOK, fetchVars, FinishRepository
  <2>3. CASE ~cancelled
    <3>1. Reading' = Reading
      BY <2>3 DEF IInv, TypeOK, Reading, FinishRepository
    <3>2. SlotsCounted'
      BY <2>1, <2>3, <3>1 DEF IInv, SlotsCounted, FinishRepository
    <3> QED
      BY <2>3, <3>2 DEF IInv, TypeOK, fetchVars, FinishRepository
  <2> QED
    BY <2>2, <2>3 DEF IInv, TypeOK
<1>3. Ownership'
  BY ScopeFacts DEF IInv, TypeOK, Ownership, Settled, Losses, FinishRepository
<1>4. Settled'
  BY ScopeFacts DEF IInv, TypeOK, Settled, Kept, Ownership, Losses,
     FinishRepository
<1>5. Losses'
  BY DEF IInv, TypeOK, Losses, Kept, fetchVars, Ownership, Settled,
     FinishRepository
<1>6. Progression'
  BY ScopeFacts DEF IInv, TypeOK, Progression, NotStarted, Kept, fetchVars,
     Ownership, Settled, Losses, AllProjectsSettled, FinishRepository
<1> QED
  BY <1>1, <1>3, <1>4, <1>5, <1>6 DEF IInv

(* A repository is stored, and its token goes back. *)
LEMMA StoreRepositoryStep ==
  ASSUME NEW r \in Repo, IInv, StoreRepository(r) PROVE IInv'
<1>1. TypeOK'
  <2>1. r \in Reading /\ Reading \in SUBSET Repo
    BY DEF IInv, TypeOK, Reading, StoreRepository
  <2>2. repoSlots # 0
    BY <2>1, FiniteScope, ReturnToken DEF IInv, SlotsCounted
  <2>3. repoSlots - 1 \in 0..Concurrency
    BY <2>2, FetchAssumption DEF IInv, TypeOK
  <2> QED
    BY <2>3 DEF IInv, TypeOK, fetchVars, StoreRepository
<1>2. SlotsCounted'
  <2>1. /\ Reading' = Reading \ {r} /\ Holding' = Holding
        /\ Reading \in SUBSET Repo /\ r \in Reading
    BY DEF IInv, TypeOK, Reading, Holding, StoreRepository
  <2> QED
    BY <2>1, FiniteScope, ReturnToken DEF IInv, SlotsCounted, StoreRepository
<1>3. Ownership'
  BY ScopeFacts DEF IInv, TypeOK, Ownership, Settled, Losses, StoreRepository
<1>4. Settled'
  BY ScopeFacts DEF IInv, TypeOK, Settled, Kept, Ownership, Losses,
     StoreRepository
<1>5. Losses'
  BY DEF IInv, TypeOK, Losses, Kept, fetchVars, Ownership, Settled,
     StoreRepository
<1>6. Progression'
  BY ScopeFacts DEF IInv, TypeOK, Progression, NotStarted, Kept, fetchVars,
     Ownership, Settled, Losses, AllProjectsSettled, StoreRepository
<1> QED
  BY <1>1, <1>2, <1>3, <1>4, <1>5, <1>6 DEF IInv

(* The invariant holds in every reachable state. *)
THEOREM Invariance == Spec => []IInv
<1>1. IInv /\ [Next]_vars => IInv'
  <2> SUFFICES ASSUME IInv, [Next]_vars PROVE IInv'
    OBVIOUS
  <2>1. CASE Cancel
    BY <2>1, CancelStep
  <2>2. CASE MainStep
    BY <2>2, CredentialsAcceptedStep, CredentialsRefusedStep,
       ReadOrganizationStep,
       ProjectsListedStep, ProjectsRefusedStep, FailCancelledStep, FailMissingStep,
       ReturnSnapshotStep DEF MainStep
  <2>3. ASSUME NEW p \in Project, ProjectStep(p) PROVE IInv'
    BY <2>3, TakeProjectSlotStep, GiveUpProjectSlotStep, RepositoriesListedStep,
       RepositoriesRefusedStep, RecordUnlistedStep, ListingCancelledStep, JoinProjectStep DEF ProjectStep
  <2>4. ASSUME NEW r \in Repo, RepoStep(r) PROVE IInv'
    BY <2>4, TakeRepoSlotStep, GiveUpRepoSlotStep, ReadSettingStep,
       FinishRepositoryStep, StoreRepositoryStep DEF RepoStep
  <2>5. CASE Returned \/ UNCHANGED vars
    <3>1. UNCHANGED vars
      BY <2>5 DEF Returned
    <3>2. TypeOK' /\ SlotsCounted'
      BY <3>1 DEF vars, fetchVars, poolVars, IInv, TypeOK, SlotsCounted,
         Holding, Reading
    <3>3. Ownership' /\ Settled' /\ Losses'
      BY <3>1 DEF vars, fetchVars, poolVars, IInv, Ownership, Settled, Losses,
         Kept
    <3>4. Progression'
      BY <3>1 DEF vars, fetchVars, poolVars, IInv, Progression, NotStarted,
         Kept,
         AllProjectsSettled
    <3> QED
      BY <3>2, <3>3, <3>4 DEF IInv
  <2> QED
    BY <2>1, <2>2, <2>3, <2>4, <2>5 DEF Next
<1> QED
  BY InitIInv, <1>1, PTL DEF Spec

(* Every variable keeps its type; a semaphore's counter stays in range.    *)
THEOREM TypeCorrect == Spec => []TypeOK
<1>1. IInv => TypeOK
  BY DEF IInv
<1> QED
  BY <1>1, Invariance, PTL

(* At most Concurrency repositories are read at once, over all projects.   *)
THEOREM RepositoriesAreBounded == Spec => []RepositoryBound
<1>1. IInv => RepositoryBound
  BY FetchAssumption DEF IInv, TypeOK, SlotsCounted, RepositoryBound
<1> QED
  BY <1>1, Invariance, PTL

(* A snapshot holds everything in scope outside the unlisted projects,     *)
(* each repository stored by the goroutine that read it.                   *)
THEOREM SnapshotsAreComplete == Spec => []SnapshotComplete
<1>1. IInv => SnapshotComplete
  BY DEF IInv, Progression, SnapshotComplete
<1> QED
  BY <1>1, Invariance, PTL

(* Nothing a cancellation damaged is in a snapshot. *)
THEOREM CancellationNeverReadsAsData == Spec => []NothingLostToCancellation
<1>1. IInv => NothingLostToCancellation
  BY DEF IInv, Losses, Progression, Kept, NothingLostToCancellation
<1> QED
  BY <1>1, Invariance, PTL

(* A snapshot is complete, and undamaged. *)
THEOREM SnapshotsAreWhole == Spec => []SnapshotIsWhole
BY SnapshotsAreComplete, CancellationNeverReadsAsData, PTL DEF SnapshotIsWhole

(* Past the project list only a cancellation or an unfound --repository    *)
(* fails a scan.                                                           *)
THEOREM FailuresHaveCauses == Spec => []FailureHasCause
<1>1. IInv => FailureHasCause
  BY DEF IInv, Progression, NotStarted, FailureHasCause
<1> QED
  BY <1>1, Invariance, PTL

(* Once the outcome is settled no goroutine is between its start and its   *)
(* end.                                                                    *)
LEMMA NothingRunsWhileDecided ==
  ASSUME IInv, outcome # "pending"
  PROVE  /\ \A p \in Project : proj[p] \in {"none", "done", "failed"}
         /\ \A r \in Repo : repo[r] \in {"none", "kept", "lost"}
<1>1. outcome \in {"credentials", "projects", "cancelled", "missing", "snapshot"}
  BY DEF IInv, TypeOK, Failures
<1>2. CASE outcome \in {"credentials", "projects"}
  BY <1>2 DEF IInv, Progression, NotStarted
<1>3. CASE outcome \in {"cancelled", "missing", "snapshot"}
  <2>1. \A p \in Project : proj[p] \in {"none", "done", "failed"}
    BY <1>3 DEF IInv, TypeOK, Progression, AllProjectsSettled
  <2>2. \A r \in Repo : repo[r] \in {"none", "kept", "lost"}
    <3> SUFFICES ASSUME NEW r \in Repo, repo[r] \in {"queued", "reading", "whole"} PROVE FALSE
      BY DEF IInv, TypeOK
    <3>1. ProjectOf[r] \in Project /\ proj[ProjectOf[r]] = "fetching"
      BY ScopeAssumption DEF IInv, Ownership
    <3> QED
      BY <2>1, <3>1
  <2> QED
    BY <2>1, <2>2
<1> QED
  BY <1>1, <1>2, <1>3

(* Fetch returns only after every goroutine it started. *)
THEOREM NothingOutlivesFetch == Spec => []NothingRunsAfterReturn
<1>1. IInv /\ outcome # "pending" => projectSlots = 0 /\ repoSlots = 0
  <2> SUFFICES ASSUME IInv, outcome # "pending" PROVE projectSlots = 0 /\ repoSlots = 0
    OBVIOUS
  <2>1. Holding = {} /\ Reading = {}
    BY NothingRunsWhileDecided DEF Holding, Reading
  <2> QED
    BY <2>1, FS_EmptySet DEF IInv, SlotsCounted
<1>2. IInv => NothingRunsAfterReturn
  BY <1>1, NothingRunsWhileDecided DEF NothingRunsAfterReturn
<1> QED
  BY <1>2, Invariance, PTL

(* What a look at the context settles is settled only by a context that is *)
(* not cancelled.                                                          *)
LEMMA NothingSettledOnceCancelled ==
  ASSUME IInv, Next, cancelled PROVE Whole' = Whole /\ WrittenOff' = WrittenOff
<1>1. CASE Cancel \/ MainStep \/ Returned
  <2>1. repo' = repo /\ unlisted' = unlisted
    BY <1>1 DEF Cancel, MainStep, CredentialsAccepted, CredentialsRefused, ReadOrganization,
       ProjectsListed, ProjectsRefused, FailCancelled, FailMissing, ReturnSnapshot, Fail,
       Returned, vars, poolVars
  <2>2. CASE ProjectsListed
    <3>1. \A p \in Project : proj[p] # "refused" /\ proj'[p] # "refused"
      BY <2>2 DEF IInv, Progression, NotStarted, ProjectsListed
    <3> QED
      BY <2>1, <3>1 DEF Whole, WrittenOff
  <2>3. CASE ~ProjectsListed
    <3>1. proj' = proj
      BY <1>1, <2>3 DEF Cancel, MainStep, CredentialsAccepted, CredentialsRefused,
         ReadOrganization, ProjectsRefused, FailCancelled, FailMissing, ReturnSnapshot, Fail,
         Returned, vars, poolVars
    <3> QED
      BY <2>1, <3>1 DEF Whole, WrittenOff
  <2> QED
    BY <2>2, <2>3
<1>2. ASSUME NEW p \in Project, ProjectStep(p)
      PROVE  Whole' = Whole /\ WrittenOff' = WrittenOff
  <2>1. Whole' = Whole
    BY <1>2, ScopeFacts DEF IInv, TypeOK, Ownership, ProjectStep, TakeProjectSlot,
       GiveUpProjectSlot, RepositoriesListed, RepositoriesRefused, RecordUnlisted,
       ListingCancelled, JoinProject, Whole
  <2>2. WrittenOff' = WrittenOff
    BY <1>2 DEF IInv, TypeOK, ProjectStep, TakeProjectSlot, GiveUpProjectSlot,
       RepositoriesListed, RepositoriesRefused, RecordUnlisted, ListingCancelled, JoinProject,
       LeaveProject, WrittenOff
  <2> QED
    BY <2>1, <2>2
<1>3. ASSUME NEW r \in Repo, RepoStep(r)
      PROVE  Whole' = Whole /\ WrittenOff' = WrittenOff
  BY <1>3 DEF IInv, TypeOK, RepoStep, TakeRepoSlot, GiveUpRepoSlot, ReadSetting,
     FinishRepository, StoreRepository, Whole, WrittenOff
<1> QED
  BY <1>1, <1>2, <1>3 DEF Next

(* Once every project has settled, what was written off is recorded.       *)
LEMMA AllRecorded == ASSUME IInv, AllProjectsSettled PROVE WrittenOff = unlisted
<1>1. \A p \in Project : proj[p] # "refused"
  BY DEF IInv, Progression, AllProjectsSettled
<1> QED
  BY <1>1 DEF WrittenOff

(* What a snapshot owes, with that left out, was read whole.               *)
LEMMA OwedIsWhole == ASSUME IInv, outcome = "snapshot" PROVE Coverage(WrittenOff) \subseteq Whole
<1>1. WrittenOff = unlisted
  BY AllRecorded DEF IInv, Progression
<1>2. Coverage(unlisted) \subseteq Kept
  BY DEF IInv, Progression
<1> QED
  BY <1>1, <1>2 DEF Kept, Whole

(* After a cancellation nothing more is taken for whole or written off, and *)
(* a snapshot returned all the same holds what had been whole before.      *)
THEOREM CancellationFreezesTheScan == Spec => CancellationFreezes
<1> DEFINE Owed == outcome = "snapshot" => Coverage(WrittenOff) \subseteq Whole
<1> DEFINE Frozen ==
      cancelled =>
        /\ Whole' = Whole /\ WrittenOff' = WrittenOff
        /\ outcome' = "snapshot" => Coverage(WrittenOff) \subseteq Whole
<1>1. IInv => Owed
  BY OwedIsWhole
<1>2. IInv /\ Owed' /\ [Next]_vars => [Frozen]_vars
  <2> SUFFICES ASSUME IInv, Owed', Next, cancelled PROVE Frozen
    OBVIOUS
  <2>1. Whole' = Whole /\ WrittenOff' = WrittenOff
    BY NothingSettledOnceCancelled
  <2>2. Coverage(WrittenOff)' = Coverage(WrittenOff')
    BY DEF Coverage
  <2> QED
    BY <2>1, <2>2
<1> QED
  BY <1>1, <1>2, Invariance, PTL DEF Spec, CancellationFreezes

(* A project that waits for its repositories has started all of them. *)
AllStarted ==
  \A p \in Project : proj[p] = "fetching" => \A r \in Selected(p) : repo[r] # "none"

(* No goroutine is ever taken back. *)
LEMMA AllStartedKept == ASSUME IInv, AllStarted, [Next]_vars PROVE AllStarted'
<1>1. CASE Cancel \/ CredentialsAccepted \/ CredentialsRefused \/ ReadOrganization
           \/ ProjectsRefused \/ FailCancelled \/ FailMissing \/ ReturnSnapshot
           \/ Returned \/ UNCHANGED vars
  BY <1>1 DEF AllStarted, Cancel, CredentialsAccepted, CredentialsRefused, ReadOrganization,
     ProjectsRefused, FailCancelled, FailMissing, ReturnSnapshot, Fail, Returned, vars, poolVars
<1>2. CASE ProjectsListed
  BY <1>2 DEF AllStarted, ProjectsListed
<1>3. ASSUME NEW p \in Project, RepositoriesListed(p) PROVE AllStarted'
  BY <1>3, ScopeFacts DEF IInv, TypeOK, AllStarted, RepositoriesListed
<1>4. ASSUME NEW p \in Project,
             TakeProjectSlot(p) \/ GiveUpProjectSlot(p) \/ RepositoriesRefused(p)
               \/ RecordUnlisted(p) \/ ListingCancelled(p) \/ JoinProject(p)
      PROVE  AllStarted'
  BY <1>4 DEF IInv, TypeOK, AllStarted, TakeProjectSlot, GiveUpProjectSlot,
     RepositoriesRefused, RecordUnlisted, ListingCancelled, JoinProject, LeaveProject
<1>5. ASSUME NEW r \in Repo, RepoStep(r) PROVE AllStarted'
  BY <1>5, ScopeFacts DEF IInv, TypeOK, AllStarted, RepoStep, TakeRepoSlot, GiveUpRepoSlot,
     ReadSetting, FinishRepository, StoreRepository
<1> QED
  BY <1>1, <1>2, <1>3, <1>4, <1>5 DEF Next, MainStep, ProjectStep

(* Were nobody able to go on, no repository would be reading: the pool      *)
(* would be empty and nobody queued at it, every project of those that      *)
(* fetch could join, and so their pool would be empty, too.                *)
LEMMA NoCircle == ASSUME IInv, AllStarted PROVE SomeoneGoesOn
<1> SUFFICES ASSUME phase = "fetching",
                    \A p \in Visited :
                      /\ ~(proj[p] = "queued" /\ projectSlots < Concurrency)
                      /\ proj[p] \notin {"listing", "refused"}
                      /\ ~(proj[p] = "fetching" /\ \A r \in Selected(p) : repo[r] \in {"kept", "lost"}),
                    \A r \in Repo :
                      ~(repo[r] = "queued" /\ RepoSlotFree) /\ repo[r] \notin {"reading", "whole"}
             PROVE  AllProjectsSettled
  BY DEF SomeoneGoesOn
<1>1. repoSlots = 0
  <2>1. Reading = {}
    BY DEF Reading
  <2> QED
    BY <2>1, FS_EmptySet DEF IInv, SlotsCounted
<1>2. \A r \in Repo : repo[r] \in {"none", "kept", "lost"}
  BY <1>1, FetchAssumption DEF IInv, TypeOK, RepoSlotFree
<1>3. \A p \in Visited : proj[p] # "fetching"
  BY <1>2, ScopeFacts DEF AllStarted
<1>4. projectSlots = 0
  <2>1. \A p \in Project : proj[p] # "none" => p \in Visited
    BY DEF IInv, Progression
  <2>2. Holding = {}
    BY <1>3, <2>1 DEF Holding
  <2> QED
    BY <2>2, FS_EmptySet DEF IInv, SlotsCounted
<1>5. \A p \in Visited : proj[p] # "none"
  BY DEF IInv, Progression
<1> QED
  BY <1>3, <1>4, <1>5, ScopeFacts, FetchAssumption DEF IInv, TypeOK, AllProjectsSettled

(* Somebody can go on as long as Fetch waits, however many projects and     *)
(* repositories compete for however few slots.                             *)
THEOREM NobodyWaitsInACircle == Spec => []SomeoneGoesOn
<1>1. Init => AllStarted
  BY DEF Init, AllStarted
<1> QED
  BY <1>1, AllStartedKept, NoCircle, Invariance, PTL DEF Spec

(* How many steps Fetch and each goroutine have at most before them. *)
FetchAhead(at, lists) ==
  CASE at = "credentials" -> OrgLists + 3
    [] at = "organization" -> lists + 2
    [] at = "fetching" -> 1
    [] OTHER -> 0
ProjectAhead(at) ==
  CASE at = "none" -> 4
    [] at = "queued" -> 3
    [] at = "listing" -> 2
    [] at \in {"refused", "fetching"} -> 1
    [] OTHER -> 0
RepoAhead(at, reads) ==
  CASE at = "none" -> Reads + 5
    [] at = "queued" -> Reads + 4
    [] at = "reading" -> reads + 2
    [] at = "whole" -> 1
    [] OTHER -> 0

StepCounts ==
  /\ FetchAhead(phase', orgLeft') <= FetchAhead(phase, orgLeft)
  /\ \A p \in Project : ProjectAhead(proj'[p]) <= ProjectAhead(proj[p])
  /\ \A r \in Repo : RepoAhead(repo'[r], left'[r]) <= RepoAhead(repo[r], left[r])
  /\ cancelled => cancelled'
  /\ \/ FetchAhead(phase', orgLeft') < FetchAhead(phase, orgLeft)
     \/ \E p \in Project : ProjectAhead(proj'[p]) < ProjectAhead(proj[p])
     \/ \E r \in Repo : RepoAhead(repo'[r], left'[r]) < RepoAhead(repo[r], left[r])
     \/ ~cancelled /\ cancelled'

(* Nothing is done over: whatever happens to a scan takes a step from what  *)
(* lies ahead of one goroutine and gives none to another, a cancellation    *)
(* with all that it cuts short included.  So there is an end to its steps.  *)
EveryStepCounts == [][StepCounts]_vars

(* The steps ahead, place by place. *)
LEMMA AheadCases ==
  ASSUME NEW at, NEW n
  PROVE  /\ FetchAhead("credentials", n) = OrgLists + 3
         /\ FetchAhead("organization", n) = n + 2
         /\ FetchAhead("fetching", n) = 1 /\ FetchAhead("returned", n) = 0
         /\ ProjectAhead("none") = 4 /\ ProjectAhead("queued") = 3 /\ ProjectAhead("listing") = 2
         /\ ProjectAhead("refused") = 1 /\ ProjectAhead("fetching") = 1
         /\ ProjectAhead("done") = 0 /\ ProjectAhead("failed") = 0
         /\ RepoAhead("none", n) = Reads + 5 /\ RepoAhead("queued", n) = Reads + 4
         /\ RepoAhead("reading", n) = n + 2 /\ RepoAhead("whole", n) = 1
         /\ RepoAhead("kept", n) = 0 /\ RepoAhead("lost", n) = 0
BY DEF FetchAhead, ProjectAhead, RepoAhead

(* What lies ahead is a number. *)
LEMMA AheadType ==
  ASSUME IInv
  PROVE  /\ FetchAhead(phase, orgLeft) \in Nat
         /\ \A p \in Project : ProjectAhead(proj[p]) \in Nat
         /\ \A r \in Repo : RepoAhead(repo[r], left[r]) \in Nat
<1>1. orgLeft \in Nat /\ phase \in {"credentials", "organization", "fetching", "returned"}
  BY DEF IInv, TypeOK, OrgLists
<1>2. FetchAhead(phase, orgLeft) \in Nat
  BY <1>1, AheadCases DEF OrgLists
<1>3. ASSUME NEW p \in Project PROVE ProjectAhead(proj[p]) \in Nat
  BY AheadCases DEF IInv, TypeOK
<1>4. ASSUME NEW r \in Repo PROVE RepoAhead(repo[r], left[r]) \in Nat
  <2>1. /\ left[r] \in Nat /\ repo[r] \in {"none", "queued", "reading", "whole", "kept", "lost"}
        /\ Reads \in Nat
    BY FetchAssumption DEF IInv, TypeOK
  <2> QED
    BY <2>1, AheadCases
<1> QED
  BY <1>2, <1>3, <1>4

(* A step of Fetch or of the context: the goroutines are where they were,   *)
(* or they are new.                                                        *)
LEMMA MainCounts == ASSUME IInv, Cancel \/ MainStep PROVE StepCounts
<1>1. /\ FetchAhead(phase, orgLeft) \in Nat
      /\ \A p \in Project : ProjectAhead(proj[p]) \in Nat
      /\ \A r \in Repo : RepoAhead(repo[r], left[r]) \in Nat
  BY AheadType
<1>2. orgLeft \in 0..4 /\ OrgLists = 4
  BY <1>1 DEF IInv, TypeOK, OrgLists
<1>3. CASE Cancel
  BY <1>1, <1>2, <1>3 DEF StepCounts, Cancel, fetchVars, poolVars
<1>4. ASSUME proj' = proj, repo' = repo, left' = left, cancelled' = cancelled,
             FetchAhead(phase', orgLeft') < FetchAhead(phase, orgLeft),
             FetchAhead(phase', orgLeft') \in Nat
      PROVE  StepCounts
  BY <1>1, <1>2, <1>4 DEF StepCounts
<1>5. CASE CredentialsAccepted
  <2>1. FetchAhead(phase, orgLeft) = 7 /\ FetchAhead(phase', orgLeft') = orgLeft + 2
    BY <1>2, <1>5, AheadCases DEF CredentialsAccepted
  <2> QED
    BY <1>2, <1>4, <1>5, <2>1 DEF CredentialsAccepted, poolVars
<1>6. CASE ReadOrganization
  <2>1. FetchAhead(phase, orgLeft) = orgLeft + 2 /\ FetchAhead(phase', orgLeft') = (orgLeft - 1) + 2
    BY <1>2, <1>6, AheadCases DEF ReadOrganization
  <2> QED
    BY <1>2, <1>4, <1>6, <2>1 DEF ReadOrganization, poolVars
<1>7. CASE \/ CredentialsRefused \/ ProjectsRefused \/ FailCancelled \/ FailMissing
           \/ ReturnSnapshot
  <2>1. FetchAhead(phase', orgLeft') = 0
    BY <1>7, AheadCases DEF CredentialsRefused, ProjectsRefused, FailCancelled, FailMissing,
       ReturnSnapshot, Fail
  <2>2. FetchAhead(phase, orgLeft) > 0
    BY <1>2, <1>7, AheadCases DEF CredentialsRefused, ProjectsRefused, FailCancelled, FailMissing,
       ReturnSnapshot
  <2> QED
    BY <1>1, <1>4, <1>7, <2>1, <2>2 DEF CredentialsRefused, ProjectsRefused, FailCancelled,
       FailMissing, ReturnSnapshot, Fail, poolVars
<1>8. CASE ProjectsListed
  <2>1. FetchAhead(phase, orgLeft) = 2 /\ FetchAhead(phase', orgLeft') = 1
    BY <1>8, AheadCases DEF ProjectsListed
  <2>2. ASSUME NEW p \in Project PROVE ProjectAhead(proj'[p]) <= ProjectAhead(proj[p])
    <3>1. proj[p] = "none" /\ proj'[p] \in {"none", "queued"}
      BY <1>8 DEF IInv, Progression, NotStarted, ProjectsListed
    <3> QED
      BY <3>1, AheadCases
  <2> QED
    <3>1. repo' = repo /\ left' = left /\ cancelled' = cancelled
      BY <1>8 DEF ProjectsListed
    <3>2. FetchAhead(phase', orgLeft') < FetchAhead(phase, orgLeft)
      BY <2>1
    <3>3. FetchAhead(phase', orgLeft') <= FetchAhead(phase, orgLeft)
      BY <2>1
    <3>4. \A r \in Repo : RepoAhead(repo'[r], left'[r]) <= RepoAhead(repo[r], left[r])
      <4> TAKE r \in Repo
      <4>1. RepoAhead(repo'[r], left'[r]) = RepoAhead(repo[r], left[r])
        BY <3>1
      <4> QED
        BY <1>1, <4>1
    <3>5. \A p \in Project : ProjectAhead(proj'[p]) <= ProjectAhead(proj[p])
      BY <2>2
    <3>6. cancelled => cancelled'
      BY <3>1
    <3> QED
      BY <3>2, <3>3, <3>4, <3>5, <3>6 DEF StepCounts
<1> QED
  BY <1>3, <1>5, <1>6, <1>7, <1>8 DEF MainStep

(* A step of a project, which may start its repositories. *)
LEMMA ProjectCounts == ASSUME IInv, NEW p \in Project, ProjectStep(p) PROVE StepCounts
<1>1. /\ FetchAhead(phase, orgLeft) \in Nat
      /\ \A q \in Project : ProjectAhead(proj[q]) \in Nat
      /\ \A r \in Repo : RepoAhead(repo[r], left[r]) \in Nat
  BY AheadType
<1>2. /\ phase' = phase /\ orgLeft' = orgLeft /\ cancelled' = cancelled /\ left' = left
      /\ \A q \in Project : q # p => proj'[q] = proj[q]
  BY DEF IInv, TypeOK, ProjectStep, TakeProjectSlot, GiveUpProjectSlot, RepositoriesListed,
     RepositoriesRefused, RecordUnlisted, ListingCancelled, JoinProject, LeaveProject, fetchVars
<1>3. ProjectAhead(proj'[p]) < ProjectAhead(proj[p])
  <2>1. \/ proj[p] = "queued" /\ proj'[p] \in {"listing", "failed"}
        \/ proj[p] = "listing" /\ proj'[p] \in {"refused", "fetching", "failed"}
        \/ proj[p] \in {"refused", "fetching"} /\ proj'[p] \in {"done", "failed"}
    BY DEF IInv, TypeOK, ProjectStep, TakeProjectSlot, GiveUpProjectSlot, RepositoriesListed,
       RepositoriesRefused, RecordUnlisted, ListingCancelled, JoinProject, LeaveProject
  <2> QED
    BY <2>1, AheadCases
<1>4. ASSUME NEW r \in Repo PROVE RepoAhead(repo'[r], left'[r]) <= RepoAhead(repo[r], left[r])
  <2>1. repo'[r] = repo[r] \/ (repo[r] = "none" /\ repo'[r] = "queued")
    BY ScopeFacts DEF IInv, TypeOK, Ownership, ProjectStep, TakeProjectSlot, GiveUpProjectSlot,
       RepositoriesListed, RepositoriesRefused, RecordUnlisted, ListingCancelled, JoinProject
  <2>2. Reads \in Nat /\ RepoAhead(repo[r], left[r]) \in Nat
    BY <1>1, FetchAssumption
  <2>3. CASE repo'[r] = repo[r]
    BY <1>2, <2>2, <2>3
  <2>4. CASE repo[r] = "none" /\ repo'[r] = "queued"
    BY <1>2, <2>2, <2>4, AheadCases
  <2> QED
    BY <2>1, <2>3, <2>4
<1>5. \A q \in Project : ProjectAhead(proj'[q]) <= ProjectAhead(proj[q])
  <2> TAKE q \in Project
  <2>1. CASE q = p
    <3>1. proj'[p] \in {"listing", "refused", "failed", "fetching", "done"}
      BY DEF IInv, TypeOK, ProjectStep, TakeProjectSlot, GiveUpProjectSlot, RepositoriesListed,
         RepositoriesRefused, RecordUnlisted, ListingCancelled, JoinProject, LeaveProject
    <3>2. ProjectAhead(proj'[p]) \in Nat
      BY <3>1, AheadCases
    <3> QED
      BY <1>1, <1>3, <2>1, <3>2
  <2>2. CASE q # p
    BY <1>1, <1>2, <2>2
  <2> QED
    BY <2>1, <2>2
<1> QED
  BY <1>1, <1>2, <1>3, <1>4, <1>5 DEF StepCounts

(* A step of a repository. *)
LEMMA RepoCounts == ASSUME IInv, NEW r \in Repo, RepoStep(r) PROVE StepCounts
<1>1. /\ FetchAhead(phase, orgLeft) \in Nat
      /\ \A p \in Project : ProjectAhead(proj[p]) \in Nat
      /\ \A s \in Repo : RepoAhead(repo[s], left[s]) \in Nat
  BY AheadType
<1>2. /\ phase' = phase /\ orgLeft' = orgLeft /\ cancelled' = cancelled /\ proj' = proj
      /\ \A s \in Repo : s # r => repo'[s] = repo[s] /\ left'[s] = left[s]
  BY DEF IInv, TypeOK, RepoStep, TakeRepoSlot, GiveUpRepoSlot, ReadSetting, FinishRepository,
     StoreRepository, fetchVars
<1>3. Reads \in Nat /\ left[r] \in Nat
  BY FetchAssumption DEF IInv, TypeOK
<1>4. /\ RepoAhead(repo'[r], left'[r]) < RepoAhead(repo[r], left[r])
      /\ RepoAhead(repo'[r], left'[r]) \in Nat
  <2>1. CASE TakeRepoSlot(r)
    <3>1. repo[r] = "queued" /\ repo'[r] = "reading" /\ left'[r] \in {1, 1 + Reads}
      BY <2>1 DEF IInv, TypeOK, TakeRepoSlot
    <3>2. RepoAhead(repo[r], left[r]) = Reads + 4 /\ RepoAhead(repo'[r], left'[r]) = left'[r] + 2
      BY <3>1, AheadCases
    <3> QED
      BY <1>3, <3>1, <3>2
  <2>2. CASE ReadSetting(r)
    <3>1. repo[r] = "reading" /\ repo'[r] = "reading" /\ left[r] > 0 /\ left'[r] = left[r] - 1
      BY <2>2 DEF IInv, TypeOK, ReadSetting
    <3>2. RepoAhead(repo[r], left[r]) = left[r] + 2 /\ RepoAhead(repo'[r], left'[r]) = left'[r] + 2
      BY <3>1, AheadCases
    <3> QED
      BY <1>3, <3>1, <3>2
  <2>3. CASE GiveUpRepoSlot(r) \/ FinishRepository(r)
    <3>1. repo[r] \in {"queued", "reading"} /\ repo'[r] \in {"lost", "whole"}
      BY <2>3 DEF IInv, TypeOK, GiveUpRepoSlot, FinishRepository
    <3>2. /\ RepoAhead(repo[r], left[r]) \in {Reads + 4, left[r] + 2}
          /\ RepoAhead(repo'[r], left'[r]) \in {0, 1}
      BY <3>1, AheadCases
    <3> QED
      BY <1>3, <3>2
  <2>4. CASE StoreRepository(r)
    <3>1. repo[r] = "whole" /\ repo'[r] = "kept"
      BY <2>4 DEF IInv, TypeOK, StoreRepository
    <3> QED
      BY <3>1, AheadCases
  <2> QED
    BY <2>1, <2>2, <2>3, <2>4 DEF RepoStep
<1>5. \A s \in Repo : RepoAhead(repo'[s], left'[s]) <= RepoAhead(repo[s], left[s])
  <2> TAKE s \in Repo
  <2>1. CASE s = r
    BY <1>1, <1>4, <2>1
  <2>2. CASE s # r
    BY <1>1, <1>2, <2>2
  <2> QED
    BY <2>1, <2>2
<1>6. \A p \in Project : ProjectAhead(proj'[p]) <= ProjectAhead(proj[p])
  BY <1>1, <1>2
<1> QED
  BY <1>1, <1>2, <1>4, <1>5, <1>6 DEF StepCounts

(* The steps of a scan are numbered: with NobodyWaitsInACircle this is all  *)
(* that Terminates says but for the fairness.                              *)
THEOREM NothingIsDoneOver == Spec => EveryStepCounts
<1>1. IInv /\ [Next]_vars => [StepCounts]_vars
  <2> SUFFICES ASSUME IInv, Next, ~UNCHANGED vars PROVE StepCounts
    OBVIOUS
  <2>1. ~Returned
    BY DEF Returned
  <2> QED
    BY <2>1, MainCounts, ProjectCounts, RepoCounts DEF Next
<1> QED
  BY <1>1, Invariance, PTL DEF Spec, EveryStepCounts

(* The contract is stated over the same scope. *)
LEMMA SameScope ==
  /\ Contract!Visited = Visited
  /\ Contract!Failures = Failures
  /\ \A gone : Contract!Coverage(gone) = Coverage(gone)
  /\ \A found, gone : Contract!Missing(found, gone) = Missing(found, gone)
<1>1. \A r : Contract!Selects(r) = Selects(r)
  BY DEF Contract!Selects, Selects
<1>2. \A p : Contract!Selected(p) = Selected(p)
  BY <1>1 DEF Contract!Selected, Selected
<1>3. Contract!Visited = Visited
  BY DEF Contract!Visited, Visited, Contract!Named, Named
<1> QED
  BY <1>2, <1>3 DEF Contract!Failures, Failures, Contract!Coverage, Coverage,
     Contract!Missing, Missing

(* Every step of the scan is a step of ScanContract or changes nothing the *)
(* command can see.                                                        *)
THEOREM Refinement == Spec => ImplementsContract
<1>1. Init => Contract!Init
  BY DEF Init, WrittenOff, Contract!Init
<1>2. IInv /\ [Next]_vars => [Contract!Next]_(Contract!vars)
  <2> SUFFICES ASSUME IInv, [Next]_vars PROVE [Contract!Next]_(Contract!vars)
    OBVIOUS
  <2>1. CASE Cancel
    BY <2>1 DEF Cancel, poolVars, WrittenOff, Contract!Next, Contract!Interrupt
  <2>2. CASE CredentialsRefused \/ ProjectsRefused
    <3>1. \E why \in {"credentials", "projects"} : Fail(why) /\ outcome = "pending"
      BY <2>2 DEF CredentialsRefused, ProjectsRefused, IInv, Progression
    <3>2. \E why \in Failures : Contract!Fail(why)
      BY <3>1 DEF Fail, poolVars, WrittenOff, Contract!Fail, Failures
    <3> QED
      BY <3>2, SameScope DEF Contract!Next
  <2>3. CASE FailCancelled
    <3>1. cancelled /\ outcome = "pending"
      BY <2>3, ScopeFacts DEF FailCancelled, IInv, Losses, Progression
    <3>2. Contract!Fail("cancelled")
      BY <2>3, <3>1 DEF FailCancelled, Fail, poolVars, WrittenOff, Contract!Fail
    <3> QED
      BY <3>2, SameScope DEF Contract!Next, Failures
  <2>4. CASE FailMissing
    <3>1. Found = Coverage(unlisted) /\ outcome = "pending" /\ WrittenOff = unlisted
      BY <2>4, FoundIsCoverage, AllRecorded DEF FailMissing, IInv, Progression
    <3>2. WrittenOff' = WrittenOff
      BY <2>4 DEF FailMissing, Fail, poolVars, WrittenOff
    <3>3. Contract!Fail("missing")
      BY <2>4, <3>1, <3>2, SameScope DEF FailMissing, Fail, Contract!Fail
    <3> QED
      BY <3>3, SameScope DEF Contract!Next, Failures
  <2>5. CASE ReturnSnapshot
    <3>1. Found = Coverage(unlisted) /\ outcome = "pending" /\ WrittenOff = unlisted
      BY <2>5, FoundIsCoverage, AllRecorded DEF ReturnSnapshot, IInv, Progression
    <3>2. WrittenOff' = WrittenOff
      BY <2>5 DEF ReturnSnapshot, poolVars, WrittenOff
    <3>3. Contract!Deliver
      BY <2>5, <3>1, <3>2, SameScope DEF ReturnSnapshot, Contract!Deliver
    <3> QED
      BY <3>3 DEF Contract!Next
  <2>6. CASE CredentialsAccepted \/ ReadOrganization \/ ProjectsListed
    <3>1. WrittenOff' = WrittenOff
      BY <2>6 DEF IInv, Progression, NotStarted, CredentialsAccepted, ReadOrganization,
         ProjectsListed, poolVars, WrittenOff
    <3> QED
      BY <2>6, <3>1 DEF CredentialsAccepted, ReadOrganization, ProjectsListed, Contract!vars
  <2>7. ASSUME NEW p \in Project, RepositoriesRefused(p)
        PROVE  [Contract!Next]_(Contract!vars)
    <3>1. p \in Visited /\ outcome = "pending"
      BY <2>7, NothingRunsWhileDecided DEF RepositoriesRefused, IInv, Progression
    <3>2. WrittenOff' = WrittenOff \cup {p}
      BY <2>7 DEF IInv, TypeOK, RepositoriesRefused, WrittenOff
    <3>3. Contract!SetAside(p)
      BY <2>7, <3>1, <3>2 DEF RepositoriesRefused, Contract!SetAside
    <3> QED
      BY <3>1, <3>3, SameScope DEF Contract!Next
  <2>8. ASSUME NEW p \in Project, ProjectStep(p), ~RepositoriesRefused(p)
        PROVE  UNCHANGED Contract!vars
    <3>1. WrittenOff' = WrittenOff
      BY <2>8 DEF IInv, TypeOK, ProjectStep, TakeProjectSlot, GiveUpProjectSlot,
         RepositoriesListed, RecordUnlisted, ListingCancelled, JoinProject, LeaveProject,
         WrittenOff
    <3> QED
      BY <2>8, <3>1 DEF ProjectStep, TakeProjectSlot, GiveUpProjectSlot, RepositoriesListed,
         RecordUnlisted, ListingCancelled, JoinProject, Contract!vars
  <2>9. ASSUME NEW r \in Repo, RepoStep(r) PROVE UNCHANGED Contract!vars
    BY <2>9 DEF RepoStep, TakeRepoSlot, GiveUpRepoSlot, ReadSetting, FinishRepository,
       StoreRepository, WrittenOff, Contract!vars
  <2>10. CASE Returned \/ UNCHANGED vars
    BY <2>10 DEF Returned, vars, poolVars, WrittenOff, Contract!vars
  <2> QED
    BY <2>1, <2>2, <2>3, <2>4, <2>5, <2>6, <2>7, <2>8, <2>9, <2>10 DEF Next,
       MainStep
<1> QED
  BY <1>1, <1>2, Invariance, PTL DEF Spec, ImplementsContract, Contract!Spec
==============================================================================
