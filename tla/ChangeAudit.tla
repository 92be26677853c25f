---------------------------- MODULE ChangeAudit ----------------------------
(***************************************************************************)
(* How one repository's settings for changes are read and judged:          *)
(* fetchRepository (src/internal/scm/bitbucketdc/fetcher.go), whose reads  *)
(* may each fail, and the controls under src/internal/checks/policies that *)
(* see only what was read.  The repository itself is chosen at the start   *)
(* and does not change.                                                    *)
(***************************************************************************)
EXTENDS Integers, FiniteSets

CONSTANTS
  Branch,      \* branch names
  NoBranch,    \* an empty default branch name
  Restriction, \* branch restrictions
  TypeOf,      \* the type of each
  Exempt,      \* the principals and groups each one exempts
  Principal,   \* people and access keys
  Group,
  Members,     \* who is in each group
  Condition,   \* required-build conditions
  Exemption,   \* those of them with an exemption
  Matcher,     \* how each restriction and condition selects branches ...
  ExemptMatcher, \* ... and each exemption
  Hooks,       \* hooks that stop a change and that a control looks for
  Allowed,     \* allowedBypassPrincipals, who are people
  MaxBypass,   \* thresholds.maxBypassPrincipals, -1 for no limit
  MaxStale,    \* thresholds.maxStaleBranches
  Worlds       \* the repositories to be audited

Type == {"pull-request-only", "read-only", "no-deletes", "fast-forward-only"}

(* A matcher names branches by name or pattern, or through the branch      *)
(* model, or in a way this program does not know.  An unknown matcher that *)
(* names the default branch exactly counts with the first.                 *)
Reading == {"name", "model", "unknown"}

(* The merge checks of a repository that a control asks for, each of them  *)
(* met or not; "builds" is a minimum number of successful builds.          *)
PrCheck == {"approvals", "reset", "tasks", "linear", "builds"}

(* covering, gating and exempting: the restrictions, the conditions and the *)
(* exemptions whose matcher selects the configured default branch's name.  *)
World ==
  [archived : BOOLEAN,
   branches : SUBSET Branch, configured : Branch, stale : SUBSET Branch,
   restrictions : SUBSET Restriction, covering : SUBSET Restriction,
   conditions : SUBSET Condition, gating : SUBSET Condition, exempting : SUBSET Condition,
   hooks : SUBSET Hooks, policy : BOOLEAN, pr : SUBSET PrCheck]

(* A default branch may be configured that nobody has pushed. *)
HasDefault(w) == w.configured \in w.branches

Consistent(w) ==
  /\ w.stale \subseteq w.branches \ {w.configured}
  /\ w.covering \subseteq w.restrictions
  /\ w.gating \subseteq w.conditions
  /\ w.exempting \subseteq w.conditions \cap Exemption
  /\ w.policy => HasDefault(w)

ASSUME AuditAssumption ==
  /\ IsFiniteSet(Branch) /\ NoBranch \notin Branch
  /\ IsFiniteSet(Principal) /\ Allowed \subseteq Principal
  /\ TypeOf \in [Restriction -> Type]
  /\ Exempt \in [Restriction -> SUBSET (Principal \cup Group)]
  /\ Members \in [Group -> SUBSET Principal]
  /\ Exemption \subseteq Condition
  /\ Matcher \in [Restriction \cup Condition -> Reading]
  /\ ExemptMatcher \in [Exemption -> Reading]
  /\ MaxBypass \in Int /\ MaxStale \in Nat
  /\ Worlds \subseteq World /\ \A w \in Worlds : Consistent(w)

VARIABLES
  world,    \* the repository as it is
  stage,    \* the read fetchRepository is about to make
  resolved, \* branchModel.resolved
  repo      \* scm.Repository: what was read
vars == <<world, stage, resolved, repo>>

Part == {"branches", "branchAges", "defaultBranch", "pullRequestSettings", "mergeStrategies",
         "branchRestrictions", "requiredBuilds", "hooks", "files"}

Unread ==
  [available |-> {}, archived |-> FALSE, empty |-> FALSE, default |-> NoBranch,
   old |-> {}, undated |-> {},
   restrictions |-> {}, matches |-> {}, unknown |-> {},
   exempt |-> [r \in Restriction |-> {}], partial |-> {},
   builds |-> {}, gates |-> {}, undecided |-> {},
   hooks |-> {}, policy |-> FALSE, pr |-> {}]

Init ==
  /\ world \in Worlds
  /\ stage = "branches"
  /\ resolved = FALSE
  /\ repo = [Unread EXCEPT !.archived = world.archived]

Goes(from, to) == stage = from /\ stage' = to /\ UNCHANGED world
Gets(part) == repo.available \cup {part}
Known(part) == part \in repo.available

-----------------------------------------------------------------------------
(* The reads, in the order fetchRepository makes them. *)

(* An archived repository takes no changes, and none of them is made. *)
SkipArchived ==
  /\ repo.archived
  /\ Goes("branches", "done")
  /\ UNCHANGED <<resolved, repo>>

(* listBranches: the tips' ages come with the list or from a lookup of     *)
(* each commit, and may be missing for any branch.                         *)
BranchesListed(undated) ==
  /\ ~repo.archived
  /\ Goes("branches", "default")
  /\ repo' = [repo EXCEPT
       !.available = Gets("branches") \cup (IF undated = {} THEN {"branchAges"} ELSE {}),
       !.empty = (world.branches = {}),
       !.old = world.stale \ undated,
       !.undated = undated \ {world.configured}]
  /\ UNCHANGED resolved

(* Mutation: emptiness is read off the list of branches, failed or not. *)
BranchesUnreadEmpty ==
  /\ ~repo.archived
  /\ Goes("branches", "default")
  /\ repo' = [repo EXCEPT !.empty = TRUE]
  /\ UNCHANGED resolved

BranchesUnread ==
  /\ ~repo.archived
  /\ Goes("branches", "default")
  /\ UNCHANGED <<resolved, repo>>

(* Mutation: the configured name is believed, whatever the list says. *)
ResolveDefaultBranchConfigured(known) ==
  /\ Goes("default", "model")
  /\ repo' = IF known
             THEN [repo EXCEPT !.available = Gets("defaultBranch"), !.default = world.configured]
             ELSE repo
  /\ UNCHANGED resolved

(* resolveDefaultBranch: the listed default.  Where none is listed the     *)
(* configured name is asked for; it stands for the default branch of an    *)
(* empty repository, if it is known, and of no other.                      *)
ResolveDefaultBranch(known) ==
  /\ Goes("default", "model")
  /\ repo' = IF Known("branches") /\ (repo.empty \/ HasDefault(world))
             THEN [repo EXCEPT
                     !.available = Gets("defaultBranch"),
                     !.default = IF repo.empty /\ ~known THEN NoBranch ELSE world.configured]
             ELSE repo
  /\ UNCHANGED resolved

ReadBranchModel(ok) ==
  /\ Goes("model", "pull requests")
  /\ resolved' = ok
  /\ UNCHANGED repo

(* The settings may come without any merge strategy. *)
PullRequestSettingsRead(strategies) ==
  /\ Goes("pull requests", "restrictions")
  /\ repo' = [repo EXCEPT
       !.available = Gets("pullRequestSettings")
                       \cup (IF strategies THEN {"mergeStrategies"} ELSE {}),
       !.pr = world.pr]
  /\ UNCHANGED resolved

(* matchesDefaultBranch can tell: it has a branch to match, and what the   *)
(* matcher says of it was read and is understood.                          *)
Decidable(matcher) ==
  /\ repo.default # NoBranch
  /\ matcher = "name" \/ (matcher = "model" /\ resolved)

(* Mutation: an unread model is taken to cover the default branch. *)
MatchesGuess(r) ==
  repo.default # NoBranch /\ IF Matcher[r] = "model" /\ ~resolved
                             THEN TRUE
                             ELSE r \in world.covering /\ Decidable(Matcher[r])

Matches(r) == r \in world.covering /\ Decidable(Matcher[r])

(* expandPrincipals, when the groups in lost could not be expanded. *)
Expanded(r, lost) ==
  (Exempt[r] \cap Principal) \cup UNION {Members[g] : g \in (Exempt[r] \cap Group) \ lost}

(* fetchBranchRestrictions.  Which groups were lost may differ from one    *)
(* restriction to the next: another repository's goroutine may fill the    *)
(* memo in between.                                                        *)
RestrictionsRead(lost) ==
  /\ Goes("restrictions", "builds")
  /\ repo' = [repo EXCEPT
       !.available = Gets("branchRestrictions"),
       !.restrictions = world.restrictions,
       !.matches = {r \in world.restrictions : Matches(r)},
       !.unknown = {r \in world.restrictions : ~Decidable(Matcher[r]) /\ Known("defaultBranch")},
       !.exempt = [r \in Restriction |->
                     IF r \in world.restrictions THEN Expanded(r, lost[r]) ELSE {}],
       !.partial = {r \in world.restrictions : Exempt[r] \cap Group \cap lost[r] # {}}]
  /\ UNCHANGED resolved

(* fetchRequiredBuilds: a condition counts only when it covers the default  *)
(* branch and no exemption does, or may.                                   *)
Gates(c) ==
  /\ c \in world.gating /\ Decidable(Matcher[c])
  /\ c \in Exemption => c \notin world.exempting /\ Decidable(ExemptMatcher[c])

(* Mutation: a condition is in doubt wherever an exemption might apply. *)
UndecidedIfExempted(c) ==
  Known("defaultBranch") /\ (~Decidable(Matcher[c]) \/ c \in Exemption)

(* It, or its exemption, may cover the default branch or not. *)
Undecided(c) ==
  /\ Known("defaultBranch")
  /\ \/ ~Decidable(Matcher[c])
     \/ c \in Exemption /\ ~Decidable(ExemptMatcher[c])

RequiredBuildsRead ==
  /\ Goes("builds", "hooks")
  /\ repo' = [repo EXCEPT
       !.available = Gets("requiredBuilds"),
       !.builds = world.conditions,
       !.gates = {c \in world.conditions : Gates(c)},
       !.undecided = {c \in world.conditions : Undecided(c)}]
  /\ UNCHANGED resolved

HooksRead ==
  /\ Goes("hooks", "files")
  /\ repo' = [repo EXCEPT !.available = Gets("hooks"), !.hooks = world.hooks]
  /\ UNCHANGED resolved

(* fetchSecurityPolicy asks for the configured paths on the default branch *)
(* until one is a file; nothing is asked of an empty repository, and       *)
(* nothing known where the default branch is not.                          *)
Browsable == ~repo.empty /\ repo.default # NoBranch

FilesUnbrowsable ==
  /\ ~Browsable
  /\ Goes("files", "done")
  /\ repo' = IF repo.empty THEN [repo EXCEPT !.available = Gets("files")] ELSE repo
  /\ UNCHANGED resolved

FilesBrowsed ==
  /\ Browsable
  /\ Goes("files", "done")
  /\ repo' = [repo EXCEPT !.available = Gets("files"), !.policy = world.policy]
  /\ UNCHANGED resolved

(* A read that fails leaves its part of the repository as it was, marked    *)
(* unavailable, and the next one follows.                                  *)
ReadFails ==
  /\ \/ Goes("pull requests", "restrictions")
     \/ Goes("restrictions", "builds")
     \/ Goes("builds", "hooks")
     \/ Goes("hooks", "files")
     \/ Browsable /\ Goes("files", "done")
  /\ UNCHANGED <<resolved, repo>>

Audited == stage = "done" /\ UNCHANGED vars

Next ==
  \/ SkipArchived
  \/ \E undated \in SUBSET world.branches : BranchesListed(undated)
  \/ BranchesUnread
  \/ \E known \in BOOLEAN : ResolveDefaultBranch(known)
  \/ \E ok \in BOOLEAN : ReadBranchModel(ok)
  \/ \E strategies \in BOOLEAN : PullRequestSettingsRead(strategies)
  \/ \E lost \in [Restriction -> SUBSET Group] : RestrictionsRead(lost)
  \/ RequiredBuildsRead
  \/ HooksRead
  \/ FilesUnbrowsable \/ FilesBrowsed
  \/ ReadFails
  \/ Audited

Spec == Init /\ [][Next]_vars

-----------------------------------------------------------------------------
(* The controls: what the policies answer from what was read.  Each is a    *)
(* chain of cases in the code; here the cases are conditions that exclude   *)
(* one another, and whatever meets none of them is left to a human.         *)

Ruling(notApplicable, passes, fails) ==
  IF repo.archived \/ notApplicable THEN "NA"
  ELSE IF passes THEN "PASS" ELSE IF fails THEN "FAIL" ELSE "MANUAL"

(* lib.default_branch_known *)
DefaultBranchKnown == Known("defaultBranch") /\ repo.default # NoBranch

Of(kinds) == {r \in repo.restrictions : TypeOf[r] \in kinds}
Matching(kinds) == {r \in repo.matches : TypeOf[r] \in kinds}
Unresolved(kinds) == {r \in repo.unknown : TypeOf[r] \in kinds}

(* Mutation: whoever any of the restrictions exempts counts. *)
BypassUnion(rs) == {p \in Principal \ Allowed : \E r \in rs : p \in repo.exempt[r]}

(* lib.bypass_principals and lib.bypass_access_keys: whom all of the       *)
(* restrictions exempt.                                                    *)
Bypass(rs) ==
  {p \in Principal \ Allowed : rs # {} /\ \A r \in rs : p \in repo.exempt[r]}

BypassComplete(rs) == rs \cap repo.partial = {} \/ \E r \in rs : Exempt[r] = {}
BypassExceeded(rs) == MaxBypass >= 0 /\ Cardinality(Bypass(rs)) > MaxBypass
BypassUndecidable(rs) == MaxBypass >= 0 /\ ~BypassExceeded(rs) /\ ~BypassComplete(rs)

(* Nothing protects any branch, or nothing that was read protects the      *)
(* default branch, or not enough, and nothing in doubt can.                *)
Exposed(kinds) ==
  /\ Known("branchRestrictions")
  /\ \/ Of(kinds) = {}
     \/ /\ DefaultBranchKnown
        /\ Unresolved(kinds) = {}
        /\ Matching(kinds) = {} \/ BypassExceeded(Matching(kinds))

(* Mutation: who was not seen in a group is nobody. *)
GuardedLowerBound(kinds) ==
  /\ Known("branchRestrictions") /\ DefaultBranchKnown
  /\ Matching(kinds) # {}
  /\ ~BypassExceeded(Matching(kinds))

Guarded(kinds) ==
  /\ Known("branchRestrictions") /\ DefaultBranchKnown
  /\ Matching(kinds) # {}
  /\ ~BypassUndecidable(Matching(kinds))
  /\ ~BypassExceeded(Matching(kinds))

HasHook(hook) == Known("hooks") /\ hook \in repo.hooks
LacksHook(hook) == Known("hooks") /\ hook \notin repo.hooks

DirectPushes == Ruling(repo.empty, Guarded({"pull-request-only", "read-only"}),
                                   Exposed({"pull-request-only", "read-only"}))
Deletion == Ruling(repo.empty, Guarded({"no-deletes", "read-only"}),
                               Exposed({"no-deletes", "read-only"}))

(* The hook that rejects every force push settles it, and while it is not  *)
(* known to be absent nothing can fail.                                    *)
ForcePushes ==
  Ruling(repo.empty,
         HasHook("force push") \/ Guarded({"fast-forward-only", "read-only"}),
         LacksHook("force push") /\ Exposed({"fast-forward-only", "read-only"}))

(* A minimum of builds gates every branch.  "Nothing does" takes both      *)
(* sources, and a default branch only when some condition exists.          *)
BuildGate ==
  Ruling(repo.empty,
         repo.gates # {} \/ "builds" \in repo.pr,
         /\ Known("requiredBuilds") /\ Known("pullRequestSettings")
         /\ repo.builds = {} \/ (DefaultBranchKnown /\ repo.undecided = {}))

StaleBranches ==
  Ruling(repo.empty,
         /\ Known("branches") /\ Known("branchAges")
         /\ Cardinality(repo.old) <= MaxStale /\ repo.undated = {},
         /\ Known("branches") /\ Known("branchAges")
         /\ Cardinality(repo.old) > MaxStale)

SecurityPolicy ==
  Ruling(repo.empty, Known("files") /\ repo.policy, Known("files") /\ ~repo.policy)

SignedCommits == Ruling(FALSE, HasHook("signature"), LacksHook("signature"))

(* The merge checks; linear history is read off the merge strategies. *)
MergeCheck(check, part) ==
  Ruling(FALSE, Known(part) /\ check \in repo.pr, Known(part) /\ check \notin repo.pr)

Approvals == MergeCheck("approvals", "pullRequestSettings")
ApprovalReset == MergeCheck("reset", "pullRequestSettings")
Tasks == MergeCheck("tasks", "pullRequestSettings")
LinearHistory == MergeCheck("linear", "mergeStrategies")

Control == {"1.1.3", "1.1.4", "1.1.8", "1.1.9", "1.1.11", "1.1.12", "1.1.13",
            "1.1.15", "1.1.16", "1.1.17", "1.2.1"}

Verdict(control) ==
  CASE control = "1.1.3"  -> Approvals
    [] control = "1.1.4"  -> ApprovalReset
    [] control = "1.1.8"  -> StaleBranches
    [] control = "1.1.9"  -> BuildGate
    [] control = "1.1.11" -> Tasks
    [] control = "1.1.12" -> SignedCommits
    [] control = "1.1.13" -> LinearHistory
    [] control = "1.1.15" -> DirectPushes
    [] control = "1.1.16" -> ForcePushes
    [] control = "1.1.17" -> Deletion
    [] control = "1.2.1"  -> SecurityPolicy

-----------------------------------------------------------------------------
(* What the controls are about, of the repository as it is. *)

Everyone(r) ==
  {p \in Principal : p \in Exempt[r] \/ \E g \in Exempt[r] \cap Group : p \in Members[g]}
Covering(kinds) == {r \in world.covering : HasDefault(world) /\ TypeOf[r] \in kinds}

(* Whom nothing that covers the default branch binds. *)
Unbound(kinds) == {p \in Principal \ Allowed : \A r \in Covering(kinds) : p \in Everyone(r)}

Protected(kinds) ==
  /\ Covering(kinds) # {}
  /\ \/ MaxBypass < 0
     \/ Cardinality(Unbound(kinds)) <= MaxBypass

GatedOnBuilds ==
  \/ "builds" \in world.pr
  \/ HasDefault(world) /\ world.gating \ world.exempting # {}

Holds(control) ==
  CASE control = "1.1.3"  -> "approvals" \in world.pr
    [] control = "1.1.4"  -> "reset" \in world.pr
    [] control = "1.1.8"  -> Cardinality(world.stale) <= MaxStale
    [] control = "1.1.9"  -> GatedOnBuilds
    [] control = "1.1.11" -> "tasks" \in world.pr
    [] control = "1.1.12" -> "signature" \in world.hooks
    [] control = "1.1.13" -> "linear" \in world.pr
    [] control = "1.1.15" -> Protected({"pull-request-only", "read-only"})
    [] control = "1.1.16" -> \/ "force push" \in world.hooks
                             \/ Protected({"fast-forward-only", "read-only"})
    [] control = "1.1.17" -> Protected({"no-deletes", "read-only"})
    [] control = "1.2.1"  -> world.policy

(* Nobody can change an archived repository, and an empty one has no        *)
(* branch to protect, gate, prune or browse.                               *)
OfBranches == {"1.1.8", "1.1.9", "1.1.15", "1.1.16", "1.1.17", "1.2.1"}
Applies(control) == ~world.archived /\ (control \in OfBranches => world.branches # {})

-----------------------------------------------------------------------------
(* Properties. *)

(* Of its branches: a recorded default branch exists, and an undated one    *)
(* is the only one that may be stale without being so recorded.            *)
BranchesRecorded ==
  /\ repo.archived = world.archived
  /\ repo.empty => world.branches = {}
  /\ repo.default # NoBranch =>
       repo.default = world.configured /\ (repo.empty \/ HasDefault(world))
  /\ Known("defaultBranch") => repo.empty \/ repo.default # NoBranch
  /\ Known("branches") => /\ repo.empty = (world.branches = {})
                          /\ repo.old \cup repo.undated \subseteq
                               world.branches \ {world.configured}
                          /\ world.stale \ repo.undated = repo.old
  /\ Known("branchAges") => repo.undated = {}

(* Of its restrictions: one recorded as covering the default branch does,   *)
(* one that does is recorded so or as unknown, and who is exempt is exempt. *)
RestrictionsRecorded ==
  /\ repo.restrictions = world.restrictions
  /\ repo.matches \subseteq world.covering
  /\ DefaultBranchKnown => world.covering \ repo.matches \subseteq repo.unknown
  /\ \A r \in world.restrictions :
       /\ repo.exempt[r] \subseteq Everyone(r)
       /\ r \notin repo.partial => repo.exempt[r] = Everyone(r)

(* Of its required builds: one that counts gates the default branch, and    *)
(* one that gates it counts or is undecided.                               *)
BuildsRecorded ==
  /\ repo.builds = world.conditions
  /\ repo.gates \subseteq world.gating \ world.exempting
  /\ repo.default = NoBranch => repo.gates = {}
  /\ DefaultBranchKnown =>
       (world.gating \ world.exempting) \ repo.gates \subseteq repo.undecided

(* What scm.Repository records is true as far as it goes, whichever reads   *)
(* failed: a part marked available is what the repository has, and a part  *)
(* that is not shows nothing a control could pass on.  This is what the    *)
(* fetcher owes the policies.                                              *)
Recorded ==
  /\ BranchesRecorded
  /\ Known("mergeStrategies") => repo.pr = world.pr
  /\ IF Known("pullRequestSettings") THEN repo.pr = world.pr ELSE repo.pr = {}
  /\ IF Known("branchRestrictions") THEN RestrictionsRecorded ELSE repo.matches = {}
  /\ IF Known("requiredBuilds") THEN BuildsRecorded ELSE repo.gates = {}
  /\ Known("hooks") => repo.hooks = world.hooks
  /\ Known("files") /\ ~repo.empty => repo.policy = world.policy

(* A control passes only a repository that meets it, whatever could not be *)
(* read: no failed read, unresolved matcher or unexpanded group is taken   *)
(* for protection.                                                         *)
PassesAreEarned ==
  stage = "done" => \A c \in Control : Verdict(c) = "PASS" => Holds(c)

(* And fails only one that does not: what was not seen is not taken to be  *)
(* absent.                                                                 *)
FailuresAreReal ==
  stage = "done" => \A c \in Control : Verdict(c) = "FAIL" => ~Holds(c)

(* A control is waived only where it does not apply. *)
NotApplicableIsTrue ==
  stage = "done" => \A c \in Control : Verdict(c) = "NA" => ~Applies(c)

(* MANUAL is for what could not be read.  When every read of a repository  *)
(* with a default branch was answered, every matcher understood and every  *)
(* group expanded, every control is decided, and rightly.                  *)
ReadInFull ==
  /\ repo.available = Part /\ resolved
  /\ \A r \in world.restrictions : Matcher[r] # "unknown" /\ r \notin repo.partial
  /\ \A c \in world.conditions :
       Matcher[c] # "unknown" /\ (c \in Exemption => ExemptMatcher[c] # "unknown")

FullReadDecides ==
  stage = "done" /\ ReadInFull =>
    \A c \in Control :
      Verdict(c) = IF ~Applies(c) THEN "NA" ELSE IF Holds(c) THEN "PASS" ELSE "FAIL"
=============================================================================
