------------------------- MODULE ChangeAuditProofs -------------------------
(***************************************************************************)
(* That the controls judge rightly what was read, for every repository,    *)
(* restriction, group and threshold.  What is recorded is true as far as   *)
(* it goes (Recorded), whichever reads fail; the verdicts follow from that *)
(* one state by state.                                                     *)
(***************************************************************************)
EXTENDS ChangeAudit, FiniteSetTheorems, TLAPS

Repository ==
  [available : SUBSET Part, archived : BOOLEAN, empty : BOOLEAN,
   default : Branch \cup {NoBranch}, old : SUBSET Branch, undated : SUBSET Branch,
   restrictions : SUBSET Restriction, matches : SUBSET Restriction,
   unknown : SUBSET Restriction, exempt : [Restriction -> SUBSET Principal],
   partial : SUBSET Restriction,
   builds : SUBSET Condition, gates : SUBSET Condition, undecided : SUBSET Condition,
   hooks : SUBSET Hooks, policy : BOOLEAN, pr : SUBSET PrCheck]

Typed ==
  /\ world \in Worlds
  /\ resolved \in BOOLEAN
  /\ repo \in Repository

(* Nothing that depends on the default branch or on the branch model is    *)
(* read before them.                                                       *)
InOrder ==
  /\ stage = "branches" => repo.available = {} /\ ~repo.empty
  /\ stage = "default" => repo.available \subseteq {"branches", "branchAges"}
  /\ stage \in {"branches", "default"} => repo.default = NoBranch
  /\ stage = "model" => repo.available \subseteq {"branches", "branchAges", "defaultBranch"}

(* What is left in doubt is so for want of the model or of understanding.  *)
Obscure(matcher) == matcher = "unknown" \/ (matcher = "model" /\ ~resolved)

InDoubt ==
  DefaultBranchKnown =>
    /\ Known("branchRestrictions") =>
         \A r \in repo.unknown : r \in world.restrictions /\ Obscure(Matcher[r])
    /\ Known("requiredBuilds") =>
         \A c \in repo.undecided :
           /\ c \in world.conditions
           /\ Obscure(Matcher[c]) \/ (c \in Exemption /\ Obscure(ExemptMatcher[c]))

IInv == Typed /\ InOrder /\ Recorded /\ InDoubt

-----------------------------------------------------------------------------
(* A repository of Worlds is one, and consistent. *)
LEMMA WorldFacts ==
  ASSUME NEW w \in Worlds
  PROVE  /\ w \in World /\ Consistent(w)
         /\ w.archived \in BOOLEAN /\ w.configured \in Branch /\ w.configured # NoBranch
         /\ w.branches \subseteq Branch /\ w.stale \subseteq w.branches \ {w.configured}
         /\ w.covering \subseteq w.restrictions /\ w.restrictions \subseteq Restriction
         /\ w.gating \subseteq w.conditions /\ w.conditions \subseteq Condition
         /\ w.exempting \subseteq w.conditions \cap Exemption
         /\ w.hooks \subseteq Hooks /\ w.pr \subseteq PrCheck /\ w.policy \in BOOLEAN
  BY AuditAssumption DEF World, Consistent

(* Before anything is read, all that is recorded is the archived flag. *)
LEMMA InitIInv == Init => IInv
<1> SUFFICES ASSUME Init PROVE IInv
  OBVIOUS
<1>1. world \in Worlds /\ resolved = FALSE /\ stage = "branches"
  BY DEF Init
<1>2. repo = [Unread EXCEPT !.archived = world.archived]
  BY DEF Init
<1>3. world.archived \in BOOLEAN
  BY <1>1, WorldFacts
<1>4. repo \in Repository
  BY <1>2, <1>3 DEF Unread, Repository
<1>5. /\ repo.available = {} /\ repo.archived = world.archived /\ ~repo.empty
      /\ repo.default = NoBranch /\ repo.matches = {} /\ repo.gates = {} /\ repo.pr = {}
  BY <1>2 DEF Unread
<1>6. Typed
  BY <1>1, <1>4 DEF Typed
<1>7. InOrder /\ Recorded /\ InDoubt
  BY <1>1, <1>5 DEF InOrder, Recorded, BranchesRecorded, InDoubt, Known, DefaultBranchKnown
<1> QED
  BY <1>6, <1>7 DEF IInv

-----------------------------------------------------------------------------
(* Each read keeps what is recorded true.  A lemma per read: first what it  *)
(* writes, then the clauses of Recorded that speak of it.                  *)

(* A step that leaves the default branch leaves whether it is known. *)
SameDefault ==
  /\ world' = world /\ repo'.default = repo.default
  /\ Known("defaultBranch")' <=> Known("defaultBranch")

(* What was recorded of the restrictions stays true while they, the        *)
(* default branch and the repository stay.                                 *)
LEMMA RestrictionsFrame ==
  ASSUME SameDefault, RestrictionsRecorded,
         repo'.restrictions = repo.restrictions, repo'.matches = repo.matches,
         repo'.unknown = repo.unknown, repo'.exempt = repo.exempt,
         repo'.partial = repo.partial
  PROVE  RestrictionsRecorded'
  BY DEF SameDefault, RestrictionsRecorded, DefaultBranchKnown, Everyone

(* So does what was recorded of the required builds. *)
LEMMA BuildsFrame ==
  ASSUME SameDefault, BuildsRecorded,
         repo'.builds = repo.builds, repo'.gates = repo.gates,
         repo'.undecided = repo.undecided
  PROVE  BuildsRecorded'
  BY DEF SameDefault, BuildsRecorded, DefaultBranchKnown

(* And of the branches. *)
LEMMA BranchesFrame ==
  ASSUME SameDefault, Recorded,
         Known("branches")' <=> Known("branches"),
         Known("branchAges")' <=> Known("branchAges"),
         repo'.archived = repo.archived, repo'.empty = repo.empty,
         repo'.old = repo.old, repo'.undated = repo.undated
  PROVE  BranchesRecorded'
  BY DEF SameDefault, BranchesRecorded, Recorded, HasDefault

(* What is in doubt of the restrictions and the builds stays explained.    *)
LEMMA InDoubtFrame ==
  ASSUME SameDefault, InDoubt, resolved' = resolved,
         Known("branchRestrictions")' <=> Known("branchRestrictions"),
         Known("requiredBuilds")' <=> Known("requiredBuilds"),
         repo'.unknown = repo.unknown, repo'.undecided = repo.undecided
  PROVE  InDoubt'
  BY DEF SameDefault, InDoubt, DefaultBranchKnown, Obscure

(* Listing the branches settles emptiness and dates what it can. *)
LEMMA BranchesListedKeeps ==
  ASSUME IInv, NEW undated \in SUBSET world.branches, BranchesListed(undated)
  PROVE  IInv'
<1> USE DEF IInv
<1>1. /\ stage = "branches" /\ stage' = "default" /\ world' = world /\ resolved' = resolved
      /\ ~repo.archived
  BY DEF BranchesListed, Goes
<1>2. /\ repo'.available = {"branches"} \cup (IF undated = {} THEN {"branchAges"} ELSE {})
      /\ repo'.empty = (world.branches = {})
      /\ repo'.old = world.stale \ undated
      /\ repo'.undated = undated \ {world.configured}
  BY <1>1 DEF BranchesListed, Typed, Repository, InOrder, Gets
<1>3. /\ repo'.archived = repo.archived /\ repo'.default = repo.default
      /\ repo'.matches = repo.matches /\ repo'.gates = repo.gates /\ repo'.pr = repo.pr
  BY DEF BranchesListed, Typed, Repository
<1>4. world \in Worlds
  BY DEF Typed
<1>5. repo' \in Repository
  BY <1>4, WorldFacts DEF BranchesListed, Typed, Repository, Gets, Part
<1>6. Typed' /\ InOrder' /\ InDoubt'
  BY <1>1, <1>2, <1>3, <1>5 DEF Typed, InOrder, InDoubt, DefaultBranchKnown, Known
<1>7. /\ repo.archived = world.archived /\ repo.default = NoBranch
      /\ repo.matches = {} /\ repo.gates = {} /\ repo.pr = {}
  BY <1>1 DEF InOrder, Recorded, BranchesRecorded, Known
<1>8. Recorded'
  BY <1>1, <1>2, <1>3, <1>4, <1>7, WorldFacts DEF Recorded, BranchesRecorded, Known
<1> QED
  BY <1>6, <1>8

(* The default branch that is recorded exists, or the repository is empty. *)
LEMMA ResolveDefaultBranchKeeps ==
  ASSUME IInv, NEW known \in BOOLEAN, ResolveDefaultBranch(known)
  PROVE  IInv'
<1> USE DEF IInv
<1>1. /\ stage = "default" /\ stage' = "model" /\ world' = world /\ resolved' = resolved
  BY DEF ResolveDefaultBranch, Goes
<1>2. /\ repo.available \subseteq {"branches", "branchAges"} /\ repo.default = NoBranch
  BY <1>1 DEF InOrder
<1>3. world \in Worlds
  BY DEF Typed
<1>4. CASE ~(Known("branches") /\ (repo.empty \/ HasDefault(world)))
  <2>1. repo' = repo
    BY <1>4 DEF ResolveDefaultBranch
  <2> QED
    BY <1>1, <1>2, <2>1 DEF Typed, InOrder, InDoubt, DefaultBranchKnown, Known, Recorded,
       BranchesRecorded, RestrictionsRecorded, BuildsRecorded, Everyone
<1>5. CASE Known("branches") /\ (repo.empty \/ HasDefault(world))
  <2>1. /\ repo'.available = repo.available \cup {"defaultBranch"}
        /\ repo'.default \in {NoBranch, world.configured}
        /\ repo.empty \/ repo'.default = world.configured
    BY <1>5 DEF ResolveDefaultBranch, Typed, Repository, Gets
  <2>2. /\ repo'.archived = repo.archived /\ repo'.empty = repo.empty
        /\ repo'.old = repo.old /\ repo'.undated = repo.undated
        /\ repo'.matches = repo.matches /\ repo'.gates = repo.gates /\ repo'.pr = repo.pr
    BY <1>5 DEF ResolveDefaultBranch, Typed, Repository
  <2>3. repo' \in Repository
    BY <1>3, <1>5, WorldFacts DEF ResolveDefaultBranch, Typed, Repository, Gets, Part
  <2>4. Typed' /\ InOrder' /\ InDoubt'
    BY <1>1, <1>2, <2>1, <2>3 DEF Typed, InOrder, InDoubt, DefaultBranchKnown, Known
  <2>5. Recorded'
    BY <1>1, <1>2, <1>3, <1>5, <2>1, <2>2, WorldFacts DEF Recorded, BranchesRecorded, Known
  <2> QED
    BY <2>4, <2>5
<1> QED
  BY <1>4, <1>5

(* The merge checks touch nothing else. *)
LEMMA PullRequestSettingsKeeps ==
  ASSUME IInv, NEW strategies \in BOOLEAN, PullRequestSettingsRead(strategies)
  PROVE  IInv'
<1> USE DEF IInv
<1>1. /\ stage = "pull requests" /\ stage' = "restrictions" /\ world' = world
      /\ resolved' = resolved
  BY DEF PullRequestSettingsRead, Goes
<1>2. world \in Worlds
  BY DEF Typed
<1> DEFINE a == repo.available \cup {"pullRequestSettings"}
                  \cup (IF strategies THEN {"mergeStrategies"} ELSE {})
<1>3. repo' = [repo EXCEPT !.available = a, !.pr = world.pr]
  BY DEF PullRequestSettingsRead, Gets
<1>4. repo' \in Repository
  BY <1>2, <1>3, WorldFacts DEF Typed, Repository, Part
<1>5. /\ repo'.available = a /\ repo'.pr = world.pr
      /\ repo'.archived = repo.archived /\ repo'.empty = repo.empty
      /\ repo'.default = repo.default /\ repo'.old = repo.old /\ repo'.undated = repo.undated
      /\ repo'.restrictions = repo.restrictions /\ repo'.matches = repo.matches
      /\ repo'.unknown = repo.unknown /\ repo'.exempt = repo.exempt
      /\ repo'.partial = repo.partial
      /\ repo'.builds = repo.builds /\ repo'.gates = repo.gates
      /\ repo'.undecided = repo.undecided
      /\ repo'.hooks = repo.hooks /\ repo'.policy = repo.policy
  BY <1>3 DEF Typed, Repository
<1> HIDE DEF a
<1>6. /\ "pullRequestSettings" \in a
      /\ \A p \in Part \ {"pullRequestSettings", "mergeStrategies"} :
           p \in a <=> p \in repo.available
  BY DEF a
<1>7. Typed' /\ InOrder'
  BY <1>1, <1>4 DEF Typed, InOrder
<1>8. SameDefault
  BY <1>1, <1>5, <1>6 DEF SameDefault, Known, Part
<1>9. BranchesRecorded'
  BY <1>5, <1>6, <1>8, BranchesFrame DEF Known, Part
<1>10. InDoubt'
  BY <1>1, <1>5, <1>6, <1>8, InDoubtFrame DEF Known, Part
<1>11. Known("branchRestrictions") => RestrictionsRecorded'
  BY <1>5, <1>8, RestrictionsFrame DEF Recorded
<1>12. Known("requiredBuilds") => BuildsRecorded'
  BY <1>5, <1>8, BuildsFrame DEF Recorded
<1>13. Recorded'
  BY <1>1, <1>5, <1>6, <1>9, <1>11, <1>12 DEF Recorded, Known, Part
<1> QED
  BY <1>7, <1>10, <1>13


(* The restrictions are matched against the default branch that is known,  *)
(* and their exempt groups expanded as far as they can be.                 *)
LEMMA RestrictionsKeeps ==
  ASSUME IInv, NEW lost \in [Restriction -> SUBSET Group], RestrictionsRead(lost)
  PROVE  IInv'
<1> USE DEF IInv
<1>1. /\ stage = "restrictions" /\ stage' = "builds" /\ world' = world
      /\ resolved' = resolved
  BY DEF RestrictionsRead, Goes
<1>2. world \in Worlds
  BY DEF Typed
<1> DEFINE a == repo.available \cup {"branchRestrictions"}
           m == {r \in world.restrictions : Matches(r)}
           u == {r \in world.restrictions : ~Decidable(Matcher[r]) /\ Known("defaultBranch")}
           e == [r \in Restriction |->
                   IF r \in world.restrictions THEN Expanded(r, lost[r]) ELSE {}]
           q == {r \in world.restrictions : Exempt[r] \cap Group \cap lost[r] # {}}
<1>3. repo' = [repo EXCEPT !.available = a, !.restrictions = world.restrictions,
                           !.matches = m, !.unknown = u, !.exempt = e, !.partial = q]
  BY DEF RestrictionsRead, Gets
<1>4. \A r \in Restriction :
        /\ Expanded(r, lost[r]) \subseteq Everyone(r)
        /\ Exempt[r] \cap Group \cap lost[r] = {} => Expanded(r, lost[r]) = Everyone(r)
        /\ Everyone(r) \subseteq Principal
  BY AuditAssumption DEF Expanded, Everyone
<1>5. /\ m \subseteq Restriction /\ u \subseteq Restriction /\ q \subseteq Restriction
      /\ e \in [Restriction -> SUBSET Principal]
  BY <1>2, <1>4, WorldFacts
<1>6. /\ m \subseteq world.covering
      /\ DefaultBranchKnown => world.covering \ m \subseteq u
  BY <1>2, WorldFacts DEF Matches, DefaultBranchKnown
<1>7. \A r \in world.restrictions :
        /\ e[r] \subseteq Everyone(r)
        /\ r \notin q => e[r] = Everyone(r)
  BY <1>2, <1>4, WorldFacts
<1>8. DefaultBranchKnown => \A r \in u : r \in world.restrictions /\ Obscure(Matcher[r])
  BY <1>2, WorldFacts, AuditAssumption DEF Decidable, DefaultBranchKnown, Obscure, Reading
<1> HIDE DEF m, u, e, q
<1>9. repo' \in Repository
  BY <1>2, <1>3, <1>5, WorldFacts DEF Typed, Repository, Part
<1>10. /\ repo'.available = a
       /\ repo'.restrictions = world.restrictions /\ repo'.matches = m
       /\ repo'.unknown = u /\ repo'.exempt = e /\ repo'.partial = q
       /\ repo'.archived = repo.archived /\ repo'.empty = repo.empty
       /\ repo'.default = repo.default /\ repo'.old = repo.old
       /\ repo'.undated = repo.undated
       /\ repo'.builds = repo.builds /\ repo'.gates = repo.gates
       /\ repo'.undecided = repo.undecided
       /\ repo'.hooks = repo.hooks /\ repo'.policy = repo.policy /\ repo'.pr = repo.pr
  BY <1>3 DEF Typed, Repository
<1>11. /\ "branchRestrictions" \in a
       /\ \A p \in Part \ {"branchRestrictions"} : p \in a <=> p \in repo.available
  OBVIOUS
<1> HIDE DEF a
<1>12. Typed' /\ InOrder'
  BY <1>1, <1>9 DEF Typed, InOrder
<1>13. SameDefault
  BY <1>1, <1>10, <1>11 DEF SameDefault, Known, Part
<1>14. BranchesRecorded'
  BY <1>10, <1>11, <1>13, BranchesFrame DEF Known, Part
<1>15. InDoubt'
  BY <1>1, <1>8, <1>10, <1>11, <1>13
     DEF SameDefault, InDoubt, DefaultBranchKnown, Obscure, Known, Part
<1>16. RestrictionsRecorded'
  BY <1>6, <1>7, <1>10, <1>13
     DEF SameDefault, RestrictionsRecorded, DefaultBranchKnown, Everyone
<1>17. Known("requiredBuilds") => BuildsRecorded'
  BY <1>10, <1>13, BuildsFrame DEF Recorded
<1>18. Recorded'
  BY <1>1, <1>10, <1>11, <1>14, <1>16, <1>17 DEF Recorded, Known, Part
<1> QED
  BY <1>12, <1>15, <1>18

(* A required build counts only when it is known to gate the default       *)
(* branch.                                                                 *)
LEMMA RequiredBuildsKeeps ==
  ASSUME IInv, RequiredBuildsRead
  PROVE  IInv'
<1> USE DEF IInv
<1>1. /\ stage = "builds" /\ stage' = "hooks" /\ world' = world /\ resolved' = resolved
  BY DEF RequiredBuildsRead, Goes
<1>2. world \in Worlds
  BY DEF Typed
<1> DEFINE a == repo.available \cup {"requiredBuilds"}
           g == {c \in world.conditions : Gates(c)}
           u == {c \in world.conditions : Undecided(c)}
<1>3. repo' = [repo EXCEPT !.available = a, !.builds = world.conditions,
                           !.gates = g, !.undecided = u]
  BY DEF RequiredBuildsRead, Gets
<1>4. g \subseteq Condition /\ u \subseteq Condition
  BY <1>2, WorldFacts
<1>5. /\ g \subseteq world.gating \ world.exempting
      /\ repo.default = NoBranch => g = {}
      /\ DefaultBranchKnown => (world.gating \ world.exempting) \ g \subseteq u
  BY <1>2, WorldFacts DEF Gates, Undecided, Decidable, DefaultBranchKnown
<1>6. DefaultBranchKnown =>
        \A c \in u :
          /\ c \in world.conditions
          /\ Obscure(Matcher[c]) \/ (c \in Exemption /\ Obscure(ExemptMatcher[c]))
  BY <1>2, WorldFacts, AuditAssumption
     DEF Undecided, Decidable, DefaultBranchKnown, Obscure, Reading
<1> HIDE DEF g, u
<1>7. repo' \in Repository
  BY <1>2, <1>3, <1>4, WorldFacts DEF Typed, Repository, Part
<1>8. /\ repo'.available = a /\ repo'.builds = world.conditions
      /\ repo'.gates = g /\ repo'.undecided = u
      /\ repo'.archived = repo.archived /\ repo'.empty = repo.empty
      /\ repo'.default = repo.default /\ repo'.old = repo.old /\ repo'.undated = repo.undated
      /\ repo'.restrictions = repo.restrictions /\ repo'.matches = repo.matches
      /\ repo'.unknown = repo.unknown /\ repo'.exempt = repo.exempt
      /\ repo'.partial = repo.partial
      /\ repo'.hooks = repo.hooks /\ repo'.policy = repo.policy /\ repo'.pr = repo.pr
  BY <1>3 DEF Typed, Repository
<1>9. /\ "requiredBuilds" \in a
      /\ \A p \in Part \ {"requiredBuilds"} : p \in a <=> p \in repo.available
  OBVIOUS
<1> HIDE DEF a
<1>10. Typed' /\ InOrder'
  BY <1>1, <1>7 DEF Typed, InOrder
<1>11. SameDefault
  BY <1>1, <1>8, <1>9 DEF SameDefault, Known, Part
<1>12. BranchesRecorded'
  BY <1>8, <1>9, <1>11, BranchesFrame DEF Known, Part
<1>13. InDoubt'
  BY <1>1, <1>6, <1>8, <1>9, <1>11
     DEF SameDefault, InDoubt, DefaultBranchKnown, Obscure, Known, Part
<1>14. Known("branchRestrictions") => RestrictionsRecorded'
  BY <1>8, <1>11, RestrictionsFrame DEF Recorded
<1>15. BuildsRecorded'
  BY <1>5, <1>8, <1>11 DEF SameDefault, BuildsRecorded, DefaultBranchKnown
<1>16. Recorded'
  BY <1>1, <1>8, <1>9, <1>12, <1>14, <1>15 DEF Recorded, Known, Part
<1> QED
  BY <1>10, <1>13, <1>16

(* A read that records one part more and disturbs none of what the default *)
(* branch, the restrictions and the builds say.                            *)
LEMMA LastReadsKeep ==
  ASSUME IInv, HooksRead \/ FilesUnbrowsable \/ FilesBrowsed
  PROVE  IInv'
<1> USE DEF IInv
<1>1. /\ stage \in {"hooks", "files"} /\ stage' \in {"files", "done"}
      /\ world' = world /\ resolved' = resolved
  BY DEF HooksRead, FilesUnbrowsable, FilesBrowsed, Goes
<1>2. world \in Worlds
  BY DEF Typed
<1>3. repo' \in Repository
  <2>1. CASE HooksRead
    BY <1>2, <2>1, WorldFacts DEF HooksRead, Typed, Repository, Gets, Part
  <2>2. CASE FilesUnbrowsable
    BY <2>2 DEF FilesUnbrowsable, Typed, Repository, Gets, Part
  <2>3. CASE FilesBrowsed
    BY <1>2, <2>3, WorldFacts DEF FilesBrowsed, Typed, Repository, Gets, Part
  <2> QED
    BY <2>1, <2>2, <2>3
<1>4. /\ repo'.archived = repo.archived /\ repo'.empty = repo.empty
      /\ repo'.default = repo.default /\ repo'.old = repo.old /\ repo'.undated = repo.undated
      /\ repo'.restrictions = repo.restrictions /\ repo'.matches = repo.matches
      /\ repo'.unknown = repo.unknown /\ repo'.exempt = repo.exempt
      /\ repo'.partial = repo.partial
      /\ repo'.builds = repo.builds /\ repo'.gates = repo.gates
      /\ repo'.undecided = repo.undecided /\ repo'.pr = repo.pr
  BY DEF HooksRead, FilesUnbrowsable, FilesBrowsed, Typed, Repository
<1>5. \A p \in Part \ {"hooks", "files"} : p \in repo'.available <=> p \in repo.available
  <2>1. \/ repo'.available = repo.available
        \/ \E p \in {"hooks", "files"} : repo'.available = repo.available \cup {p}
    BY DEF HooksRead, FilesUnbrowsable, FilesBrowsed, Typed, Repository, Gets
  <2> QED
    BY <2>1
<1>6. ("hooks" \in repo'.available => repo'.hooks = world.hooks)
  BY DEF HooksRead, FilesUnbrowsable, FilesBrowsed, Typed, Repository, Gets, Recorded, Known
<1>7. "files" \in repo'.available /\ ~repo.empty => repo'.policy = world.policy
  BY DEF HooksRead, FilesUnbrowsable, FilesBrowsed, Typed, Repository, Gets, Recorded, Known
<1>8. Typed' /\ InOrder'
  BY <1>1, <1>3 DEF Typed, InOrder
<1>9. SameDefault
  BY <1>1, <1>4, <1>5 DEF SameDefault, Known, Part
<1>10. BranchesRecorded'
  BY <1>4, <1>5, <1>9, BranchesFrame DEF Known, Part
<1>11. InDoubt'
  BY <1>1, <1>4, <1>5, <1>9, InDoubtFrame DEF Known, Part
<1>12. Known("branchRestrictions") => RestrictionsRecorded'
  BY <1>4, <1>9, RestrictionsFrame DEF Recorded
<1>13. Known("requiredBuilds") => BuildsRecorded'
  BY <1>4, <1>9, BuildsFrame DEF Recorded
<1>14. Recorded'
  BY <1>1, <1>4, <1>5, <1>6, <1>7, <1>10, <1>12, <1>13 DEF Recorded, Known, Part
<1> QED
  BY <1>8, <1>11, <1>14

(* A step that reads nothing: the repository stays as it was recorded, and *)
(* the model, before anything is matched, does not matter.                 *)
LEMMA NothingReadKeeps ==
  ASSUME IInv, UNCHANGED <<world, repo>>,
         resolved' \in BOOLEAN, resolved' = resolved \/ stage = "model",
         \/ stage' = "default" /\ stage = "branches"
         \/ stage' \notin {"branches", "default", "model"}
         \/ stage' = stage
  PROVE  IInv'
<1> USE DEF IInv
<1>1. Typed' /\ InOrder'
  BY DEF Typed, InOrder
<1>2. SameDefault
  BY DEF SameDefault, Known
<1>3. InDoubt'
  <2>1. CASE resolved' = resolved
    BY <1>2, <2>1, InDoubtFrame DEF Known
  <2>2. CASE stage = "model"
    BY <2>2 DEF InOrder, InDoubt, DefaultBranchKnown, Known
  <2> QED
    BY <2>1, <2>2
<1>4. Recorded'
  BY <1>2, RestrictionsFrame, BuildsFrame, BranchesFrame DEF Recorded, Known
<1> QED
  BY <1>1, <1>3, <1>4

(* The invariant is inductive. *)
LEMMA NextIInv == IInv /\ [Next]_vars => IInv'
<1> SUFFICES ASSUME IInv, [Next]_vars PROVE IInv'
  OBVIOUS
<1>1. CASE SkipArchived \/ BranchesUnread
  BY <1>1, NothingReadKeeps DEF SkipArchived, BranchesUnread, Goes, IInv, Typed
<1>2. CASE \E undated \in SUBSET world.branches : BranchesListed(undated)
  BY <1>2, BranchesListedKeeps
<1>3. CASE \E known \in BOOLEAN : ResolveDefaultBranch(known)
  BY <1>3, ResolveDefaultBranchKeeps
<1>4. CASE \E ok \in BOOLEAN : ReadBranchModel(ok)
  BY <1>4, NothingReadKeeps DEF ReadBranchModel, Goes, IInv, Typed
<1>5. CASE \E strategies \in BOOLEAN : PullRequestSettingsRead(strategies)
  BY <1>5, PullRequestSettingsKeeps
<1>6. CASE \E lost \in [Restriction -> SUBSET Group] : RestrictionsRead(lost)
  BY <1>6, RestrictionsKeeps
<1>7. CASE RequiredBuildsRead
  BY <1>7, RequiredBuildsKeeps
<1>8. CASE HooksRead \/ FilesUnbrowsable \/ FilesBrowsed
  BY <1>8, LastReadsKeep
<1>9. CASE ReadFails
  BY <1>9, NothingReadKeeps DEF ReadFails, Goes, IInv, Typed
<1>10. CASE UNCHANGED vars
  BY <1>10, NothingReadKeeps DEF vars, IInv, Typed
<1> QED
  BY <1>1, <1>2, <1>3, <1>4, <1>5, <1>6, <1>7, <1>8, <1>9, <1>10 DEF Next, Audited

(* Whichever reads fail, what is recorded of a repository is true of it.    *)
THEOREM RecordedIsTrue == Spec => []Recorded
<1>1. IInv => Recorded
  BY DEF IInv
<1> QED
  BY InitIInv, NextIInv, <1>1, PTL DEF Spec

-----------------------------------------------------------------------------
(* The verdicts follow from what is recorded. *)

(* With a known default branch of a repository that has commits, what is    *)
(* recorded as covering it does, and what covers it without being so       *)
(* recorded is unresolved.                                                 *)
LEMMA CoveringRecorded ==
  ASSUME IInv, Known("branchRestrictions"), DefaultBranchKnown, ~repo.empty, NEW kinds
  PROVE  /\ Matching(kinds) \subseteq Covering(kinds)
         /\ Unresolved(kinds) = {} => Covering(kinds) = Matching(kinds)
<1>1. HasDefault(world)
  BY DEF IInv, Recorded, BranchesRecorded, DefaultBranchKnown
<1>2. RestrictionsRecorded
  BY DEF IInv, Recorded
<1> QED
  BY <1>1, <1>2 DEF RestrictionsRecorded, Matching, Unresolved, Covering

(* The principals that can get past a set of restrictions are finitely many. *)
LEMMA BypassFinite ==
  ASSUME NEW rs, NEW kinds
  PROVE  /\ IsFiniteSet(Bypass(rs)) /\ IsFiniteSet(Unbound(kinds))
         /\ Cardinality(Bypass(rs)) \in Nat /\ Cardinality(Unbound(kinds)) \in Nat
<1>1. IsFiniteSet(Principal)
  BY AuditAssumption
<1>2. Bypass(rs) \subseteq Principal /\ Unbound(kinds) \subseteq Principal
  BY DEF Bypass, Unbound
<1>3. IsFiniteSet(Bypass(rs)) /\ IsFiniteSet(Unbound(kinds))
  BY <1>1, <1>2, FS_Subset
<1> QED
  BY <1>3, FS_CardinalityType

(* A default branch judged guarded is protected.  The restrictions that     *)
(* were not recognised can only bind more; the members that were not seen  *)
(* are ruled out, or cannot matter because some restriction exempts nobody. *)
LEMMA GuardedIsProtected ==
  ASSUME IInv, ~repo.empty, NEW kinds, Guarded(kinds)
  PROVE  Protected(kinds)
<1> DEFINE M == Matching(kinds)
<1>1. /\ M # {} /\ M \subseteq Covering(kinds)
      /\ ~BypassUndecidable(M) /\ ~BypassExceeded(M)
  BY CoveringRecorded DEF Guarded
<1>2. M \subseteq Restriction /\ M \subseteq world.restrictions
  <2>1. world \in Worlds
    BY DEF IInv, Typed
  <2> QED
    BY <1>1, <2>1, WorldFacts DEF Covering
<1>3. CASE MaxBypass < 0
  BY <1>1, <1>3 DEF Protected
<1>4. CASE MaxBypass >= 0
  <2>1. Cardinality(Bypass(M)) <= MaxBypass
    BY <1>1, <1>4, BypassFinite, AuditAssumption DEF BypassExceeded
  <2>2. BypassComplete(M)
    BY <1>1, <1>4 DEF BypassUndecidable
  <2>3. \A r \in M : r \notin repo.partial => repo.exempt[r] = Everyone(r)
    BY <1>2 DEF IInv, Recorded, RestrictionsRecorded, Guarded
  <2>4. Unbound(kinds) \subseteq Bypass(M)
    BY <1>1, <1>2, <2>2, <2>3 DEF Unbound, Bypass, BypassComplete, Everyone
  <2>5. Cardinality(Unbound(kinds)) <= Cardinality(Bypass(M))
    BY <2>4, BypassFinite, FS_Subset
  <2>6. Cardinality(Unbound(kinds)) <= MaxBypass
    BY <2>1, <2>5, BypassFinite, AuditAssumption
  <2> QED
    BY <1>1, <2>6 DEF Protected
<1> QED
  BY <1>3, <1>4, AuditAssumption

(* One judged exposed is not protected: everything that may cover it was    *)
(* recognised, and whoever was seen to be exempt from all of it is.         *)
LEMMA ExposedIsUnprotected ==
  ASSUME IInv, ~repo.empty, NEW kinds, Exposed(kinds)
  PROVE  ~Protected(kinds)
<1> DEFINE M == Matching(kinds)
<1>1. Known("branchRestrictions") /\ RestrictionsRecorded
  BY DEF Exposed, IInv, Recorded
<1>2. world \in Worlds
  BY DEF IInv, Typed
<1>3. CASE Of(kinds) = {}
  <2>1. Covering(kinds) = {}
    BY <1>1, <1>2, <1>3, WorldFacts DEF RestrictionsRecorded, Of, Covering
  <2> QED
    BY <2>1 DEF Protected
<1>4. CASE /\ DefaultBranchKnown /\ Unresolved(kinds) = {}
           /\ M = {} \/ BypassExceeded(M)
  <2>1. Covering(kinds) = M
    BY <1>1, <1>4, CoveringRecorded
  <2>2. CASE M = {}
    BY <2>1, <2>2 DEF Protected
  <2>3. CASE M # {} /\ BypassExceeded(M)
    <3>1. M \subseteq world.restrictions
      BY <1>2, <2>1, WorldFacts DEF Covering
    <3>2. Bypass(M) \subseteq Unbound(kinds)
      BY <1>1, <2>1, <3>1 DEF Bypass, Unbound, RestrictionsRecorded
    <3>3. Cardinality(Bypass(M)) <= Cardinality(Unbound(kinds))
      BY <3>2, BypassFinite, FS_Subset
    <3>4. MaxBypass >= 0 /\ Cardinality(Unbound(kinds)) > MaxBypass
      BY <2>3, <3>3, BypassFinite, AuditAssumption DEF BypassExceeded
    <3> QED
      BY <3>4, BypassFinite, AuditAssumption DEF Protected
  <2> QED
    BY <1>4, <2>2, <2>3
<1> QED
  BY <1>3, <1>4 DEF Exposed

(* The recorded stale branches are stale, and all of them where every age   *)
(* is known.                                                               *)
LEMMA StaleRecorded ==
  ASSUME IInv, Known("branches")
  PROVE  /\ IsFiniteSet(world.stale)
         /\ Cardinality(repo.old) \in Nat /\ Cardinality(world.stale) \in Nat
         /\ Cardinality(repo.old) <= Cardinality(world.stale)
         /\ repo.undated = {} => repo.old = world.stale
<1>1. world \in Worlds
  BY DEF IInv, Typed
<1>2. repo.old \subseteq world.stale /\ (repo.undated = {} => repo.old = world.stale)
  BY DEF IInv, Recorded, BranchesRecorded
<1>3. IsFiniteSet(world.stale)
  <2>1. world.stale \subseteq Branch
    BY <1>1, WorldFacts
  <2> QED
    BY <2>1, FS_Subset, AuditAssumption
<1>4. IsFiniteSet(repo.old) /\ Cardinality(repo.old) <= Cardinality(world.stale)
  BY <1>2, <1>3, FS_Subset
<1> QED
  BY <1>2, <1>3, <1>4, FS_CardinalityType

(* The first property: a pass is earned. *)
LEMMA PassIsEarned ==
  ASSUME IInv, NEW c \in Control, Verdict(c) = "PASS"
  PROVE  Holds(c)
<1>1. CASE c \in {"1.1.3", "1.1.4", "1.1.11", "1.1.13"}
  <2>1. \A part : \A check : MergeCheck(check, part) = "PASS" => check \in repo.pr
    BY DEF MergeCheck, Ruling
  <2>2. repo.pr \subseteq world.pr
    BY DEF IInv, Recorded
  <2> QED
    BY <1>1, <2>1, <2>2 DEF Verdict, Approvals, ApprovalReset, Tasks, LinearHistory, Holds
<1>2. CASE c = "1.1.8"
  <2>1. Known("branches") /\ Cardinality(repo.old) <= MaxStale /\ repo.undated = {}
    BY <1>2 DEF Verdict, StaleBranches, Ruling
  <2> QED
    BY <1>2, <2>1, StaleRecorded DEF Holds
<1>3. CASE c = "1.1.9"
  <2>1. ~repo.empty /\ (repo.gates # {} \/ "builds" \in repo.pr)
    BY <1>3 DEF Verdict, BuildGate, Ruling
  <2>2. repo.pr \subseteq world.pr
    BY DEF IInv, Recorded
  <2>3. repo.gates \subseteq world.gating \ world.exempting
    BY DEF IInv, Recorded, BuildsRecorded
  <2>4. repo.gates # {} => HasDefault(world)
    BY <2>1 DEF IInv, Recorded, BranchesRecorded, BuildsRecorded
  <2> QED
    BY <1>3, <2>1, <2>2, <2>3, <2>4 DEF Holds, GatedOnBuilds
<1>4. CASE c = "1.1.12"
  <2>1. HasHook("signature")
    BY <1>4 DEF Verdict, SignedCommits, Ruling
  <2> QED
    BY <1>4, <2>1 DEF Holds, HasHook, IInv, Recorded
<1>5. CASE c = "1.1.15"
  <2>1. ~repo.empty /\ Guarded({"pull-request-only", "read-only"})
    BY <1>5 DEF Verdict, DirectPushes, Ruling
  <2> QED
    BY <1>5, <2>1, GuardedIsProtected DEF Holds
<1>6. CASE c = "1.1.16"
  <2>1. ~repo.empty /\ (HasHook("force push") \/ Guarded({"fast-forward-only", "read-only"}))
    BY <1>6 DEF Verdict, ForcePushes, Ruling
  <2>2. HasHook("force push") => "force push" \in world.hooks
    BY DEF HasHook, IInv, Recorded
  <2> QED
    BY <1>6, <2>1, <2>2, GuardedIsProtected DEF Holds
<1>7. CASE c = "1.1.17"
  <2>1. ~repo.empty /\ Guarded({"no-deletes", "read-only"})
    BY <1>7 DEF Verdict, Deletion, Ruling
  <2> QED
    BY <1>7, <2>1, GuardedIsProtected DEF Holds
<1>8. CASE c = "1.2.1"
  <2>1. ~repo.empty /\ Known("files") /\ repo.policy
    BY <1>8 DEF Verdict, SecurityPolicy, Ruling
  <2> QED
    BY <1>8, <2>1 DEF Holds, IInv, Recorded
<1> QED
  BY <1>1, <1>2, <1>3, <1>4, <1>5, <1>6, <1>7, <1>8 DEF Control

(* The second: a failure is real. *)
LEMMA FailIsReal ==
  ASSUME IInv, NEW c \in Control, Verdict(c) = "FAIL"
  PROVE  ~Holds(c)
<1>1. CASE c \in {"1.1.3", "1.1.4", "1.1.11", "1.1.13"}
  <2>1. \A part : \A check : MergeCheck(check, part) = "FAIL" =>
                               Known(part) /\ check \notin repo.pr
    BY DEF MergeCheck, Ruling
  <2>2. Known("pullRequestSettings") \/ Known("mergeStrategies") => repo.pr = world.pr
    BY DEF IInv, Recorded
  <2> QED
    BY <1>1, <2>1, <2>2 DEF Verdict, Approvals, ApprovalReset, Tasks, LinearHistory, Holds
<1>2. CASE c = "1.1.8"
  <2>1. Known("branches") /\ Cardinality(repo.old) > MaxStale
    BY <1>2 DEF Verdict, StaleBranches, Ruling
  <2> QED
    BY <1>2, <2>1, StaleRecorded, AuditAssumption DEF Holds
<1>3. CASE c = "1.1.9"
  <2>1. /\ ~repo.empty /\ repo.gates = {} /\ "builds" \notin repo.pr
        /\ Known("requiredBuilds") /\ Known("pullRequestSettings")
        /\ repo.builds = {} \/ (DefaultBranchKnown /\ repo.undecided = {})
    BY <1>3 DEF Verdict, BuildGate, Ruling
  <2>2. repo.pr = world.pr /\ BuildsRecorded
    BY <2>1 DEF IInv, Recorded
  <2>3. world.gating \ world.exempting = {}
    <3>1. world.gating \subseteq world.conditions
      BY WorldFacts DEF IInv, Typed
    <3> QED
      BY <2>1, <2>2, <3>1 DEF BuildsRecorded
  <2> QED
    BY <1>3, <2>1, <2>2, <2>3 DEF Holds, GatedOnBuilds
<1>4. CASE c = "1.1.12"
  <2>1. LacksHook("signature")
    BY <1>4 DEF Verdict, SignedCommits, Ruling
  <2> QED
    BY <1>4, <2>1 DEF Holds, LacksHook, IInv, Recorded
<1>5. CASE c = "1.1.15"
  <2>1. ~repo.empty /\ Exposed({"pull-request-only", "read-only"})
    BY <1>5 DEF Verdict, DirectPushes, Ruling
  <2> QED
    BY <1>5, <2>1, ExposedIsUnprotected DEF Holds
<1>6. CASE c = "1.1.16"
  <2>1. ~repo.empty /\ LacksHook("force push") /\ Exposed({"fast-forward-only", "read-only"})
    BY <1>6 DEF Verdict, ForcePushes, Ruling
  <2>2. "force push" \notin world.hooks
    BY <2>1 DEF LacksHook, IInv, Recorded
  <2> QED
    BY <1>6, <2>1, <2>2, ExposedIsUnprotected DEF Holds
<1>7. CASE c = "1.1.17"
  <2>1. ~repo.empty /\ Exposed({"no-deletes", "read-only"})
    BY <1>7 DEF Verdict, Deletion, Ruling
  <2> QED
    BY <1>7, <2>1, ExposedIsUnprotected DEF Holds
<1>8. CASE c = "1.2.1"
  <2>1. ~repo.empty /\ Known("files") /\ ~repo.policy
    BY <1>8 DEF Verdict, SecurityPolicy, Ruling
  <2> QED
    BY <1>8, <2>1 DEF Holds, IInv, Recorded
<1> QED
  BY <1>1, <1>2, <1>3, <1>4, <1>5, <1>6, <1>7, <1>8 DEF Control

(* The third: a control is waived where it does not apply. *)
LEMMA WaivedIsInapplicable ==
  ASSUME IInv, NEW c \in Control, Verdict(c) = "NA"
  PROVE  ~Applies(c)
<1>1. /\ repo.archived = world.archived
      /\ repo.empty => world.branches = {}
  BY DEF IInv, Recorded, BranchesRecorded
<1>2. repo.archived \/ (repo.empty /\ c \in OfBranches)
  <2>1. CASE c \in {"1.1.3", "1.1.4", "1.1.11", "1.1.13", "1.1.12"}
    BY <2>1 DEF Verdict, Approvals, ApprovalReset, Tasks,
       LinearHistory, MergeCheck, SignedCommits, Ruling
  <2>2. CASE c \in OfBranches
    BY <2>2 DEF Verdict, StaleBranches, BuildGate, DirectPushes, ForcePushes, Deletion,
       SecurityPolicy, OfBranches, Ruling
  <2> QED
    BY <2>1, <2>2 DEF Control, OfBranches
<1> QED
  BY <1>1, <1>2 DEF Applies

(* Of a repository that was read in full, each kind of restriction either   *)
(* guards the default branch or leaves it exposed.                         *)
LEMMA GuardedOrExposed ==
  ASSUME IInv, ReadInFull, ~repo.empty, NEW kinds
  PROVE  Guarded(kinds) \/ Exposed(kinds)
<1>1. \A p \in Part : Known(p)
  BY DEF ReadInFull, Known
<1>2. DefaultBranchKnown
  BY <1>1 DEF IInv, Recorded, BranchesRecorded, DefaultBranchKnown, Part
<1>3. RestrictionsRecorded /\ world \in Worlds
  BY <1>1 DEF IInv, Typed, Recorded, Part
<1>4. Unresolved(kinds) \subseteq repo.unknown
  BY DEF Unresolved
<1>5. \A r \in repo.unknown : r \in world.restrictions /\ Obscure(Matcher[r])
  BY <1>1, <1>2 DEF IInv, InDoubt, Part
<1>6. Unresolved(kinds) = {}
  BY <1>4, <1>5 DEF ReadInFull, Obscure
<1>7. Matching(kinds) \subseteq world.restrictions
  BY <1>3, WorldFacts DEF RestrictionsRecorded, Matching
<1>8. BypassComplete(Matching(kinds))
  BY <1>7 DEF ReadInFull, BypassComplete
<1> QED
  BY <1>1, <1>2, <1>6, <1>8 DEF Guarded, Exposed, BypassUndecidable, Part

(* So it is for the builds. *)
LEMMA BuildsDecided ==
  ASSUME IInv, ReadInFull, ~repo.empty
  PROVE  DefaultBranchKnown /\ repo.undecided = {}
<1>1. \A p \in Part : Known(p)
  BY DEF ReadInFull, Known
<1>2. DefaultBranchKnown
  BY <1>1 DEF IInv, Recorded, BranchesRecorded, DefaultBranchKnown, Part
<1>3. \A c \in repo.undecided :
        /\ c \in world.conditions
        /\ Obscure(Matcher[c]) \/ (c \in Exemption /\ Obscure(ExemptMatcher[c]))
  BY <1>1, <1>2 DEF IInv, InDoubt, Part
<1> QED
  BY <1>2, <1>3 DEF ReadInFull, Obscure

(* And for every control that is about such a repository. *)
LEMMA FullReadRules ==
  ASSUME IInv, ReadInFull, NEW c \in Control, ~repo.archived, c \in OfBranches => ~repo.empty
  PROVE  Verdict(c) \in {"PASS", "FAIL"}
<1>1. \A p \in Part : Known(p)
  BY DEF ReadInFull, Known
<1>2. CASE c \in {"1.1.3", "1.1.4", "1.1.11", "1.1.13", "1.1.12"}
  BY <1>1, <1>2 DEF Verdict, Approvals, ApprovalReset, Tasks,
       LinearHistory, MergeCheck, SignedCommits, HasHook, LacksHook, Ruling, Part
<1>3. CASE c = "1.1.8"
  <2>1. ~repo.empty /\ Known("branches") /\ Known("branchAges") /\ repo.undated = {}
    BY <1>1, <1>3 DEF OfBranches, Part, IInv, Recorded, BranchesRecorded
  <2>2. Cardinality(repo.old) <= MaxStale \/ Cardinality(repo.old) > MaxStale
    BY <2>1, StaleRecorded, AuditAssumption
  <2> QED
    BY <1>3, <2>1, <2>2 DEF Verdict, StaleBranches, Ruling
<1>4. CASE c = "1.1.9"
  <2>1. ~repo.empty /\ Known("requiredBuilds") /\ Known("pullRequestSettings")
    BY <1>1, <1>4 DEF OfBranches, Part
  <2> QED
    BY <1>4, <2>1, BuildsDecided DEF Verdict, BuildGate, Ruling
<1>5. CASE c = "1.1.15"
  BY <1>5, GuardedOrExposed DEF OfBranches, Verdict, DirectPushes, Ruling
<1>6. CASE c = "1.1.16"
  <2>1. ~repo.empty /\ (HasHook("force push") \/ LacksHook("force push"))
    BY <1>1, <1>6 DEF OfBranches, HasHook, LacksHook, Part
  <2> QED
    BY <1>6, <2>1, GuardedOrExposed DEF Verdict, ForcePushes, Ruling
<1>7. CASE c = "1.1.17"
  BY <1>7, GuardedOrExposed DEF OfBranches, Verdict, Deletion, Ruling
<1>8. CASE c = "1.2.1"
  <2>1. ~repo.empty /\ Known("files")
    BY <1>1, <1>8 DEF OfBranches, Part
  <2> QED
    BY <1>8, <2>1 DEF Verdict, SecurityPolicy, Ruling
<1> QED
  BY <1>2, <1>3, <1>4, <1>5, <1>6, <1>7, <1>8 DEF Control

(* The fourth: what was read in full is decided, and rightly. *)
LEMMA FullReadIsDecisive ==
  ASSUME IInv, ReadInFull, NEW c \in Control
  PROVE  Verdict(c) = IF ~Applies(c) THEN "NA" ELSE IF Holds(c) THEN "PASS" ELSE "FAIL"
<1>1. repo.archived = world.archived /\ repo.empty = (world.branches = {})
  BY DEF ReadInFull, Known, Part, IInv, Recorded, BranchesRecorded
<1>2. CASE Applies(c)
  <2>1. Verdict(c) \in {"PASS", "FAIL"}
    BY <1>1, <1>2, FullReadRules DEF Applies
  <2> QED
    BY <1>2, <2>1, PassIsEarned, FailIsReal
<1>3. CASE ~Applies(c)
  <2>1. repo.archived \/ (c \in OfBranches /\ repo.empty)
    BY <1>1, <1>3 DEF Applies
  <2>2. ASSUME repo.archived PROVE Verdict(c) = "NA"
    BY <2>2 DEF Control, Verdict, Approvals, ApprovalReset, Tasks,
       LinearHistory, MergeCheck, SignedCommits, StaleBranches, BuildGate,
       DirectPushes, ForcePushes, Deletion, SecurityPolicy, Ruling
  <2>3. ASSUME c \in OfBranches, repo.empty PROVE Verdict(c) = "NA"
    BY <2>3 DEF OfBranches, Verdict, StaleBranches, BuildGate, DirectPushes, ForcePushes,
       Deletion, SecurityPolicy, Ruling
  <2>4. Verdict(c) = "NA"
    BY <2>1, <2>2, <2>3
  <2> QED
    BY <1>3, <2>4
<1> QED
  BY <1>2, <1>3

-----------------------------------------------------------------------------
(* A control passes only a repository that meets it, whatever could not be *)
(* read.                                                                   *)
THEOREM PassesEarned == Spec => []PassesAreEarned
<1>1. IInv => PassesAreEarned
  BY PassIsEarned DEF PassesAreEarned
<1> QED
  BY InitIInv, NextIInv, <1>1, PTL DEF Spec

(* And fails only one that does not. *)
THEOREM FailuresReal == Spec => []FailuresAreReal
<1>1. IInv => FailuresAreReal
  BY FailIsReal DEF FailuresAreReal
<1> QED
  BY InitIInv, NextIInv, <1>1, PTL DEF Spec

(* NA is answered only where the control does not apply. *)
THEOREM NotApplicableTrue == Spec => []NotApplicableIsTrue
<1>1. IInv => NotApplicableIsTrue
  BY WaivedIsInapplicable DEF NotApplicableIsTrue
<1> QED
  BY InitIInv, NextIInv, <1>1, PTL DEF Spec

(* A repository that was read in full gets the right verdict of every       *)
(* control, and no MANUAL.                                                 *)
THEOREM FullReadDecided == Spec => []FullReadDecides
<1>1. IInv => FullReadDecides
  BY FullReadIsDecisive DEF FullReadDecides
<1> QED
  BY InitIInv, NextIInv, <1>1, PTL DEF Spec

=============================================================================
