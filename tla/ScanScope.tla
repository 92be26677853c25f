----------------------------- MODULE ScanScope -----------------------------
(***************************************************************************)
(* What a network scan sets out to cover: the instance as its lists show   *)
(* it, the command line's --project and --repository (targets in           *)
(* src/internal/scm/bitbucketdc/fetcher.go) and skipArchivedRepositories.  *)
(***************************************************************************)
EXTENDS FiniteSets

CONSTANTS
  Project,       \* project keys
  Repo,          \* repository full names: what the instance has, what was asked for
  ProjectOf,     \* the project of each full name
  Existing,      \* the repositories the instance lists
  Archived,      \* those of them that are archived
  WholeProjects, \* the projects named by --project
  Targets,       \* the repositories named by --repository
  SkipArchived   \* skipArchivedRepositories

ASSUME ScopeAssumption ==
  /\ IsFiniteSet(Project) /\ IsFiniteSet(Repo)
  /\ ProjectOf \in [Repo -> Project]
  /\ Existing \subseteq Repo /\ Archived \subseteq Existing
  /\ WholeProjects \subseteq Project /\ Targets \subseteq Repo
  /\ SkipArchived \in BOOLEAN

(* targets.projects: naming a repository names its project, too.  Spelling  *)
(* is left out: a name stands for all its spellings in either case, and a   *)
(* --repository without a project is refused.                              *)
Named == WholeProjects \cup {ProjectOf[t] : t \in Targets}

(* The projects the scan visits: the named ones, or every one there is. *)
Visited == IF Named = {} THEN Project ELSE Named

(* targets.selects: no --repository at all means everything visited. *)
Selects(r) ==
  \/ Targets = {}
  \/ ProjectOf[r] \in WholeProjects
  \/ r \in Targets

(* The repositories of p that fetchRepositories sets out to read. *)
Selected(p) ==
  {r \in Existing : /\ ProjectOf[r] = p
                    /\ Selects(r)
                    /\ ~(SkipArchived /\ r \in Archived)}

(* What a scan that could not list the projects in gone covers. *)
Coverage(gone) == UNION {Selected(p) : p \in Visited \ gone}

(* The --repository targets a scan that found these repositories missed. *)
Missing(found, gone) ==
  {t \in Targets : t \notin found /\ ProjectOf[t] \notin gone}

(* What a scan can fail with, by the step that failed. *)
Failures == {"credentials", "projects", "cancelled", "missing"}
=============================================================================
