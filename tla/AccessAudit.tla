---------------------------- MODULE AccessAudit ----------------------------
(***************************************************************************)
(* Who may administer an instance and its repositories, who may read them  *)
(* and who has stopped signing in: fetchOrganization, fetchBaseAccess and  *)
(* fetchRepositoryAdmins (src/internal/scm/bitbucketdc/fetcher.go), whose  *)
(* reads may each fail, and the controls 1.3.1, 1.3.3, 1.3.7 and 1.3.8     *)
(* that see only what was read.  The organization is read first, by the    *)
(* main goroutine; what it leaves in the Fetcher is read by the goroutines *)
(* of all repositories.                                                    *)
(***************************************************************************)
EXTENDS Integers, FiniteSets

CONSTANTS
  Account,
  Repository,
  Ranked,       \* the permissions that permissionRank lists ...
  Rank,         \* ... and their ranks
  Ceiling,      \* maxDefaultPermission, 0 when it is empty
  AllowPublic,  \* allowPublicRepositories
  InactiveDays, \* thresholds.inactiveUserDays
  MinOrg,       \* thresholds.minOrgAdmins
  MaxOrg,       \* thresholds.maxOrgAdmins, 0 for no limit
  MinOwn,       \* thresholds.minRepositoryAdmins
  Worlds        \* the instances to be audited

(* REPO_READ, REPO_WRITE and REPO_ADMIN; each one includes those below. *)
Permission == 1..3
RepoAdmin == 3

(* never: the accounts that never authenticated; idle and age: the days    *)
(* since the others last did, and since the account was created, which are *)
(* negative when the clocks disagree.  times and ages: whether the instance *)
(* records either.  grant: the highest permission each account holds on a  *)
(* repository, 0 for none, however it came by it.  lists: whether inactive *)
(* accounts are among those the instance lists for a permission.           *)
World ==
  [active : SUBSET Account, licensed : SUBSET Account, admins : SUBSET Account,
   never : SUBSET Account, idle : [Account -> Int], age : [Account -> Int],
   times : BOOLEAN, ages : BOOLEAN, lists : BOOLEAN,
   grant : [Repository -> [Account -> {0} \cup Permission]],
   public : SUBSET Repository, archived : SUBSET Repository]

(* An instance administrator administers every repository. *)
Consistent(w) == \A r \in Repository, u \in w.admins : w.grant[r][u] = RepoAdmin

ASSUME AccessAssumption ==
  /\ IsFiniteSet(Account)
  /\ Ranked \subseteq Permission /\ Rank \in [Ranked -> Int]
  /\ \A p, q \in Ranked : p < q => Rank[p] <= Rank[q]
  /\ Ceiling \in {0} \cup Ranked /\ (Ceiling # 0 => Rank[Ceiling] >= 0)
  /\ AllowPublic \in BOOLEAN
  /\ InactiveDays \in Nat /\ MinOrg \in Nat /\ MaxOrg \in Nat /\ MinOwn \in Nat
  /\ Worlds \subseteq World /\ \A w \in Worlds : Consistent(w)

VARIABLES
  world,    \* the instance as it is
  stage,    \* what the main goroutine is about to read
  licensed, \* the map of that name in fetchOrganization
  org,      \* scm.Organization
  fetcher,  \* the fields of Fetcher that the organization settles
  at,       \* where each repository's goroutine is
  repo,     \* scm.Repository of each
  refused   \* history: the repositories one of whose own reads failed
vars == <<world, stage, licensed, org, fetcher, at, repo, refused>>

OrgPart == {"admins", "adminGrants", "licensedUsers", "users", "userActivity"}

Init ==
  /\ world \in Worlds
  /\ stage = "admins"
  /\ licensed = {}
  /\ org = [available |-> {}, admins |-> {}, active |-> {}, licensed |-> {}, never |-> {},
            idle |-> [u \in Account |-> -1], age |-> [u \in Account |-> -1]]
  /\ fetcher = [orgAdmins |-> {}, orgAdminsKnown |-> FALSE,
                licensedActive |-> 0, licensedKnown |-> FALSE]
  /\ at = [r \in Repository |-> "base"]
  /\ repo = [r \in Repository |->
               [base |-> 0, baseKnown |-> FALSE, admins |-> {}, adminsKnown |-> FALSE]]
  /\ refused = {}

(* Which of the accounts the instance lists, asked for a permission. *)
Listed(accounts) == IF world.lists THEN accounts ELSE accounts \cap world.active

Goes(from, to) == stage = from /\ stage' = to /\ UNCHANGED <<world, at, repo, refused>>
Gets(parts) == org.available \cup parts
Known(part) == part \in org.available

-----------------------------------------------------------------------------
(* fetchOrganization, one read after the other. *)

(* An inactive account cannot sign in and administers nothing. *)
AdminsResolved ==
  /\ Goes("admins", "grants")
  /\ LET admins == Listed(world.admins) \cap world.active IN
       /\ org' = [org EXCEPT !.available = Gets({"admins"}), !.admins = admins]
       /\ fetcher' = [fetcher EXCEPT !.orgAdmins = admins, !.orgAdminsKnown = TRUE]
  /\ UNCHANGED licensed

(* The grant tables, evidence when a password session can read both. *)
AdminGrantsRead ==
  /\ Goes("grants", "licensed")
  /\ org' = [org EXCEPT !.available = Gets({"adminGrants"})]
  /\ UNCHANGED <<licensed, fetcher>>

(* Mutation: inactive accounts count among those a blanket grant reaches. *)
LicensedListedAll ==
  /\ Goes("licensed", "directory")
  /\ licensed' = Listed(world.licensed)
  /\ org' = [org EXCEPT !.available = Gets({"licensedUsers"})]
  /\ fetcher' = [fetcher EXCEPT !.licensedActive = Cardinality(licensed'),
                                !.licensedKnown = TRUE]

LicensedListed ==
  /\ Goes("licensed", "directory")
  /\ licensed' = Listed(world.licensed)
  /\ org' = [org EXCEPT !.available = Gets({"licensedUsers"})]
  /\ fetcher' = [fetcher EXCEPT !.licensedActive = Cardinality(licensed' \cap world.active),
                                !.licensedKnown = TRUE]

(* Mutation: a time in the future is kept as it is. *)
DaysSinceSigned(days) == days

(* daysSince: a time in the future is just now. *)
DaysSince(days) == IF days < 0 THEN 0 ELSE days

Stamped == IF world.times THEN Account \ world.never ELSE {}

(* Mutation: a directory that was read says who signed in. *)
ActivityKnownBlind == TRUE

(* One account with a time shows that the instance records them, and then  *)
(* one without has never signed in.                                        *)
ActivityKnown == Stamped # {}

DirectoryRead ==
  /\ Goes("directory", "repositories")
  /\ org' = [org EXCEPT
       !.available = Gets({"users"} \cup IF ActivityKnown THEN {"userActivity"} ELSE {}),
       !.active = world.active,
       !.licensed = licensed,
       !.never = IF ActivityKnown THEN Account \ Stamped ELSE {},
       !.idle = [u \in Account |-> IF u \in Stamped THEN DaysSince(world.idle[u]) ELSE -1],
       !.age = [u \in Account |-> IF world.ages THEN DaysSince(world.age[u]) ELSE -1]]
  /\ UNCHANGED <<licensed, fetcher>>

(* A read that fails, or is refused, leaves what it was for unavailable. *)
OrganizationReadFails ==
  /\ \/ Goes("admins", "grants")
     \/ Goes("grants", "licensed")
     \/ Goes("licensed", "directory")
     \/ Goes("directory", "repositories")
  /\ UNCHANGED <<licensed, org, fetcher>>

-----------------------------------------------------------------------------
(* The goroutine of a repository, once the organization has been read.     *)
(* repo[r].base is highest: what every licensed user is known to hold.     *)

(* Mutation: the first goroutine does not wait for the organization. *)
IsAtEarly(r, place) == at[r] = place

IsAt(r, place) == stage = "repositories" /\ at[r] = place

Moves(r, place) ==
  /\ at' = [at EXCEPT ![r] = place]
  /\ UNCHANGED <<world, stage, licensed, org, fetcher>>

(* After the base access; an archived repository is asked nothing more. *)
LeavesBase(r) == Moves(r, IF r \in world.archived THEN "done" ELSE "admins")

CanAskBase == fetcher.licensedKnown /\ fetcher.licensedActive > 0

BaseUnasked(r) ==
  /\ IsAt(r, "base") /\ ~CanAskBase
  /\ LeavesBase(r)
  /\ UNCHANGED <<repo, refused>>

(* /users with LICENSED_USER and a permission, from the position of the    *)
(* last active licensed user on: there is someone at it.                   *)
Holders(r, p) == Listed({u \in world.licensed : world.grant[r][u] >= p})
ReachesLast(r, p) == Cardinality(Holders(r, p)) >= fetcher.licensedActive

(* A level that everybody holds is followed by the next one, if any. *)
BaseHeld(r) ==
  /\ IsAt(r, "base") /\ CanAskBase
  /\ repo[r].base + 1 < RepoAdmin /\ ReachesLast(r, repo[r].base + 1)
  /\ Moves(r, "base")
  /\ repo' = [repo EXCEPT ![r].base = @ + 1]
  /\ UNCHANGED refused

BaseSettled(r) ==
  /\ IsAt(r, "base") /\ CanAskBase
  /\ \/ ~ReachesLast(r, repo[r].base + 1) /\ repo' = [repo EXCEPT ![r].baseKnown = TRUE]
     \/ /\ repo[r].base + 1 = RepoAdmin /\ ReachesLast(r, RepoAdmin)
        /\ repo' = [repo EXCEPT ![r].base = RepoAdmin, ![r].baseKnown = TRUE]
  /\ LeavesBase(r)
  /\ UNCHANGED refused

(* Mutation: what the probes had established so far is the base access. *)
BaseFailsSoFar(r) ==
  /\ IsAt(r, "base") /\ CanAskBase
  /\ LeavesBase(r)
  /\ repo' = [repo EXCEPT ![r].baseKnown = TRUE]
  /\ refused' = refused \cup {r}

BaseFails(r) ==
  /\ IsAt(r, "base") /\ CanAskBase
  /\ LeavesBase(r)
  /\ repo' = [repo EXCEPT ![r].base = 0]
  /\ refused' = refused \cup {r}

(* Whom the instance says administers the repository, less its own         *)
(* administrators; they are told apart only when those are known.          *)
OwnAdminsListed(r) ==
  /\ IsAt(r, "admins")
  /\ Moves(r, "done")
  /\ repo' = [repo EXCEPT
       ![r].admins = (Listed({u \in Account : world.grant[r][u] = RepoAdmin}) \cap world.active)
                       \ fetcher.orgAdmins,
       ![r].adminsKnown = fetcher.orgAdminsKnown]
  /\ UNCHANGED refused

OwnAdminsFail(r) ==
  /\ IsAt(r, "admins")
  /\ Moves(r, "done")
  /\ refused' = refused \cup {r}
  /\ UNCHANGED repo

Audited ==
  /\ stage = "repositories" /\ \A r \in Repository : at[r] = "done"
  /\ UNCHANGED vars

Next ==
  \/ AdminsResolved \/ AdminGrantsRead \/ LicensedListed \/ DirectoryRead
  \/ OrganizationReadFails
  \/ \E r \in Repository :
       \/ BaseUnasked(r) \/ BaseHeld(r) \/ BaseSettled(r) \/ BaseFails(r)
       \/ OwnAdminsListed(r) \/ OwnAdminsFail(r)
  \/ Audited

Spec == Init /\ [][Next]_vars

-----------------------------------------------------------------------------
(* The controls.  As in the policies a verdict is the first case that      *)
(* applies; here the cases exclude one another.                            *)

(* CIS-1.3.1, over the active and licensed accounts of the directory: who  *)
(* is dormant, and of whom that cannot be told.                            *)
Population == org.active \cap org.licensed
DormantSeen ==
  {u \in Population :
     org.idle[u] >= InactiveDays \/ (u \in org.never /\ org.age[u] >= InactiveDays)}
DormancyUnknown ==
  {u \in Population : org.idle[u] < 0 /\ (u \in org.never => org.age[u] < 0)}

DormantAccounts ==
  IF ~{"users", "userActivity", "licensedUsers"} \subseteq org.available THEN "MANUAL"
  ELSE IF DormantSeen # {} THEN "FAIL"
  ELSE IF DormancyUnknown # {} THEN "MANUAL" ELSE "PASS"

(* CIS-1.3.3.  Too many are too many, however many could not be seen. *)
OrgAdminsSeen == Cardinality(org.admins)
OrgAdminsExceed(n) == MaxOrg > 0 /\ n > MaxOrg

OrganizationAdmins ==
  IF OrgAdminsExceed(OrgAdminsSeen) THEN "FAIL"
  ELSE IF ~Known("admins") THEN "MANUAL"
  ELSE IF OrgAdminsSeen >= MinOrg THEN "PASS" ELSE "FAIL"

(* CIS-1.3.7 *)
RepositoryAdmins(r) ==
  IF r \in world.archived THEN "NA"
  ELSE IF ~repo[r].adminsKnown THEN "MANUAL"
  ELSE IF Cardinality(repo[r].admins) >= MinOwn THEN "PASS" ELSE "FAIL"

(* CIS-1.3.8.  A permission that permissionRank does not list is nobody's   *)
(* excuse: it is compared to nothing.                                      *)
RankOf(p) == IF p \in Ranked THEN Rank[p] ELSE 0
Comparable(p) == p = 0 \/ (p \in Ranked /\ Rank[p] >= 0)
AnonymousAccess(r) == r \in world.public /\ ~AllowPublic

BaseAccess(r) ==
  IF AnonymousAccess(r) \/ RankOf(repo[r].base) > RankOf(Ceiling) THEN "FAIL"
  ELSE IF ~repo[r].baseKnown \/ ~Comparable(repo[r].base) THEN "MANUAL" ELSE "PASS"

-----------------------------------------------------------------------------
(* What the controls are about, of the instance as it is. *)

(* Dormant for so long; at a threshold of zero every account is. *)
Dormant(u) ==
  /\ u \in world.active \cap world.licensed
  /\ \/ InactiveDays = 0
     \/ (IF u \in world.never THEN world.age[u] ELSE world.idle[u]) >= InactiveDays

OrgAdmins == Cardinality(world.admins \cap world.active)

OwnAdmins(r) == {u \in world.active \ world.admins : world.grant[r][u] = RepoAdmin}

(* What every account that can sign in holds at least. *)
EveryoneHolds(r, p) == \A u \in world.licensed \cap world.active : world.grant[r][u] >= p

(* The base permission is within the ceiling, whatever it is. *)
BaseWithin(r) ==
  \A p \in {0} \cup Permission :
    EveryoneHolds(r, p) /\ (\A q \in Permission : EveryoneHolds(r, q) => q <= p)
      => RankOf(p) <= RankOf(Ceiling)

-----------------------------------------------------------------------------
(* Properties. *)

(* Of the instance: who was seen to administer it does, whoever is recorded *)
(* as idle or new is, and never signed in is said only of those who did not. *)
OrganizationRecorded ==
  /\ IF Known("admins") THEN org.admins = world.admins \cap world.active ELSE org.admins = {}
  /\ Known("users") => org.active = world.active
  /\ {"users", "licensedUsers"} \subseteq org.available =>
       world.licensed \cap world.active \subseteq org.licensed
         /\ org.licensed \subseteq world.licensed
  /\ Known("userActivity") =>
       /\ org.never = world.never
       /\ \A u \in Account \ world.never : org.idle[u] = DaysSince(world.idle[u])

(* Of the Fetcher: the sets its goroutines subtract and count against. *)
FetcherSettled ==
  /\ fetcher.orgAdminsKnown <=> Known("admins")
  /\ fetcher.orgAdmins = org.admins
  /\ fetcher.licensedKnown <=> Known("licensedUsers")
  /\ fetcher.licensedKnown =>
       fetcher.licensedActive = Cardinality(world.licensed \cap world.active)

(* Of a repository: the base permission is the highest that every account   *)
(* that can sign in holds, or broader if the instance lists inactive        *)
(* accounts, and never narrower; its own administrators are its own.        *)
RepositoryRecorded(r) ==
  /\ repo[r].baseKnown =>
       /\ \A p \in Permission : EveryoneHolds(r, p) => p <= repo[r].base
       /\ ~world.lists => EveryoneHolds(r, repo[r].base)
  /\ repo[r].adminsKnown => repo[r].admins = OwnAdmins(r)

(* What is recorded as known is true, whichever reads failed, for the       *)
(* goroutines of the repositories as well, which rely on what the main      *)
(* goroutine left in the Fetcher.                                          *)
Recorded ==
  /\ OrganizationRecorded
  /\ stage = "repositories" => FetcherSettled
  /\ \A r \in Repository : RepositoryRecorded(r)

Judged(r) == stage = "repositories" /\ at[r] = "done"

(* A control passes only what meets it: an unread list, an account without  *)
(* a time, a permission without a rank or a probe that failed halfway is    *)
(* not taken for a good one.                                               *)
PassesAreEarned ==
  /\ stage = "repositories" =>
       /\ DormantAccounts = "PASS" => \A u \in Account : ~Dormant(u)
       /\ OrganizationAdmins = "PASS" => OrgAdmins >= MinOrg /\ ~OrgAdminsExceed(OrgAdmins)
  /\ \A r \in Repository : Judged(r) =>
       /\ RepositoryAdmins(r) = "PASS" => Cardinality(OwnAdmins(r)) >= MinOwn
       /\ BaseAccess(r) = "PASS" => ~AnonymousAccess(r) /\ BaseWithin(r)

(* And fails only what does not.  The exception is a base permission where  *)
(* the instance lists inactive accounts: they stand in for people who can   *)
(* sign in and hold less.                                                  *)
FailuresAreReal ==
  /\ stage = "repositories" =>
       /\ DormantAccounts = "FAIL" => \E u \in Account : Dormant(u)
       /\ OrganizationAdmins = "FAIL" => OrgAdmins < MinOrg \/ OrgAdminsExceed(OrgAdmins)
  /\ \A r \in Repository : Judged(r) =>
       /\ RepositoryAdmins(r) = "FAIL" => Cardinality(OwnAdmins(r)) < MinOwn
       /\ BaseAccess(r) = "FAIL" /\ ~world.lists => AnonymousAccess(r) \/ ~BaseWithin(r)

(* MANUAL is for what could not be read.  The instance administrators are   *)
(* decided when they were listed; dormancy when the directory, its times    *)
(* and its ages were; and a repository, whichever others were refused, when *)
(* its own reads and the lists of the organization they rest on were        *)
(* answered.                                                               *)
FullReadDecides ==
  /\ stage = "repositories" =>
       /\ Known("admins") => OrganizationAdmins # "MANUAL"
       /\ /\ {"users", "licensedUsers"} \subseteq org.available
          /\ world.times /\ world.ages /\ world.never # Account
          => DormantAccounts # "MANUAL"
  /\ \A r \in Repository : Judged(r) /\ r \notin refused =>
       /\ Known("admins") => RepositoryAdmins(r) # "MANUAL"
       /\ /\ Known("licensedUsers") /\ world.licensed \cap world.active # {}
          /\ \A p \in Permission : Comparable(p)
          => BaseAccess(r) # "MANUAL"
=============================================================================
