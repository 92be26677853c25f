------------------------- MODULE AccessAuditProofs -------------------------
(***************************************************************************)
(* That the controls about access judge rightly what was read, for any     *)
(* number of accounts and repositories, any ranks and any thresholds.      *)
(* IInv says of every record what it rests on; that a count reached the    *)
(* number of active licensed users is turned into who they are by the      *)
(* cardinality of a finite set and a subset of it.                         *)
(***************************************************************************)
EXTENDS AccessAudit, FiniteSetTheorems, TLAPS

Stage == {"admins", "grants", "licensed", "directory", "repositories"}

Organization ==
  [available : SUBSET OrgPart, admins : SUBSET Account, active : SUBSET Account,
   licensed : SUBSET Account, never : SUBSET Account,
   idle : [Account -> Int], age : [Account -> Int]]

Record ==
  [base : {0} \cup Permission, baseKnown : BOOLEAN,
   admins : SUBSET Account, adminsKnown : BOOLEAN]

Typed ==
  /\ world \in Worlds
  /\ stage \in Stage
  /\ licensed \in SUBSET Account
  /\ org \in Organization
  /\ fetcher \in [orgAdmins : SUBSET Account, orgAdminsKnown : BOOLEAN,
                  licensedActive : Nat, licensedKnown : BOOLEAN]
  /\ at \in [Repository -> {"base", "admins", "done"}]
  /\ repo \in [Repository -> Record]
  /\ refused \in SUBSET Repository

(* What the directory records of each account. *)
DirectoryRecorded ==
  /\ org.active = world.active
  /\ org.licensed = licensed
  /\ org.never = IF ActivityKnown THEN Account \ Stamped ELSE {}
  /\ org.idle = [u \in Account |-> IF u \in Stamped THEN DaysSince(world.idle[u]) ELSE -1]
  /\ org.age = [u \in Account |-> IF world.ages THEN DaysSince(world.age[u]) ELSE -1]

OrganizationInv ==
  /\ IF Known("admins") THEN org.admins = world.admins \cap world.active ELSE org.admins = {}
  /\ Known("licensedUsers") => licensed = Listed(world.licensed)
  /\ Known("users") => stage = "repositories" /\ DirectoryRecorded
  /\ Known("userActivity") <=> Known("users") /\ ActivityKnown

Blank == [base |-> 0, baseKnown |-> FALSE, admins |-> {}, adminsKnown |-> FALSE]

(* The levels up to the recorded one were reached, and when it is known the *)
(* next one was not.                                                       *)
Climbed(r) ==
  /\ repo[r].base # 0 => CanAskBase
  /\ \A p \in Permission : p <= repo[r].base => ReachesLast(r, p)
  /\ at[r] = "base" => repo[r].base < RepoAdmin /\ ~repo[r].baseKnown
  /\ repo[r].baseKnown =>
       CanAskBase /\ (repo[r].base < RepoAdmin => ~ReachesLast(r, repo[r].base + 1))
  /\ at[r] # "base" /\ ~repo[r].baseKnown =>
       repo[r].base = 0 /\ (r \in refused \/ ~CanAskBase)

OwnInv(r) ==
  /\ repo[r].adminsKnown => Known("admins") /\ repo[r].admins = OwnAdmins(r)
  /\ r \in world.archived => at[r] # "admins"
  /\ at[r] = "done" /\ r \notin world.archived /\ ~repo[r].adminsKnown =>
       r \in refused \/ ~Known("admins")

RepositoryInv(r) ==
  /\ stage # "repositories" => at[r] = "base" /\ repo[r] = Blank
  /\ Climbed(r)
  /\ OwnInv(r)

IInv ==
  /\ Typed
  /\ OrganizationInv
  /\ FetcherSettled
  /\ \A r \in Repository : RepositoryInv(r)

-----------------------------------------------------------------------------
(* An instance of Worlds is one, and consistent. *)
LEMMA WorldFacts ==
  ASSUME NEW w \in Worlds
  PROVE  /\ w \in World /\ Consistent(w)
         /\ w.active \in SUBSET Account /\ w.licensed \in SUBSET Account
         /\ w.admins \in SUBSET Account /\ w.never \in SUBSET Account
         /\ w.idle \in [Account -> Int] /\ w.age \in [Account -> Int]
         /\ w.times \in BOOLEAN /\ w.ages \in BOOLEAN /\ w.lists \in BOOLEAN
         /\ w.grant \in [Repository -> [Account -> {0} \cup Permission]]
         /\ w.public \in SUBSET Repository /\ w.archived \in SUBSET Repository
  BY AccessAssumption DEF World

(* The accounts of a list can be counted. *)
LEMMA Countable ==
  ASSUME NEW A \in SUBSET Account
  PROVE  IsFiniteSet(A) /\ Cardinality(A) \in Nat
  BY AccessAssumption, FS_Subset, FS_CardinalityType

(* Who holds a level reaches the last position when everyone holds it, and, *)
(* where no inactive account is listed, only then.                         *)
LEMMA ReachMeansAll ==
  ASSUME world \in Worlds, FetcherSettled, fetcher.licensedKnown,
         NEW r \in Repository, NEW p \in Permission
  PROVE  /\ EveryoneHolds(r, p) => ReachesLast(r, p)
         /\ ~world.lists /\ ReachesLast(r, p) => EveryoneHolds(r, p)
<1> DEFINE all == world.licensed \cap world.active
           holders == Holders(r, p)
<1>1. all \in SUBSET Account /\ holders \in SUBSET Account
  BY WorldFacts DEF Holders, Listed
<1>2. fetcher.licensedActive = Cardinality(all)
  BY DEF FetcherSettled
<1>3. ReachesLast(r, p) <=> Cardinality(holders) >= Cardinality(all)
  BY <1>2 DEF ReachesLast
<1>4. IsFiniteSet(all) /\ IsFiniteSet(holders)
      /\ Cardinality(all) \in Nat /\ Cardinality(holders) \in Nat
  BY <1>1, Countable
<1>5. ASSUME EveryoneHolds(r, p) PROVE ReachesLast(r, p)
  <2>1. all \in SUBSET holders
    BY <1>5, WorldFacts DEF EveryoneHolds, Holders, Listed
  <2>2. Cardinality(all) <= Cardinality(holders)
    BY <2>1, <1>4, FS_Subset
  <2> QED
    BY <2>2, <1>3, <1>4
<1>6. ASSUME ~world.lists, ReachesLast(r, p) PROVE EveryoneHolds(r, p)
  <2>1. holders \in SUBSET all
    BY <1>6 DEF Holders, Listed
  <2>2. Cardinality(holders) <= Cardinality(all)
    BY <2>1, <1>4, FS_Subset
  <2>3. Cardinality(all) = Cardinality(holders)
    BY <2>2, <1>3, <1>4, <1>6
  <2>4. all = holders
    BY <2>1, <2>3, <1>4, FS_Subset
  <2> QED
    BY <2>4, <1>6 DEF EveryoneHolds, Holders, Listed
<1> QED
  BY <1>5, <1>6

-----------------------------------------------------------------------------
LEMMA InitIInv == Init => IInv
<1> SUFFICES ASSUME Init PROVE IInv
  OBVIOUS
<1> USE DEF Init
<1>1. Typed
  BY DEF Typed, Stage, Organization, OrgPart, Record, Permission
<1>2. OrganizationInv /\ FetcherSettled
  BY DEF OrganizationInv, FetcherSettled, Known
<1>3. ASSUME NEW r \in Repository PROVE RepositoryInv(r)
  BY DEF RepositoryInv, Blank, Climbed, OwnInv, RepoAdmin, Permission
<1> QED
  BY <1>1, <1>2, <1>3 DEF IInv

(* While the organization is read no repository is touched. *)
LEMMA StageKeepsRepositories ==
  ASSUME IInv, stage # "repositories", UNCHANGED <<world, at, repo, refused>>
  PROVE  \A r \in Repository : RepositoryInv(r)'
<1> SUFFICES ASSUME NEW r \in Repository PROVE RepositoryInv(r)'
  OBVIOUS
<1>1. at[r] = "base" /\ repo[r] = Blank
  BY DEF IInv, RepositoryInv
<1>2. at'[r] = "base" /\ repo'[r] = Blank
  BY <1>1
<1>3. repo'[r].base = 0 /\ ~repo'[r].baseKnown /\ ~repo'[r].adminsKnown
  BY <1>2 DEF Blank
<1> QED
  BY <1>2, <1>3 DEF RepositoryInv, Climbed, OwnInv, RepoAdmin, Permission

(* Each read of the organization records what it read. *)
LEMMA AdminsResolvedKeeps == IInv /\ AdminsResolved => IInv'
<1> SUFFICES ASSUME IInv, AdminsResolved PROVE IInv'
  OBVIOUS
<1> DEFINE admins == Listed(world.admins) \cap world.active
<1>1. /\ stage = "admins" /\ stage' = "grants" /\ UNCHANGED <<world, at, repo, refused, licensed>>
      /\ org' = [org EXCEPT !.available = org.available \cup {"admins"}, !.admins = admins]
      /\ fetcher' = [fetcher EXCEPT !.orgAdmins = admins, !.orgAdminsKnown = TRUE]
  BY DEF AdminsResolved, Goes, Gets
<1>2. admins = world.admins \cap world.active
  BY DEF Listed
<1>3. Typed'
  BY <1>1, <1>2, WorldFacts DEF IInv, Typed, Organization, OrgPart, Stage
<1>4. /\ org'.available = org.available \cup {"admins"} /\ org'.admins = admins
      /\ org'.active = org.active /\ org'.licensed = org.licensed
      /\ fetcher'.orgAdmins = admins /\ fetcher'.orgAdminsKnown = TRUE
      /\ fetcher'.licensedActive = fetcher.licensedActive
      /\ fetcher'.licensedKnown = fetcher.licensedKnown
  BY <1>1 DEF IInv, Typed, Organization
<1>5. OrganizationInv'
  BY <1>1, <1>2, <1>4 DEF IInv, OrganizationInv, Known, Listed, ActivityKnown, Stamped
<1>6. FetcherSettled'
  BY <1>1, <1>2, <1>4 DEF IInv, FetcherSettled, Known
<1> QED
  BY <1>1, <1>3, <1>5, <1>6, StageKeepsRepositories DEF IInv

LEMMA AdminGrantsReadKeeps == IInv /\ AdminGrantsRead => IInv'
<1> SUFFICES ASSUME IInv, AdminGrantsRead PROVE IInv'
  OBVIOUS
<1>1. /\ stage = "grants" /\ stage' = "licensed"
      /\ UNCHANGED <<world, at, repo, refused, licensed, fetcher>>
      /\ org' = [org EXCEPT !.available = org.available \cup {"adminGrants"}]
  BY DEF AdminGrantsRead, Goes, Gets
<1>2. Typed'
  BY <1>1 DEF IInv, Typed, Organization, OrgPart, Stage
<1>3. org'.available = org.available \cup {"adminGrants"} /\ org'.admins = org.admins
  BY <1>1 DEF IInv, Typed, Organization
<1>4. OrganizationInv' /\ FetcherSettled'
  BY <1>1, <1>3
     DEF IInv, OrganizationInv, FetcherSettled, Known, Listed, ActivityKnown, Stamped
<1> QED
  BY <1>1, <1>2, <1>4, StageKeepsRepositories DEF IInv

LEMMA LicensedListedKeeps == IInv /\ LicensedListed => IInv'
<1> SUFFICES ASSUME IInv, LicensedListed PROVE IInv'
  OBVIOUS
<1> DEFINE active == Cardinality(licensed' \cap world.active)
<1>1. /\ stage = "licensed" /\ stage' = "directory"
      /\ UNCHANGED <<world, at, repo, refused>> /\ licensed' = Listed(world.licensed)
      /\ org' = [org EXCEPT !.available = org.available \cup {"licensedUsers"}]
      /\ fetcher' = [fetcher EXCEPT !.licensedActive = active, !.licensedKnown = TRUE]
  BY DEF LicensedListed, Goes, Gets
<1>2. licensed' \in SUBSET Account /\ licensed' \cap world.active = world.licensed \cap world.active
  BY <1>1, WorldFacts DEF IInv, Typed, Listed
<1>3. active \in Nat
  BY <1>2, Countable
<1>4. Typed'
  BY <1>1, <1>2, <1>3 DEF IInv, Typed, Organization, OrgPart, Stage
<1>5. /\ org'.available = org.available \cup {"licensedUsers"} /\ org'.admins = org.admins
      /\ fetcher'.orgAdmins = fetcher.orgAdmins
      /\ fetcher'.orgAdminsKnown = fetcher.orgAdminsKnown
      /\ fetcher'.licensedActive = active /\ fetcher'.licensedKnown = TRUE
  BY <1>1 DEF IInv, Typed, Organization
<1>6. OrganizationInv'
  BY <1>1, <1>5 DEF IInv, OrganizationInv, Known, Listed, ActivityKnown, Stamped
<1>7. FetcherSettled'
  BY <1>1, <1>2, <1>5 DEF IInv, FetcherSettled, Known
<1> QED
  BY <1>1, <1>4, <1>6, <1>7, StageKeepsRepositories DEF IInv

LEMMA DirectoryReadKeeps == IInv /\ DirectoryRead => IInv'
<1> SUFFICES ASSUME IInv, DirectoryRead PROVE IInv'
  OBVIOUS
<1> DEFINE parts == {"users"} \cup IF ActivityKnown THEN {"userActivity"} ELSE {}
           never == IF ActivityKnown THEN Account \ Stamped ELSE {}
           idle == [u \in Account |-> IF u \in Stamped THEN DaysSince(world.idle[u]) ELSE -1]
           age == [u \in Account |-> IF world.ages THEN DaysSince(world.age[u]) ELSE -1]
<1>1. /\ stage = "directory" /\ stage' = "repositories"
      /\ UNCHANGED <<world, at, repo, refused, licensed, fetcher>>
      /\ org' = [org EXCEPT !.available = org.available \cup parts, !.active = world.active,
                            !.licensed = licensed, !.never = never, !.idle = idle, !.age = age]
  BY DEF DirectoryRead, Goes, Gets
<1>2. never \in SUBSET Account /\ idle \in [Account -> Int] /\ age \in [Account -> Int]
  BY WorldFacts DEF IInv, Typed, DaysSince
<1>3. world.active \in SUBSET Account /\ parts \in SUBSET OrgPart
  BY WorldFacts DEF IInv, Typed, OrgPart
<1> HIDE DEF parts, never, idle, age
<1>4. org' = [available |-> org.available \cup parts, admins |-> org.admins,
              active |-> world.active, licensed |-> licensed, never |-> never,
              idle |-> idle, age |-> age]
  BY <1>1 DEF IInv, Typed, Organization
<1>5. Typed'
  <2>1. org' \in Organization
    BY <1>2, <1>3, <1>4 DEF IInv, Typed, Organization
  <2> QED
    BY <2>1, <1>1 DEF IInv, Typed, Stage
<1>6. /\ Known("admins")' <=> Known("admins")
      /\ Known("licensedUsers")' <=> Known("licensedUsers")
      /\ Known("users")'
      /\ Known("userActivity")' <=> ActivityKnown
  BY <1>1, <1>4 DEF IInv, OrganizationInv, Known, parts
<1>7. (ActivityKnown' <=> ActivityKnown) /\ Stamped' = Stamped
      /\ Listed(world.licensed)' = Listed(world.licensed)
  BY <1>1 DEF ActivityKnown, Stamped, Listed
<1>8. DirectoryRecorded'
  <2>1. /\ org'.active = world'.active /\ org'.licensed = licensed'
        /\ org'.never = never /\ org'.idle = idle /\ org'.age = age
    BY <1>1, <1>4
  <2>2. never = IF ActivityKnown' THEN Account \ Stamped' ELSE {}
    BY <1>7 DEF never
  <2>3. idle = [u \in Account |-> IF u \in Stamped' THEN DaysSince(world'.idle[u]) ELSE -1]
    BY <1>1, <1>7 DEF idle
  <2>4. age = [u \in Account |-> IF world'.ages THEN DaysSince(world'.age[u]) ELSE -1]
    BY <1>1 DEF age
  <2> QED
    BY <2>1, <2>2, <2>3, <2>4 DEF DirectoryRecorded
<1>9. OrganizationInv'
  BY <1>1, <1>4, <1>6, <1>7, <1>8 DEF IInv, OrganizationInv
<1>10. FetcherSettled'
  BY <1>1, <1>4, <1>6 DEF IInv, FetcherSettled
<1>11. \A r \in Repository : RepositoryInv(r)'
  BY <1>1, StageKeepsRepositories
<1> QED
  BY <1>5, <1>9, <1>10, <1>11 DEF IInv

LEMMA OrganizationReadFailsKeeps == IInv /\ OrganizationReadFails => IInv'
<1> SUFFICES ASSUME IInv, OrganizationReadFails PROVE IInv'
  OBVIOUS
<1>1. /\ stage # "repositories" /\ stage' \in Stage
      /\ UNCHANGED <<world, at, repo, refused, licensed, fetcher, org>>
  BY DEF OrganizationReadFails, Goes, Stage
<1>2. Typed'
  BY <1>1 DEF IInv, Typed
<1>3. OrganizationInv' /\ FetcherSettled'
  BY <1>1 DEF IInv, OrganizationInv, FetcherSettled, Known, Listed, ActivityKnown, Stamped
<1> QED
  BY <1>1, <1>2, <1>3, StageKeepsRepositories DEF IInv

-----------------------------------------------------------------------------
(* A step of one repository's goroutine leaves everything else as it was,  *)
(* so that what it owes is its own record.                                 *)
LEMMA OneRepository ==
  ASSUME IInv, NEW r \in Repository, stage = "repositories",
         UNCHANGED <<world, stage, licensed, org, fetcher>>,
         NEW place \in {"base", "admins", "done"}, at' = [at EXCEPT ![r] = place],
         NEW record \in Record, repo' = [repo EXCEPT ![r] = record],
         refused' = refused \/ refused' = refused \cup {r},
         Climbed(r)', OwnInv(r)'
  PROVE  IInv'
<1>1. Typed'
  BY DEF IInv, Typed
<1>2. OrganizationInv' /\ FetcherSettled'
  BY DEF IInv, OrganizationInv, DirectoryRecorded, FetcherSettled, Known, Listed,
         ActivityKnown, Stamped
<1>3. ASSUME NEW s \in Repository PROVE RepositoryInv(s)'
  <2>1. CASE s = r
    BY <2>1 DEF RepositoryInv
  <2>2. CASE s # r
    <3>1. /\ at'[s] = at[s] /\ repo'[s] = repo[s]
          /\ s \in refused' <=> s \in refused
      BY <2>2 DEF IInv, Typed
    <3>2. RepositoryInv(s)
      BY DEF IInv
    <3>3. Climbed(s)'
      BY <3>1, <3>2 DEF RepositoryInv, Climbed, CanAskBase, ReachesLast, Holders, Listed
    <3>4. OwnInv(s)'
      BY <3>1, <3>2 DEF RepositoryInv, OwnInv, OwnAdmins, Known
    <3> QED
      BY <3>3, <3>4 DEF RepositoryInv
  <2> QED
    BY <2>1, <2>2
<1> QED
  BY <1>1, <1>2, <1>3 DEF IInv

(* What the steps of a goroutine have in common. *)
LEMMA Step ==
  ASSUME IInv, NEW r \in Repository, NEW from, IsAt(r, from), NEW to, Moves(r, to)
  PROVE  /\ stage = "repositories" /\ UNCHANGED <<world, stage, licensed, org, fetcher>>
         /\ at' = [at EXCEPT ![r] = to] /\ at[r] = from /\ at'[r] = to
         /\ repo[r] \in Record /\ Climbed(r) /\ OwnInv(r)
         /\ CanAskBase' <=> CanAskBase
         /\ \A p : ReachesLast(r, p)' <=> ReachesLast(r, p)
         /\ OwnAdmins(r)' = OwnAdmins(r)
         /\ Known("admins")' <=> Known("admins")
  BY DEF IInv, Typed, RepositoryInv, IsAt, Moves, CanAskBase, ReachesLast, Holders, Listed,
         OwnAdmins, Known

(* Where a goroutine goes after the base access. *)
LEMMA AfterBase ==
  ASSUME IInv, NEW r \in Repository, IsAt(r, "base"), LeavesBase(r)
  PROVE  \E to \in {"admins", "done"} :
           Moves(r, to) /\ (to = "done" <=> r \in world.archived)
  BY DEF LeavesBase

LEMMA BaseUnaskedKeeps ==
  ASSUME IInv, NEW r \in Repository, BaseUnasked(r)
  PROVE  IInv'
<1>1. IsAt(r, "base") /\ ~CanAskBase /\ LeavesBase(r) /\ repo' = repo /\ refused' = refused
  BY DEF BaseUnasked
<1>2. PICK to \in {"admins", "done"} : Moves(r, to) /\ (to = "done" <=> r \in world.archived)
  BY <1>1, AfterBase
<1>3. /\ stage = "repositories" /\ UNCHANGED <<world, stage, licensed, org, fetcher>>
      /\ at' = [at EXCEPT ![r] = to] /\ at[r] = "base" /\ at'[r] = to
      /\ repo[r] \in Record /\ Climbed(r) /\ OwnInv(r)
      /\ CanAskBase' <=> CanAskBase
      /\ \A p : ReachesLast(r, p)' <=> ReachesLast(r, p)
      /\ OwnAdmins(r)' = OwnAdmins(r)
      /\ Known("admins")' <=> Known("admins")
  BY <1>1, <1>2, Step
<1>4. repo' = [repo EXCEPT ![r] = repo[r]]
  BY <1>1 DEF IInv, Typed
<1>5. Climbed(r)'
  BY <1>1, <1>3 DEF Climbed
<1>6. OwnInv(r)'
  BY <1>1, <1>2, <1>3 DEF OwnInv
<1> QED
  BY <1>1, <1>2, <1>3, <1>4, <1>5, <1>6, OneRepository

LEMMA BaseHeldKeeps ==
  ASSUME IInv, NEW r \in Repository, BaseHeld(r)
  PROVE  IInv'
<1> DEFINE record == [repo[r] EXCEPT !.base = repo[r].base + 1]
<1>1. /\ IsAt(r, "base") /\ CanAskBase /\ Moves(r, "base") /\ refused' = refused
      /\ repo[r].base + 1 < RepoAdmin /\ ReachesLast(r, repo[r].base + 1)
  BY DEF BaseHeld
<1>2. /\ stage = "repositories" /\ UNCHANGED <<world, stage, licensed, org, fetcher>>
      /\ at' = [at EXCEPT ![r] = "base"] /\ at[r] = "base" /\ at'[r] = "base"
      /\ repo[r] \in Record /\ Climbed(r) /\ OwnInv(r)
      /\ CanAskBase' <=> CanAskBase
      /\ \A p : ReachesLast(r, p)' <=> ReachesLast(r, p)
      /\ OwnAdmins(r)' = OwnAdmins(r)
      /\ Known("admins")' <=> Known("admins")
  BY <1>1, Step
<1>3. repo' = [repo EXCEPT ![r] = record] /\ repo'[r] = record
  BY DEF BaseHeld, IInv, Typed
<1>4. /\ record \in Record /\ record.base = repo[r].base + 1
      /\ record.baseKnown = repo[r].baseKnown /\ record.admins = repo[r].admins
      /\ record.adminsKnown = repo[r].adminsKnown
  BY <1>1, <1>2 DEF Record, Permission, RepoAdmin
<1> HIDE DEF record
<1>5. ASSUME NEW p \in Permission, p <= record.base PROVE ReachesLast(r, p)
  <2>1. p <= repo[r].base \/ p = repo[r].base + 1
    BY <1>2, <1>4, <1>5 DEF Record, Permission
  <2> QED
    BY <2>1, <1>1, <1>2 DEF Climbed
<1>6. Climbed(r)'
  BY <1>1, <1>2, <1>3, <1>4, <1>5 DEF Climbed
<1>7. OwnInv(r)'
  BY <1>1, <1>2, <1>3, <1>4 DEF OwnInv
<1> QED
  BY <1>1, <1>2, <1>3, <1>4, <1>6, <1>7, OneRepository

LEMMA BaseSettledKeeps ==
  ASSUME IInv, NEW r \in Repository, BaseSettled(r)
  PROVE  IInv'
<1>1. IsAt(r, "base") /\ CanAskBase /\ LeavesBase(r) /\ refused' = refused
  BY DEF BaseSettled
<1>2. PICK to \in {"admins", "done"} : Moves(r, to) /\ (to = "done" <=> r \in world.archived)
  BY <1>1, AfterBase
<1>3. /\ stage = "repositories" /\ UNCHANGED <<world, stage, licensed, org, fetcher>>
      /\ at' = [at EXCEPT ![r] = to] /\ at[r] = "base" /\ at'[r] = to
      /\ repo[r] \in Record /\ Climbed(r) /\ OwnInv(r)
      /\ CanAskBase' <=> CanAskBase
      /\ \A p : ReachesLast(r, p)' <=> ReachesLast(r, p)
      /\ OwnAdmins(r)' = OwnAdmins(r)
      /\ Known("admins")' <=> Known("admins")
  BY <1>1, <1>2, Step
<1>4. PICK level \in {repo[r].base, RepoAdmin} :
        /\ repo' = [repo EXCEPT ![r] = [repo[r] EXCEPT !.base = level, !.baseKnown = TRUE]]
        /\ \/ level = repo[r].base /\ ~ReachesLast(r, repo[r].base + 1)
           \/ repo[r].base + 1 = RepoAdmin /\ level = RepoAdmin /\ ReachesLast(r, RepoAdmin)
  <2>1. CASE ~ReachesLast(r, repo[r].base + 1) /\ repo' = [repo EXCEPT ![r].baseKnown = TRUE]
    BY <2>1, <1>3 DEF IInv, Typed, Record
  <2>2. CASE /\ repo[r].base + 1 = RepoAdmin /\ ReachesLast(r, RepoAdmin)
             /\ repo' = [repo EXCEPT ![r].base = RepoAdmin, ![r].baseKnown = TRUE]
    BY <2>2, <1>3 DEF IInv, Typed, Record
  <2> QED
    BY <2>1, <2>2 DEF BaseSettled
<1> DEFINE record == [repo[r] EXCEPT !.base = level, !.baseKnown = TRUE]
<1>5. /\ record \in Record /\ record.base = level /\ record.baseKnown
      /\ record.admins = repo[r].admins /\ record.adminsKnown = repo[r].adminsKnown
      /\ repo'[r] = record
  <2>1. level \in {0} \cup Permission
    BY <1>3 DEF Record, Permission, RepoAdmin
  <2>2. repo'[r] = record
    BY <1>4 DEF IInv, Typed
  <2> QED
    BY <2>1, <2>2, <1>3 DEF Record
<1> HIDE DEF record
<1>6. ASSUME NEW p \in Permission, p <= level PROVE ReachesLast(r, p)
  <2>1. p <= repo[r].base \/ (p = RepoAdmin /\ ReachesLast(r, RepoAdmin))
    BY <1>3, <1>4, <1>6 DEF Record, Permission, RepoAdmin
  <2> QED
    BY <2>1, <1>3 DEF Climbed
<1>7. level < RepoAdmin => ~ReachesLast(r, level + 1)
  BY <1>4 DEF RepoAdmin
<1>8. Climbed(r)'
  BY <1>1, <1>2, <1>3, <1>5, <1>6, <1>7 DEF Climbed
<1>9. OwnInv(r)'
  BY <1>1, <1>2, <1>3, <1>5 DEF OwnInv
<1> QED
  BY <1>1, <1>2, <1>3, <1>4, <1>5, <1>8, <1>9, OneRepository DEF record

LEMMA BaseFailsKeeps ==
  ASSUME IInv, NEW r \in Repository, BaseFails(r)
  PROVE  IInv'
<1> DEFINE record == [repo[r] EXCEPT !.base = 0]
<1>1. IsAt(r, "base") /\ LeavesBase(r) /\ refused' = refused \cup {r}
  BY DEF BaseFails
<1>2. PICK to \in {"admins", "done"} : Moves(r, to) /\ (to = "done" <=> r \in world.archived)
  BY <1>1, AfterBase
<1>3. /\ stage = "repositories" /\ UNCHANGED <<world, stage, licensed, org, fetcher>>
      /\ at' = [at EXCEPT ![r] = to] /\ at[r] = "base" /\ at'[r] = to
      /\ repo[r] \in Record /\ Climbed(r) /\ OwnInv(r)
      /\ CanAskBase' <=> CanAskBase
      /\ \A p : ReachesLast(r, p)' <=> ReachesLast(r, p)
      /\ OwnAdmins(r)' = OwnAdmins(r)
      /\ Known("admins")' <=> Known("admins")
  BY <1>1, <1>2, Step
<1>4. repo' = [repo EXCEPT ![r] = record] /\ repo'[r] = record
  BY DEF BaseFails, IInv, Typed
<1>5. /\ record \in Record /\ record.base = 0
      /\ record.baseKnown = repo[r].baseKnown /\ record.admins = repo[r].admins
      /\ record.adminsKnown = repo[r].adminsKnown
  BY <1>3 DEF Record
<1> HIDE DEF record
<1>6. Climbed(r)'
  BY <1>1, <1>3, <1>4, <1>5 DEF Climbed, Permission
<1>7. OwnInv(r)'
  BY <1>1, <1>2, <1>3, <1>4, <1>5 DEF OwnInv
<1> QED
  BY <1>1, <1>2, <1>3, <1>4, <1>5, <1>6, <1>7, OneRepository

LEMMA OwnAdminsListedKeeps ==
  ASSUME IInv, NEW r \in Repository, OwnAdminsListed(r)
  PROVE  IInv'
<1> DEFINE own == (Listed({u \in Account : world.grant[r][u] = RepoAdmin}) \cap world.active)
                     \ fetcher.orgAdmins
           record == [repo[r] EXCEPT !.admins = own, !.adminsKnown = fetcher.orgAdminsKnown]
<1>1. IsAt(r, "admins") /\ Moves(r, "done") /\ refused' = refused
  BY DEF OwnAdminsListed
<1>2. /\ stage = "repositories" /\ UNCHANGED <<world, stage, licensed, org, fetcher>>
      /\ at' = [at EXCEPT ![r] = "done"] /\ at[r] = "admins" /\ at'[r] = "done"
      /\ repo[r] \in Record /\ Climbed(r) /\ OwnInv(r)
      /\ CanAskBase' <=> CanAskBase
      /\ \A p : ReachesLast(r, p)' <=> ReachesLast(r, p)
      /\ OwnAdmins(r)' = OwnAdmins(r)
      /\ Known("admins")' <=> Known("admins")
  BY <1>1, Step
<1>3. repo' = [repo EXCEPT ![r] = record] /\ repo'[r] = record
  BY DEF OwnAdminsListed, IInv, Typed
<1>4. own \in SUBSET Account /\ fetcher.orgAdminsKnown \in BOOLEAN
  BY DEF IInv, Typed, Listed
<1>5. fetcher.orgAdminsKnown => Known("admins") /\ own = OwnAdmins(r)
  BY WorldFacts
     DEF IInv, Typed, OrganizationInv, FetcherSettled, Known, OwnAdmins, Listed
<1>6. ~fetcher.orgAdminsKnown => ~Known("admins")
  BY DEF IInv, FetcherSettled
<1> HIDE DEF own
<1>7. /\ record \in Record /\ record.base = repo[r].base
      /\ record.baseKnown = repo[r].baseKnown /\ record.admins = own
      /\ record.adminsKnown = fetcher.orgAdminsKnown
  BY <1>2, <1>4 DEF Record
<1> HIDE DEF record
<1>8. Climbed(r)'
  BY <1>1, <1>2, <1>3, <1>7 DEF Climbed
<1>9. OwnInv(r)'
  BY <1>1, <1>2, <1>3, <1>5, <1>6, <1>7 DEF OwnInv
<1> QED
  BY <1>1, <1>2, <1>3, <1>7, <1>8, <1>9, OneRepository

LEMMA OwnAdminsFailKeeps ==
  ASSUME IInv, NEW r \in Repository, OwnAdminsFail(r)
  PROVE  IInv'
<1>1. /\ IsAt(r, "admins") /\ Moves(r, "done") /\ refused' = refused \cup {r}
      /\ repo' = repo
  BY DEF OwnAdminsFail
<1>2. /\ stage = "repositories" /\ UNCHANGED <<world, stage, licensed, org, fetcher>>
      /\ at' = [at EXCEPT ![r] = "done"] /\ at[r] = "admins" /\ at'[r] = "done"
      /\ repo[r] \in Record /\ Climbed(r) /\ OwnInv(r)
      /\ CanAskBase' <=> CanAskBase
      /\ \A p : ReachesLast(r, p)' <=> ReachesLast(r, p)
      /\ OwnAdmins(r)' = OwnAdmins(r)
      /\ Known("admins")' <=> Known("admins")
  BY <1>1, Step
<1>3. repo' = [repo EXCEPT ![r] = repo[r]]
  BY <1>1 DEF IInv, Typed
<1>4. Climbed(r)' /\ OwnInv(r)'
  BY <1>1, <1>2 DEF Climbed, OwnInv
<1> QED
  BY <1>1, <1>2, <1>3, <1>4, OneRepository

(* A step that changes nothing keeps everything. *)
LEMMA StutterKeeps == IInv /\ UNCHANGED vars => IInv'
<1> SUFFICES ASSUME IInv, UNCHANGED vars PROVE IInv'
  OBVIOUS
<1>1. UNCHANGED <<world, stage, licensed, org, fetcher, at, repo, refused>>
  BY DEF vars
<1>2. Typed' /\ OrganizationInv' /\ FetcherSettled'
  BY <1>1 DEF IInv, Typed, OrganizationInv, DirectoryRecorded, FetcherSettled, Known, Listed,
              ActivityKnown, Stamped
<1>3. ASSUME NEW r \in Repository PROVE RepositoryInv(r)'
  <2>1. RepositoryInv(r)
    BY DEF IInv
  <2>2. Climbed(r)'
    BY <1>1, <2>1 DEF RepositoryInv, Climbed, CanAskBase, ReachesLast, Holders, Listed
  <2>3. OwnInv(r)'
    BY <1>1, <2>1 DEF RepositoryInv, OwnInv, OwnAdmins, Known
  <2> QED
    BY <1>1, <2>1, <2>2, <2>3 DEF RepositoryInv
<1> QED
  BY <1>2, <1>3 DEF IInv

LEMMA NextIInv == IInv /\ [Next]_vars => IInv'
<1> SUFFICES ASSUME IInv, [Next]_vars PROVE IInv'
  OBVIOUS
<1>1. CASE AdminsResolved
  BY <1>1, AdminsResolvedKeeps
<1>2. CASE AdminGrantsRead
  BY <1>2, AdminGrantsReadKeeps
<1>3. CASE LicensedListed
  BY <1>3, LicensedListedKeeps
<1>4. CASE DirectoryRead
  BY <1>4, DirectoryReadKeeps
<1>5. CASE OrganizationReadFails
  BY <1>5, OrganizationReadFailsKeeps
<1>6. ASSUME NEW r \in Repository,
             \/ BaseUnasked(r) \/ BaseHeld(r) \/ BaseSettled(r) \/ BaseFails(r)
             \/ OwnAdminsListed(r) \/ OwnAdminsFail(r)
      PROVE  IInv'
  BY <1>6, BaseUnaskedKeeps, BaseHeldKeeps, BaseSettledKeeps, BaseFailsKeeps,
     OwnAdminsListedKeeps, OwnAdminsFailKeeps
<1>7. CASE Audited \/ UNCHANGED vars
  BY <1>7, StutterKeeps DEF Audited
<1> QED
  BY <1>1, <1>2, <1>3, <1>4, <1>5, <1>6, <1>7 DEF Next

(* The invariant everything below rests on. *)
LEMMA Invariant == Spec => []IInv
  BY InitIInv, NextIInv, PTL DEF Spec

-----------------------------------------------------------------------------
(* From the invariant to the properties, state by state. *)

(* What a repository's record says of the instance. *)
LEMMA RepositoryFacts ==
  ASSUME IInv, NEW r \in Repository
  PROVE  RepositoryRecorded(r)
<1>1. Climbed(r) /\ OwnInv(r) /\ repo[r] \in Record /\ world \in Worlds
  BY DEF IInv, RepositoryInv, Typed
<1>2. ASSUME repo[r].baseKnown, NEW p \in Permission, EveryoneHolds(r, p)
      PROVE  p <= repo[r].base
  <2>1. SUFFICES ASSUME p > repo[r].base PROVE FALSE
    BY <1>1 DEF Record, Permission
  <2> DEFINE q == repo[r].base + 1
  <2>2. q \in Permission /\ q <= p /\ repo[r].base < RepoAdmin
    BY <1>1, <2>1 DEF Record, Permission, RepoAdmin
  <2>3. EveryoneHolds(r, q)
    <3>1. \A u \in Account : world.grant[r][u] \in {0} \cup Permission
      BY <1>1, WorldFacts
    <3> QED
      BY <1>1, <1>2, <2>2, <3>1, WorldFacts DEF EveryoneHolds, Permission
  <2>4. fetcher.licensedKnown /\ ~ReachesLast(r, q)
    BY <1>1, <1>2, <2>2 DEF Climbed, CanAskBase
  <2> QED
    BY <1>1, <2>2, <2>3, <2>4, ReachMeansAll DEF IInv
<1>3. ASSUME repo[r].baseKnown, ~world.lists PROVE EveryoneHolds(r, repo[r].base)
  <2>1. CASE repo[r].base = 0
    <3>1. \A u \in Account : world.grant[r][u] \in {0} \cup Permission
      BY <1>1, WorldFacts
    <3> QED
      BY <1>1, <2>1, <3>1, WorldFacts DEF EveryoneHolds, Permission
  <2>2. CASE repo[r].base # 0
    <3>1. repo[r].base \in Permission /\ ReachesLast(r, repo[r].base) /\ fetcher.licensedKnown
      BY <1>1, <2>2 DEF Record, Permission, Climbed, CanAskBase
    <3> QED
      BY <1>1, <1>3, <3>1, ReachMeansAll DEF IInv
  <2> QED
    BY <2>1, <2>2
<1> QED
  BY <1>1, <1>2, <1>3 DEF RepositoryRecorded, OwnInv

LEMMA RecordedHolds == IInv => Recorded
<1> SUFFICES ASSUME IInv PROVE Recorded
  OBVIOUS
<1>1. OrganizationRecorded
  <2>1. Known("users") => org.active = world.active
    BY DEF IInv, OrganizationInv, DirectoryRecorded
  <2>2. {"users", "licensedUsers"} \subseteq org.available =>
          world.licensed \cap world.active \subseteq org.licensed
            /\ org.licensed \subseteq world.licensed
    BY DEF IInv, OrganizationInv, DirectoryRecorded, Known, Listed
  <2>3. ASSUME Known("userActivity")
        PROVE  /\ org.never = world.never
               /\ \A u \in Account \ world.never : org.idle[u] = DaysSince(world.idle[u])
    <3>1. ActivityKnown /\ DirectoryRecorded
      BY <2>3 DEF IInv, OrganizationInv
    <3>2. Stamped = Account \ world.never /\ world.never \in SUBSET Account
      BY <3>1, WorldFacts DEF ActivityKnown, Stamped, IInv, Typed
    <3> QED
      BY <3>1, <3>2 DEF DirectoryRecorded
  <2> QED
    BY <2>1, <2>2, <2>3 DEF OrganizationRecorded, IInv, OrganizationInv
<1> QED
  BY <1>1, RepositoryFacts DEF Recorded, IInv

(* With the directory and the licensed users, the population is whom the    *)
(* dormancy control is about.                                              *)
LEMMA PopulationFacts ==
  ASSUME IInv, {"users", "licensedUsers"} \subseteq org.available
  PROVE  /\ Population = world.active \cap world.licensed
         /\ DirectoryRecorded
  BY DEF IInv, OrganizationInv, DirectoryRecorded, Population, Known, Listed

(* What is recorded of one account, once it is known who signed in. *)
LEMMA HabitFacts ==
  ASSUME IInv, DirectoryRecorded, ActivityKnown, NEW u \in Account
  PROVE  /\ u \in org.never <=> u \in world.never
         /\ u \in world.never => org.idle[u] = -1
         /\ u \notin world.never => org.idle[u] = DaysSince(world.idle[u])
         /\ org.age[u] = IF world.ages THEN DaysSince(world.age[u]) ELSE -1
         /\ world.idle[u] \in Int /\ world.age[u] \in Int
  BY WorldFacts DEF IInv, Typed, DirectoryRecorded, ActivityKnown, Stamped

LEMMA DormantFacts ==
  ASSUME IInv
  PROVE  /\ DormantAccounts = "PASS" => \A u \in Account : ~Dormant(u)
         /\ DormantAccounts = "FAIL" => \E u \in Account : Dormant(u)
<1>1. CASE ~{"users", "userActivity", "licensedUsers"} \subseteq org.available
  BY <1>1 DEF DormantAccounts
<1>2. CASE {"users", "userActivity", "licensedUsers"} \subseteq org.available
  <2>1. /\ Population = world.active \cap world.licensed
        /\ DirectoryRecorded /\ ActivityKnown
    BY <1>2, PopulationFacts DEF IInv, OrganizationInv, Known
  <2>2. InactiveDays \in Nat /\ Population \subseteq Account
    BY <2>1, AccessAssumption, WorldFacts DEF IInv, Typed
  <2>3. ASSUME DormantAccounts = "PASS", NEW u \in Account, Dormant(u) PROVE FALSE
    <3>1. u \in Population /\ u \notin DormantSeen /\ u \notin DormancyUnknown
      BY <1>2, <2>1, <2>3 DEF DormantAccounts, Dormant
    <3>2. ~(org.idle[u] >= InactiveDays) /\ ~(u \in world.never /\ org.age[u] >= InactiveDays)
      BY <3>1, <2>1, HabitFacts DEF DormantSeen
    <3>3. ~(org.idle[u] < 0) \/ (u \in world.never /\ ~(org.age[u] < 0))
      BY <3>1, <2>1, HabitFacts DEF DormancyUnknown
    <3> QED
      BY <2>1, <2>2, <2>3, <3>2, <3>3, HabitFacts DEF Dormant, DaysSince
  <2>4. ASSUME DormantAccounts = "FAIL" PROVE \E u \in Account : Dormant(u)
    <3>1. PICK u \in DormantSeen : TRUE
      BY <1>2, <2>4 DEF DormantAccounts
    <3>2. /\ u \in Population /\ u \in Account
          /\ org.idle[u] >= InactiveDays \/ (u \in world.never /\ org.age[u] >= InactiveDays)
      BY <3>1, <2>1, <2>2, HabitFacts DEF DormantSeen
    <3> QED
      BY <2>1, <2>2, <3>2, HabitFacts DEF Dormant, DaysSince
  <2> QED
    BY <2>3, <2>4
<1> QED
  BY <1>1, <1>2

(* The number of administrators seen is theirs when they were listed, and   *)
(* zero otherwise.                                                         *)
LEMMA AdminFacts ==
  ASSUME IInv
  PROVE  /\ Known("admins") => OrgAdminsSeen = OrgAdmins
         /\ ~Known("admins") => OrgAdminsSeen = 0
         /\ MinOrg \in Nat /\ MaxOrg \in Nat /\ MinOwn \in Nat /\ OrgAdmins \in Nat
  BY AccessAssumption, WorldFacts, Countable, FS_EmptySet
     DEF IInv, Typed, OrganizationInv, OrgAdminsSeen, OrgAdmins

LEMMA OrganizationFacts ==
  ASSUME IInv
  PROVE  /\ OrganizationAdmins = "PASS" => OrgAdmins >= MinOrg /\ ~OrgAdminsExceed(OrgAdmins)
         /\ OrganizationAdmins = "FAIL" => OrgAdmins < MinOrg \/ OrgAdminsExceed(OrgAdmins)
         /\ Known("admins") => OrganizationAdmins # "MANUAL"
  BY AdminFacts DEF OrganizationAdmins, OrgAdminsExceed

LEMMA OwnFacts ==
  ASSUME IInv, NEW r \in Repository
  PROVE  /\ RepositoryAdmins(r) = "PASS" => Cardinality(OwnAdmins(r)) >= MinOwn
         /\ RepositoryAdmins(r) = "FAIL" => Cardinality(OwnAdmins(r)) < MinOwn
         /\ Judged(r) /\ r \notin refused /\ Known("admins") => RepositoryAdmins(r) # "MANUAL"
<1>1. OwnInv(r)
  BY DEF IInv, RepositoryInv
<1>2. OwnAdmins(r) \in SUBSET Account /\ MinOwn \in Nat
  BY AccessAssumption, WorldFacts DEF IInv, Typed, OwnAdmins
<1>3. Cardinality(OwnAdmins(r)) \in Nat
  BY <1>2, Countable
<1> QED
  BY <1>1, <1>2, <1>3 DEF RepositoryAdmins, OwnInv, Judged

(* The ranks grow with the permissions, as far as they are known. *)
LEMMA RankFacts ==
  ASSUME NEW p \in {0} \cup Permission, NEW b \in {0} \cup Permission, p <= b, Comparable(b)
  PROVE  RankOf(p) <= RankOf(b)
  BY AccessAssumption DEF RankOf, Comparable, Permission

LEMMA BaseFacts ==
  ASSUME IInv, NEW r \in Repository
  PROVE  /\ BaseAccess(r) = "PASS" => ~AnonymousAccess(r) /\ BaseWithin(r)
         /\ Judged(r) /\ BaseAccess(r) = "FAIL" /\ ~world.lists =>
              AnonymousAccess(r) \/ ~BaseWithin(r)
         /\ /\ Judged(r) /\ r \notin refused /\ Known("licensedUsers")
            /\ world.licensed \cap world.active # {}
            /\ \A p \in Permission : Comparable(p)
            => BaseAccess(r) # "MANUAL"
<1>1. RepositoryRecorded(r) /\ Climbed(r) /\ repo[r] \in Record /\ world \in Worlds
  BY RepositoryFacts DEF IInv, RepositoryInv, Typed
<1> DEFINE b == repo[r].base
<1>2. b \in {0} \cup Permission /\ RankOf(Ceiling) \in Int /\ RankOf(b) \in Int
      /\ RankOf(Ceiling) >= 0
  BY <1>1, AccessAssumption DEF Record, RankOf, Permission
<1>3. ASSUME BaseAccess(r) = "PASS" PROVE ~AnonymousAccess(r) /\ BaseWithin(r)
  <2>1. ~AnonymousAccess(r) /\ ~(RankOf(b) > RankOf(Ceiling)) /\ repo[r].baseKnown /\ Comparable(b)
    BY <1>3 DEF BaseAccess
  <2>2. ASSUME NEW p \in {0} \cup Permission, EveryoneHolds(r, p)
        PROVE  RankOf(p) <= RankOf(Ceiling)
    <3>1. p <= b
      BY <1>1, <1>2, <2>1, <2>2 DEF RepositoryRecorded, Permission
    <3>2. RankOf(p) <= RankOf(b)
      BY <1>2, <2>1, <3>1, RankFacts
    <3>3. RankOf(p) \in Int
      BY AccessAssumption DEF RankOf
    <3> QED
      BY <1>2, <2>1, <3>2, <3>3
  <2> QED
    BY <2>1, <2>2 DEF BaseWithin
<1>4. ASSUME Judged(r), BaseAccess(r) = "FAIL", ~world.lists, ~AnonymousAccess(r)
      PROVE  ~BaseWithin(r)
  <2>1. RankOf(b) > RankOf(Ceiling)
    BY <1>4 DEF BaseAccess
  <2>2. b # 0
    BY <1>2, <2>1, AccessAssumption DEF RankOf, Permission
  <2>3. repo[r].baseKnown
    BY <1>1, <1>4, <2>2 DEF Climbed, Judged
  <2>4. EveryoneHolds(r, b) /\ \A q \in Permission : EveryoneHolds(r, q) => q <= b
    BY <1>1, <1>4, <2>3 DEF RepositoryRecorded
  <2> QED
    BY <1>2, <2>1, <2>4 DEF BaseWithin
<1>5. ASSUME Judged(r), r \notin refused, Known("licensedUsers"),
             world.licensed \cap world.active # {}, \A p \in Permission : Comparable(p)
      PROVE  BaseAccess(r) # "MANUAL"
  <2> DEFINE all == world.licensed \cap world.active
  <2>1. all \in SUBSET Account
    BY <1>1, WorldFacts
  <2>2. fetcher.licensedKnown /\ fetcher.licensedActive = Cardinality(all)
    BY <1>5 DEF IInv, FetcherSettled
  <2>3. Cardinality(all) \in Nat /\ Cardinality(all) # 0
    BY <1>5, <2>1, Countable, FS_EmptySet
  <2>4. CanAskBase
    BY <2>2, <2>3 DEF CanAskBase
  <2>5. repo[r].baseKnown
    BY <1>1, <1>5, <2>4 DEF Climbed, Judged
  <2>6. Comparable(b)
    BY <1>2, <1>5 DEF Comparable
  <2> QED
    BY <2>5, <2>6 DEF BaseAccess
<1> QED
  BY <1>3, <1>4, <1>5

LEMMA DormancyDecided ==
  ASSUME IInv, {"users", "licensedUsers"} \subseteq org.available,
         world.times, world.ages, world.never # Account
  PROVE  DormantAccounts # "MANUAL"
<1>1. Stamped # {} /\ world.never \in SUBSET Account
  BY WorldFacts DEF IInv, Typed, Stamped
<1>2. ActivityKnown /\ DirectoryRecorded /\ Population \subseteq Account
  BY <1>1, PopulationFacts, WorldFacts DEF ActivityKnown, IInv, Typed
<1>3. "userActivity" \in org.available
  BY <1>2 DEF IInv, OrganizationInv, Known
<1>4. ASSUME NEW u \in Population PROVE u \notin DormancyUnknown
  BY <1>2, <1>4, HabitFacts DEF DormancyUnknown, DaysSince
<1>5. DormancyUnknown = {}
  BY <1>4 DEF DormancyUnknown
<1> QED
  BY <1>3, <1>5 DEF DormantAccounts

-----------------------------------------------------------------------------
(* The theorems. *)

(* What is recorded as known of the organization, of what the main          *)
(* goroutine left for the others, and of every repository, is true.        *)
THEOREM RecordsAreTrue == Spec => []Recorded
  BY Invariant, RecordedHolds, PTL

(* No control about access passes what does not meet it. *)
THEOREM AccessPassesAreEarned == Spec => []PassesAreEarned
<1>1. IInv => PassesAreEarned
  BY DormantFacts, OrganizationFacts, OwnFacts, BaseFacts DEF PassesAreEarned
<1> QED
  BY <1>1, Invariant, PTL

(* None fails what does, but for a base permission where the instance lists *)
(* inactive accounts.                                                      *)
THEOREM AccessFailuresAreReal == Spec => []FailuresAreReal
<1>1. IInv => FailuresAreReal
  BY DormantFacts, OrganizationFacts, OwnFacts, BaseFacts DEF FailuresAreReal
<1> QED
  BY <1>1, Invariant, PTL

(* Each decides when what it rests on was read. *)
THEOREM AccessIsDecided == Spec => []FullReadDecides
<1>1. IInv => FullReadDecides
  BY OrganizationFacts, OwnFacts, BaseFacts, DormancyDecided DEF FullReadDecides
<1> QED
  BY <1>1, Invariant, PTL
=============================================================================
