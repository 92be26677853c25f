------------------------------ MODULE GroupCache ------------------------------
(***************************************************************************)
(* How repository goroutines expand the groups their branch restrictions   *)
(* exempt: Fetcher.expandPrincipals and Fetcher.groupMembers               *)
(* (src/internal/scm/bitbucketdc/fetcher.go).  Answers are memoised under  *)
(* groupMu, which is not held while the instance is asked, so several      *)
(* goroutines may ask about one group at once and be told differently.     *)
(***************************************************************************)
EXTENDS Naturals, Sequences

CONSTANTS
  Reader,      \* repository goroutines
  Group,       \* directory groups
  Restriction, \* branch restrictions, each of one repository
  Exempt       \* the exempted groups, as <<restriction, group>>, that each
               \* goroutine meets, in order

ASSUME GroupAssumption == Exempt \in [Reader -> Seq(Restriction \X Group)]

VARIABLES
  groupCache, \* groups whose members are memoised
  groupFail,  \* groups whose failure is memoised
  warned,     \* groups a warning of the snapshot names
  at,         \* each reader's place in its list
  asking,     \* readers waiting for the instance
  expanded,   \* groups whose members are counted for a restriction
  complete,   \* restrictions whose count is not marked as a lower bound
  asked       \* how often a reader has asked the instance about a group

memo == <<groupCache, groupFail, warned>>
vars == <<memo, at, asking, expanded, complete, asked>>

Init ==
  /\ groupCache = {} /\ groupFail = {} /\ warned = {}
  /\ at = [r \in Reader |-> 1]
  /\ asking = {}
  /\ expanded = [k \in Restriction |-> {}]
  /\ complete = Restriction
  /\ asked = [r \in Reader |-> [g \in Group |-> 0]]

Grant(r) == Exempt[r][at[r]][2]
For(r) == Exempt[r][at[r]][1]
Busy(r) == at[r] <= Len(Exempt[r])

(* groupMembers answers that it knows the members, or that it does not, and *)
(* expandPrincipals goes on to the next grant.                             *)
Members(r) ==
  /\ at' = [at EXCEPT ![r] = @ + 1]
  /\ expanded' = [expanded EXCEPT ![For(r)] = @ \cup {Grant(r)}]
  /\ UNCHANGED complete

(* Mutation: the failure is passed over, as a bare continue would. *)
NoMembersUnmarked(r) ==
  /\ at' = [at EXCEPT ![r] = @ + 1]
  /\ UNCHANGED <<expanded, complete>>

NoMembers(r) ==
  /\ at' = [at EXCEPT ![r] = @ + 1]
  /\ complete' = complete \ {For(r)}
  /\ UNCHANGED expanded

(* The first critical section: the cache, then the failures, then nothing. *)
LookupHit(r) ==
  /\ Busy(r) /\ r \notin asking
  /\ Grant(r) \in groupCache
  /\ Members(r)
  /\ UNCHANGED <<memo, asking, asked>>

(* Mutation: the failures are looked up before the cache. *)
LookupFailedFirst(r) ==
  /\ Busy(r) /\ r \notin asking
  /\ Grant(r) \in groupFail
  /\ NoMembers(r)
  /\ UNCHANGED <<memo, asking, asked>>

LookupFailed(r) ==
  /\ Busy(r) /\ r \notin asking
  /\ Grant(r) \notin groupCache
  /\ Grant(r) \in groupFail
  /\ NoMembers(r)
  /\ UNCHANGED <<memo, asking, asked>>

LookupMiss(r) ==
  /\ Busy(r) /\ r \notin asking
  /\ Grant(r) \notin groupCache \cup groupFail
  /\ asking' = asking \cup {r}
  /\ asked' = [asked EXCEPT ![r][Grant(r)] = @ + 1]
  /\ UNCHANGED <<memo, at, expanded, complete>>

(* The second one, entered with the instance's answer.  A refusal, a list  *)
(* that stays short and a cancelled context are all the same failure here. *)
StoreMembers(r) ==
  /\ r \in asking
  /\ groupCache' = groupCache \cup {Grant(r)}
  /\ Members(r)
  /\ asking' = asking \ {r}
  /\ UNCHANGED <<groupFail, warned, asked>>

(* Mutation: the failure raises no warning. *)
StoreFailureUnwarned(r) ==
  /\ r \in asking
  /\ groupFail' = groupFail \cup {Grant(r)}
  /\ NoMembers(r)
  /\ asking' = asking \ {r}
  /\ UNCHANGED <<groupCache, warned, asked>>

StoreFailure(r) ==
  /\ r \in asking
  /\ groupFail' = groupFail \cup {Grant(r)}
  /\ warned' = warned \cup {Grant(r)}
  /\ NoMembers(r)
  /\ asking' = asking \ {r}
  /\ UNCHANGED <<groupCache, asked>>

Read(r) ==
  \/ LookupHit(r) \/ LookupFailed(r) \/ LookupMiss(r)
  \/ StoreMembers(r) \/ StoreFailure(r)

Finished == (\A r \in Reader : ~Busy(r)) /\ UNCHANGED vars

Next == (\E r \in Reader : Read(r)) \/ Finished

Spec == Init /\ [][Next]_vars

-----------------------------------------------------------------------------
(* The groups met so far for restriction k. *)
Met(k) ==
  {g \in Group : \E r \in Reader : \E i \in 1..(at[r] - 1) : Exempt[r][i] = <<k, g>>}

TypeOK ==
  /\ groupCache \subseteq Group /\ groupFail \subseteq Group /\ warned \subseteq Group
  /\ at \in [Reader -> Nat]
  /\ \A r \in Reader : at[r] \in 1..(Len(Exempt[r]) + 1)
  /\ asking \subseteq Reader
  /\ \A r \in asking : Busy(r)
  /\ expanded \in [Restriction -> SUBSET Group]
  /\ complete \subseteq Restriction
  /\ asked \in [Reader -> [Group -> Nat]]

(* A count is marked complete only when every group met for it was         *)
(* expanded, whatever other goroutines were told about those groups: none  *)
(* is passed over in silence.                                              *)
CompleteMeansExpanded ==
  \A k \in complete : Met(k) \subseteq expanded[k]

(* A count that is only a lower bound is explained: a warning of the       *)
(* snapshot names one of its groups, although the goroutine that raised it *)
(* may have been another one.                                              *)
LowerBoundsAreExplained ==
  \A k \in Restriction \ complete : Met(k) \cap warned # {}

(* A count says what it is: one called complete is, and one that is not is  *)
(* explained to whoever reads the report.                                  *)
CountsAreHonest == CompleteMeansExpanded /\ LowerBoundsAreExplained

(* No goroutine asks about the same group twice, however often its         *)
(* restrictions name it and whether the answer was members or a refusal:   *)
(* a group costs at most one request per goroutine under way.              *)
AskedOncePerReader == \A r \in Reader, g \in Group : asked[r][g] <= 1

(* Members outlive a failure: once they are memoised, everyone who looks   *)
(* the group up is given them, even after a late failure of a goroutine    *)
(* that asked at the same time.                                            *)
MembersOutliveFailures ==
  [][\A r \in Reader :
       Busy(r) /\ r \notin asking /\ Grant(r) \in groupCache /\ at'[r] # at[r] =>
         complete' = complete /\ Grant(r) \in expanded'[For(r)]]_vars
===============================================================================
