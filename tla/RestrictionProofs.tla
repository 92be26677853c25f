-------------------------- MODULE RestrictionProofs --------------------------
(***************************************************************************)
(* What a branch restriction says: whom it exempts (GroupCache) and whether *)
(* it covers the default branch (BranchMatcher).                           *)
(***************************************************************************)
EXTENDS GroupCache, BranchMatcher, FiniteSetTheorems, SequenceTheorems,
        WellFoundedInduction, TLAPS

-----------------------------------------------------------------------------
(* GroupCache, for any number of goroutines, groups and restrictions, met  *)
(* in any order.  What makes its invariants inductive is that a memoised   *)
(* failure has raised its warning (FailuresWarned), and that a goroutine   *)
(* that has asked about a group waits for the answer or finds one          *)
(* memoised (AskedIsKnown).                                                *)

FailuresWarned == groupFail \subseteq warned

AskedIsKnown ==
  \A r \in Reader, g \in Group :
    asked[r][g] # 0 =>
      /\ asked[r][g] = 1
      /\ g \in groupCache \cup groupFail \/ (r \in asking /\ Grant(r) = g)

IInv ==
  /\ TypeOK
  /\ FailuresWarned
  /\ AskedIsKnown
  /\ CompleteMeansExpanded
  /\ LowerBoundsAreExplained

(* The grant a busy goroutine is at. *)
LEMMA GrantType ==
  ASSUME TypeOK, NEW r \in Reader, Busy(r)
  PROVE  /\ at[r] \in 1..Len(Exempt[r]) /\ at[r] \in Nat
         /\ Exempt[r] \in Seq(Restriction \X Group) /\ Len(Exempt[r]) \in Nat
         /\ Grant(r) \in Group /\ For(r) \in Restriction
         /\ Exempt[r][at[r]] = <<For(r), Grant(r)>>
<1>1. Exempt[r] \in Seq(Restriction \X Group)
  BY GroupAssumption
<1>2. Len(Exempt[r]) \in Nat
  BY <1>1
<1>3. at[r] \in 1..Len(Exempt[r]) /\ at[r] \in Nat
  BY <1>2 DEF TypeOK, Busy
<1>4. Exempt[r][at[r]] \in Restriction \X Group
  BY <1>1, <1>3
<1> QED
  BY <1>1, <1>2, <1>3, <1>4 DEF Grant, For

(* A goroutine that goes on has met one more group, for one restriction. *)
LEMMA MetGrows ==
  ASSUME TypeOK, NEW r \in Reader, Busy(r), at' = [at EXCEPT ![r] = @ + 1]
  PROVE  \A k : Met(k)' = Met(k) \cup (IF k = For(r) THEN {Grant(r)} ELSE {})
<1> TAKE k
<1>1. /\ at[r] \in Nat /\ at'[r] = at[r] + 1
      /\ \A q \in Reader : q # r => at'[q] = at[q]
      /\ Exempt[r][at[r]] = <<For(r), Grant(r)>> /\ Grant(r) \in Group
  BY GrantType DEF TypeOK
<1>2. ASSUME NEW g \in Group
      PROVE  g \in Met(k)' <=> g \in Met(k) \/ (k = For(r) /\ g = Grant(r))
  <2>1. ASSUME g \in Met(k)' PROVE g \in Met(k) \/ (k = For(r) /\ g = Grant(r))
    <3>1. PICK q \in Reader : \E i \in 1..(at'[q] - 1) : Exempt[q][i] = <<k, g>>
      BY <2>1 DEF Met
    <3>2. PICK i \in 1..(at'[q] - 1) : Exempt[q][i] = <<k, g>>
      BY <3>1
    <3>3. CASE q = r /\ i = at[r]
      BY <1>1, <3>2, <3>3
    <3>4. CASE ~(q = r /\ i = at[r])
      <4>1. i \in 1..(at[q] - 1)
        BY <1>1, <3>2, <3>4 DEF TypeOK
      <4> QED
        BY <3>2, <4>1 DEF Met
    <3> QED
      BY <3>3, <3>4
  <2>2. ASSUME g \in Met(k) PROVE g \in Met(k)'
    <3>1. PICK q \in Reader : \E i \in 1..(at[q] - 1) : Exempt[q][i] = <<k, g>>
      BY <2>2 DEF Met
    <3>2. PICK i \in 1..(at[q] - 1) : Exempt[q][i] = <<k, g>>
      BY <3>1
    <3>3. i \in 1..(at'[q] - 1)
      BY <1>1, <3>2 DEF TypeOK
    <3> QED
      BY <3>2, <3>3 DEF Met
  <2>3. ASSUME k = For(r), g = Grant(r) PROVE g \in Met(k)'
    <3>1. at[r] \in 1..(at'[r] - 1)
      BY <1>1, GrantType
    <3> QED
      BY <1>1, <2>3, <3>1 DEF Met
  <2> QED
    BY <2>1, <2>2, <2>3
<1> QED
  BY <1>1, <1>2 DEF Met

(* groupMembers answers with the members: the restriction's count takes    *)
(* them in and stays what it was.                                          *)
LEMMA MembersKeep ==
  ASSUME TypeOK, CompleteMeansExpanded, LowerBoundsAreExplained,
         NEW r \in Reader, Busy(r), Members(r), warned \subseteq warned'
  PROVE  CompleteMeansExpanded' /\ LowerBoundsAreExplained'
<1>1. \A k : Met(k)' = Met(k) \cup (IF k = For(r) THEN {Grant(r)} ELSE {})
  BY MetGrows DEF Members
<1>2. \A k \in Restriction :
        expanded'[k] = IF k = For(r) THEN expanded[k] \cup {Grant(r)} ELSE expanded[k]
  BY DEF Members, TypeOK
<1>3. complete' = complete /\ complete \subseteq Restriction
  BY DEF Members, TypeOK
<1>4. CompleteMeansExpanded'
  BY <1>1, <1>2, <1>3 DEF CompleteMeansExpanded
<1>5. LowerBoundsAreExplained'
  BY <1>1, <1>3 DEF LowerBoundsAreExplained
<1> QED
  BY <1>4, <1>5

(* groupMembers answers that it does not know: the count becomes a lower   *)
(* bound, and a warning names the group.                                   *)
LEMMA NoMembersKeep ==
  ASSUME TypeOK, CompleteMeansExpanded, LowerBoundsAreExplained,
         NEW r \in Reader, Busy(r), NoMembers(r),
         warned \subseteq warned', Grant(r) \in warned'
  PROVE  CompleteMeansExpanded' /\ LowerBoundsAreExplained'
<1>1. \A k : Met(k)' = Met(k) \cup (IF k = For(r) THEN {Grant(r)} ELSE {})
  BY MetGrows DEF NoMembers
<1>2. complete' = complete \ {For(r)} /\ expanded' = expanded
  BY DEF NoMembers
<1>3. CompleteMeansExpanded'
  BY <1>1, <1>2 DEF CompleteMeansExpanded
<1>4. LowerBoundsAreExplained'
  <2> SUFFICES ASSUME NEW k \in Restriction \ complete' PROVE Met(k)' \cap warned' # {}
    BY DEF LowerBoundsAreExplained
  <2>1. CASE k = For(r)
    BY <1>1, <2>1
  <2>2. CASE k # For(r)
    BY <1>1, <1>2, <2>2 DEF LowerBoundsAreExplained
  <2> QED
    BY <2>1, <2>2
<1> QED
  BY <1>3, <1>4

(* The types, when r goes on to its next grant and stops waiting. *)
LEMMA TypesKeep ==
  ASSUME TypeOK, NEW r \in Reader, Busy(r), Members(r) \/ NoMembers(r),
         asking' = asking \ {r} \/ (r \notin asking /\ asking' = asking),
         asked' = asked,
         groupCache' \subseteq Group, groupFail' \subseteq Group, warned' \subseteq Group
  PROVE  TypeOK'
<1>1. Grant(r) \in Group /\ For(r) \in Restriction /\ at[r] \in 1..Len(Exempt[r])
  BY GrantType
<1>2. at' = [at EXCEPT ![r] = at[r] + 1]
  BY DEF Members, NoMembers
<1>3. \A q \in Reader : Len(Exempt[q]) \in Nat
  BY GroupAssumption
<1>4. at' \in [Reader -> Nat] /\ \A q \in Reader : at'[q] \in 1..(Len(Exempt[q]) + 1)
  BY <1>1, <1>2, <1>3 DEF TypeOK
<1>5. asking' \subseteq Reader /\ \A q \in asking' : Busy(q)'
  BY <1>2 DEF TypeOK, Busy
<1>6. expanded' \in [Restriction -> SUBSET Group] /\ complete' \subseteq Restriction
  <2>1. CASE Members(r)
    BY <1>1, <2>1 DEF TypeOK, Members
  <2>2. CASE NoMembers(r)
    BY <2>2 DEF TypeOK, NoMembers
  <2> QED
    BY <2>1, <2>2
<1> QED
  BY <1>4, <1>5, <1>6 DEF TypeOK

(* The empty memo satisfies the invariant. *)
LEMMA InitIInv == Init => IInv
<1> SUFFICES ASSUME Init PROVE IInv
  OBVIOUS
<1>1. \A r \in Reader : Len(Exempt[r]) \in Nat
  BY GroupAssumption
<1>2. TypeOK
  BY <1>1 DEF Init, TypeOK
<1>3. \A k : Met(k) = {}
  BY DEF Init, Met
<1> QED
  BY <1>2, <1>3 DEF Init, IInv, FailuresWarned, AskedIsKnown, CompleteMeansExpanded,
     LowerBoundsAreExplained

(* Each action below keeps the invariant; first a memoised group. *)
LEMMA LookupHitStep ==
  ASSUME IInv, NEW r \in Reader, LookupHit(r) PROVE IInv'
<1>1. Busy(r) /\ Members(r) /\ UNCHANGED <<memo, asking, asked>> /\ r \notin asking
  BY DEF LookupHit
<1>2. TypeOK'
  BY <1>1, TypesKeep DEF IInv, TypeOK, memo
<1>3. CompleteMeansExpanded' /\ LowerBoundsAreExplained'
  BY <1>1, MembersKeep DEF IInv, memo
<1>4. AskedIsKnown'
  BY <1>1 DEF IInv, TypeOK, AskedIsKnown, Members, memo, Grant
<1> QED
  BY <1>1, <1>2, <1>3, <1>4 DEF IInv, FailuresWarned, memo

(* A memoised failure, whose warning is already there. *)
LEMMA LookupFailedStep ==
  ASSUME IInv, NEW r \in Reader, LookupFailed(r) PROVE IInv'
<1>1. /\ Busy(r) /\ NoMembers(r) /\ UNCHANGED <<memo, asking, asked>> /\ r \notin asking
      /\ Grant(r) \in groupFail
  BY DEF LookupFailed
<1>2. TypeOK'
  BY <1>1, TypesKeep DEF IInv, TypeOK, memo
<1>3. CompleteMeansExpanded' /\ LowerBoundsAreExplained'
  BY <1>1, NoMembersKeep DEF IInv, memo, FailuresWarned
<1>4. AskedIsKnown'
  BY <1>1 DEF IInv, TypeOK, AskedIsKnown, NoMembers, memo, Grant
<1> QED
  BY <1>1, <1>2, <1>3, <1>4 DEF IInv, FailuresWarned, memo

(* A first question about a group: the reader has not asked before. *)
LEMMA LookupMissStep ==
  ASSUME IInv, NEW r \in Reader, LookupMiss(r) PROVE IInv'
<1>1. /\ Busy(r) /\ r \notin asking /\ Grant(r) \notin groupCache \cup groupFail
      /\ asking' = asking \cup {r} /\ asked' = [asked EXCEPT ![r][Grant(r)] = @ + 1]
      /\ UNCHANGED <<memo, at, expanded, complete>>
  BY DEF LookupMiss
<1>2. Grant(r) \in Group
  BY <1>1, GrantType DEF IInv
<1>3. asked[r][Grant(r)] = 0
  BY <1>1, <1>2 DEF IInv, AskedIsKnown
<1>4. /\ asked' \in [Reader -> [Group -> Nat]] /\ asked'[r][Grant(r)] = 1
      /\ \A q \in Reader, g \in Group :
           ~(q = r /\ g = Grant(r)) => asked'[q][g] = asked[q][g]
  BY <1>1, <1>2, <1>3 DEF IInv, TypeOK
<1>5. TypeOK'
  BY <1>1, <1>4 DEF IInv, TypeOK, memo, Busy
<1>6. AskedIsKnown'
  <2> SUFFICES ASSUME NEW q \in Reader, NEW g \in Group, asked'[q][g] # 0
               PROVE  /\ asked'[q][g] = 1
                      /\ \/ g \in groupCache' \cup groupFail'
                         \/ q \in asking' /\ Grant(q)' = g
    BY DEF AskedIsKnown
  <2>1. Grant(q)' = Grant(q)
    BY <1>1 DEF Grant
  <2>2. CASE q = r /\ g = Grant(r)
    BY <1>1, <1>4, <2>1, <2>2
  <2>3. CASE ~(q = r /\ g = Grant(r))
    BY <1>1, <1>4, <2>1, <2>3 DEF IInv, AskedIsKnown, memo
  <2> QED
    BY <2>2, <2>3
<1>7. \A k : Met(k)' = Met(k)
  BY <1>1 DEF Met
<1>8. CompleteMeansExpanded' /\ LowerBoundsAreExplained' /\ FailuresWarned'
  BY <1>1, <1>7
     DEF IInv, memo, CompleteMeansExpanded, LowerBoundsAreExplained, FailuresWarned
<1> QED
  BY <1>5, <1>6, <1>8 DEF IInv

(* A goroutine's answer is memoised: what it had asked about is known now. *)
LEMMA StoreKnown ==
  ASSUME IInv, NEW r \in Reader, r \in asking, at' = [at EXCEPT ![r] = @ + 1],
         asking' = asking \ {r}, asked' = asked,
         groupCache \cup groupFail \subseteq groupCache' \cup groupFail',
         Grant(r) \in groupCache' \cup groupFail'
  PROVE  AskedIsKnown'
<1> SUFFICES ASSUME NEW q \in Reader, NEW g \in Group, asked'[q][g] # 0
             PROVE  /\ asked'[q][g] = 1
                    /\ \/ g \in groupCache' \cup groupFail'
                       \/ q \in asking' /\ Grant(q)' = g
  BY DEF AskedIsKnown
<1>1. /\ asked[q][g] = 1
      /\ g \in groupCache \cup groupFail \/ (q \in asking /\ Grant(q) = g)
  BY DEF IInv, AskedIsKnown
<1>2. CASE q = r
  BY <1>1, <1>2
<1>3. CASE q # r
  <2>1. Grant(q)' = Grant(q)
    BY <1>3 DEF IInv, TypeOK, Grant
  <2> QED
    BY <1>1, <1>3, <2>1
<1> QED
  BY <1>2, <1>3

(* The answer is memoised and counted. *)
LEMMA StoreMembersStep ==
  ASSUME IInv, NEW r \in Reader, StoreMembers(r) PROVE IInv'
<1>1. /\ r \in asking /\ groupCache' = groupCache \cup {Grant(r)} /\ Members(r)
      /\ asking' = asking \ {r} /\ UNCHANGED <<groupFail, warned, asked>>
  BY DEF StoreMembers
<1>2. Busy(r) /\ Grant(r) \in Group
  BY <1>1, GrantType DEF IInv, TypeOK
<1>3. TypeOK'
  BY <1>1, <1>2, TypesKeep DEF IInv, TypeOK
<1>4. CompleteMeansExpanded' /\ LowerBoundsAreExplained'
  BY <1>1, <1>2, MembersKeep DEF IInv
<1>5. AskedIsKnown'
  BY <1>1, StoreKnown DEF Members
<1> QED
  BY <1>1, <1>3, <1>4, <1>5 DEF IInv, FailuresWarned

(* The failure is memoised, warned of and marked. *)
LEMMA StoreFailureStep ==
  ASSUME IInv, NEW r \in Reader, StoreFailure(r) PROVE IInv'
<1>1. /\ r \in asking /\ groupFail' = groupFail \cup {Grant(r)}
      /\ warned' = warned \cup {Grant(r)} /\ NoMembers(r)
      /\ asking' = asking \ {r} /\ UNCHANGED <<groupCache, asked>>
  BY DEF StoreFailure
<1>2. Busy(r) /\ Grant(r) \in Group
  BY <1>1, GrantType DEF IInv, TypeOK
<1>3. TypeOK'
  BY <1>1, <1>2, TypesKeep DEF IInv, TypeOK
<1>4. CompleteMeansExpanded' /\ LowerBoundsAreExplained'
  BY <1>1, <1>2, NoMembersKeep DEF IInv
<1>5. AskedIsKnown'
  BY <1>1, StoreKnown DEF NoMembers
<1> QED
  BY <1>1, <1>3, <1>4, <1>5 DEF IInv, FailuresWarned

(* Every step keeps the invariant. *)
LEMMA StepIInv ==
  ASSUME IInv, [Next]_vars
  PROVE  IInv'
<1>1. ASSUME NEW r \in Reader, Read(r) PROVE IInv'
  BY <1>1, LookupHitStep, LookupFailedStep, LookupMissStep, StoreMembersStep,
     StoreFailureStep DEF Read
<1>2. CASE Finished \/ UNCHANGED vars
  <2>1. UNCHANGED vars
    BY <1>2 DEF Finished
  <2>2. TypeOK' /\ FailuresWarned' /\ AskedIsKnown'
    BY <2>1 DEF vars, memo, IInv, TypeOK, Busy, FailuresWarned, AskedIsKnown, Grant
  <2>3. \A k : Met(k)' = Met(k)
    BY <2>1 DEF vars, Met
  <2>4. CompleteMeansExpanded' /\ LowerBoundsAreExplained'
    BY <2>1, <2>3
       DEF vars, memo, IInv, CompleteMeansExpanded, LowerBoundsAreExplained
  <2> QED
    BY <2>2, <2>4 DEF IInv
<1> QED
  BY <1>1, <1>2 DEF Next

(* The strengthened invariant holds however the goroutines interleave. *)
THEOREM Invariance == Spec => []IInv
BY InitIInv, StepIInv, PTL DEF Spec

(* Every variable keeps its type. *)
THEOREM TypeCorrect == Spec => []TypeOK
BY Invariance, PTL DEF IInv

(* A count marked complete has every group it names in it. *)
THEOREM CompleteCountsAreComplete == Spec => []CompleteMeansExpanded
BY Invariance, PTL DEF IInv

(* A count marked as a lower bound has a warning that says why. *)
THEOREM LowerBoundsHaveWarnings == Spec => []LowerBoundsAreExplained
BY Invariance, PTL DEF IInv

(* Whatever a count is called, it is that or explained. *)
THEOREM CountsAreHonestHolds == Spec => []CountsAreHonest
BY CompleteCountsAreComplete, LowerBoundsHaveWarnings, PTL DEF CountsAreHonest

(* No goroutine asks the instance about the same group twice. *)
THEOREM GroupsAreAskedOncePerReader == Spec => []AskedOncePerReader
<1>1. IInv => AskedOncePerReader
  BY DEF IInv, TypeOK, AskedIsKnown, AskedOncePerReader
<1> QED
  BY <1>1, Invariance, PTL

(* Once the members are memoised, every later lookup is given them. *)
THEOREM MembersStayKnown == Spec => MembersOutliveFailures
<1> DEFINE A == \A r \in Reader :
                  Busy(r) /\ r \notin asking /\ Grant(r) \in groupCache /\ at'[r] # at[r] =>
                    complete' = complete /\ Grant(r) \in expanded'[For(r)]
<1>1. ASSUME IInv, [Next]_vars PROVE [A]_vars
  <2> SUFFICES ASSUME NEW r \in Reader, Busy(r), r \notin asking,
                      Grant(r) \in groupCache, at'[r] # at[r]
               PROVE  complete' = complete /\ Grant(r) \in expanded'[For(r)]
    BY DEF vars
  <2>1. PICK q \in Reader : Read(q)
    BY <1>1 DEF Next, Finished, vars
  <2>2. q = r
    BY <1>1, <2>1 DEF Read, LookupHit, LookupFailed, LookupMiss, StoreMembers, StoreFailure,
       Members, NoMembers, IInv, TypeOK
  <2>3. LookupHit(r)
    BY <2>1, <2>2 DEF Read, LookupFailed, LookupMiss, StoreMembers, StoreFailure
  <2>4. For(r) \in Restriction
    BY <1>1, GrantType DEF IInv
  <2> QED
    BY <1>1, <2>3, <2>4 DEF LookupHit, Members, IInv, TypeOK
<1> QED
  BY <1>1, Invariance, PTL DEF Spec, MembersOutliveFailures

-----------------------------------------------------------------------------
(* BranchMatcher, for every pattern, reference and branch model.  The code  *)
(* goes over the characters of a pattern and backtracks; what a pattern     *)
(* means is said of its tokens.  That both come to the same is shown in     *)
(* four steps: the recursion has exactly one solution (MatchFromUnfolds);   *)
(* what it does at the start of a token is what the token means (TokenStep); *)
(* hence the rest of a pattern matches from a position just when the rest   *)
(* of its tokens can cut the name from there (RestIsCut, from the last      *)
(* token back); and so for the tails of a reference (AntMatchIsSelection).  *)

(* The natural numbers are well founded.  The library's induction needs an  *)
(* operator for a parameter; what is left of it without is that every set   *)
(* of them has a least element, and a bounded one a greatest.               *)
LEMMA Least ==
  ASSUME NEW T \in SUBSET Nat, T # {}
  PROVE  \E n \in T : \A m \in T : n <= m
<1> DEFINE Below == {1..n : n \in T}
<1>1. Below \in SUBSET FiniteSubsetsOf(Nat)
  <2> SUFFICES ASSUME NEW n \in T PROVE 1..n \in FiniteSubsetsOf(Nat)
    OBVIOUS
  <2>1. IsFiniteSet(1..n)
    BY FS_Interval
  <2> QED
    BY <2>1 DEF FiniteSubsetsOf
<1>2. Below # {}
  OBVIOUS
<1>3. PICK A \in Below : \A B \in Below : ~(<<B, A>> \in StrictSubsetOrdering(Nat))
  <2> HIDE DEF Below
  <2> QED
    BY <1>1, <1>2, FS_StrictSubsetOrderingWellFounded, WFMin
<1>4. PICK n \in T : A = 1..n
  OBVIOUS
<1>5. ASSUME NEW m \in T, m < n PROVE FALSE
  <2>1. 1..m \subseteq 1..n /\ n \in 1..n /\ n \notin 1..m
    BY <1>5
  <2>2. <<1..m, 1..n>> \in StrictSubsetOrdering(Nat)
    BY <2>1 DEF StrictSubsetOrdering
  <2> QED
    BY <1>3, <1>4, <2>2
<1> QED
  BY <1>5

(* A bounded set of natural numbers has a greatest element. *)
LEMMA Greatest ==
  ASSUME NEW K \in Nat, NEW T \in SUBSET (0..K), T # {}
  PROVE  \E n \in T : \A m \in T : m <= n
<1> DEFINE Mirror == {K - n : n \in T}
<1>1. Mirror \in SUBSET Nat /\ Mirror # {}
  <2>1. ASSUME NEW n \in T PROVE K - n \in Nat
    <3>1. n \in 0..K
      OBVIOUS
    <3> QED
      BY <3>1
  <2>2. PICK n : n \in T
    OBVIOUS
  <2>3. K - n \in Mirror
    BY <2>2
  <2> QED
    BY <2>1, <2>3
<1>2. PICK k \in Mirror : \A m \in Mirror : k <= m
  BY <1>1, Least
<1>3. PICK n \in T : k = K - n
  BY <1>2
<1>4. ASSUME NEW m \in T PROVE m <= n
  <2>1. K - m \in Mirror
    OBVIOUS
  <2> QED
    BY <1>2, <1>3, <2>1
<1> QED
  BY <1>4

(* A piece of a text, between two cuts. *)
LEMMA PieceFacts ==
  ASSUME NEW text \in Text, NEW a \in 0..Len(text), NEW b \in a..Len(text)
  PROVE  /\ SubSeq(text, a + 1, b) \in Text
         /\ Len(SubSeq(text, a + 1, b)) = b - a
         /\ \A k \in 1..(b - a) : SubSeq(text, a + 1, b)[k] = text[a + k]
<1>1. Len(text) \in Nat /\ a \in Int /\ b \in Int /\ a + 1 \in Int
  BY DEF Text
<1>2. \A i \in (a + 1)..b : text[i] \in Character
  BY <1>1 DEF Text
<1>3. /\ SubSeq(text, a + 1, b) \in Text
      /\ Len(SubSeq(text, a + 1, b)) = IF a + 1 <= b THEN b - (a + 1) + 1 ELSE 0
      /\ \A k \in 1..(b - (a + 1) + 1) : SubSeq(text, a + 1, b)[k] = text[(a + 1) + k - 1]
  BY <1>1, <1>2, SubSeqProperties DEF Text
<1> QED
  BY <1>1, <1>3

(* The rest of a pattern is read from its end, each position from those    *)
(* after it, and so the recursive definition has a solution.               *)
LEMMA MatchingLooksAhead ==
  ASSUME NEW pattern \in Text, NEW name \in Text, NEW f, NEW g, NEW p \in 1..(Len(pattern) + 1),
         \A k \in (p + 1)..(Len(pattern) + 1) : f[k] = g[k]
  PROVE  Matching(pattern, name, f, p) = Matching(pattern, name, g, p)
<1>1. Len(pattern) \in Nat /\ Len(name) \in Nat
  BY DEF Text
<1>2. p <= Len(pattern) => f[p + 1] = g[p + 1]
  BY <1>1
<1>3. p + 1 <= Len(pattern) => f[p + 2] = g[p + 2]
  BY <1>1
<1>4. p + 2 <= Len(pattern) => f[p + 3] = g[p + 3]
  BY <1>1
<1>5. CASE p > Len(pattern)
  BY <1>5 DEF Matching
<1>6. CASE ~(p > Len(pattern))
  BY <1>1, <1>2, <1>3, <1>4, <1>6 DEF Matching
<1> QED
  BY <1>5, <1>6

(* The recursion of matchFrom has a solution, and only one: what it says   *)
(* of a position of the pattern is what one step of the code makes of the  *)
(* positions after it.                                                     *)
LEMMA MatchFromUnfolds ==
  ASSUME NEW pattern \in Text, NEW name \in Text
  PROVE  \A p \in 1..(Len(pattern) + 1) :
           MatchFrom(pattern, name)[p] = Matching(pattern, name, MatchFrom(pattern, name), p)
<1> DEFINE End == Len(pattern) + 1
           Settles(f, q) == f = [p \in q..End |-> Matching(pattern, name, f, p)]
           Unsettled == {q \in 1..End : ~\E f : Settles(f, q)}
<1>0. End \in Nat /\ 1 \in 1..End
  BY DEF Text
<1>1. Unsettled = {}
  <2> SUFFICES ASSUME Unsettled # {} PROVE FALSE
    OBVIOUS
  <2>1. PICK q \in Unsettled : \A m \in Unsettled : m <= q
    <3>1. Unsettled \in SUBSET (0..End)
      OBVIOUS
    <3> QED
      BY <1>0, <3>1, Greatest
  <2>2. q \in 1..End
    OBVIOUS
  <2>3. ASSUME NEW f, NEW g, g = [p \in q..End |-> Matching(pattern, name, f, p)],
               \A p \in (q + 1)..End : f[p] = g[p]
        PROVE  FALSE
    <3>1. \A p \in q..End : Matching(pattern, name, f, p) = Matching(pattern, name, g, p)
      <4> SUFFICES ASSUME NEW p \in q..End
                   PROVE Matching(pattern, name, f, p) = Matching(pattern, name, g, p)
        OBVIOUS
      <4>1. p \in 1..End /\ \A k \in (p + 1)..End : k \in (q + 1)..End
        BY <1>0, <2>2
      <4>2. \A k \in (p + 1)..End : f[k] = g[k]
        BY <2>3, <4>1
      <4> QED
        BY <4>1, <4>2, MatchingLooksAhead
    <3>2. g = [p \in q..End |-> Matching(pattern, name, g, p)]
      BY <2>3, <3>1
    <3>3. Settles(g, q)
      BY <3>2
    <3> QED
      BY <3>3
  <2>4. CASE q = End
    <3> DEFINE g == [p \in q..End |-> Matching(pattern, name, <<>>, p)]
    <3>1. \A p \in (q + 1)..End : <<>>[p] = g[p]
      BY <1>0, <2>4
    <3> QED
      BY <2>3, <3>1
  <2>5. CASE q # End
    <3>1. q + 1 \in 1..End /\ q + 1 \notin Unsettled
      BY <1>0, <2>1, <2>2, <2>5
    <3>2. PICK f : Settles(f, q + 1)
      BY <3>1
    <3> DEFINE g == [p \in q..End |-> Matching(pattern, name, f, p)]
    <3>3. \A p \in (q + 1)..End : f[p] = g[p]
      <4> SUFFICES ASSUME NEW p \in (q + 1)..End PROVE f[p] = g[p]
        OBVIOUS
      <4>1. f[p] = Matching(pattern, name, f, p)
        BY <3>2
      <4>2. p \in q..End
        BY <1>0, <2>2
      <4> QED
        BY <4>1, <4>2
    <3> QED
      BY <2>3, <3>3
  <2> QED
    BY <2>4, <2>5
<1>2. \E f : f = [p \in 1..End |-> Matching(pattern, name, f, p)]
  BY <1>0, <1>1
<1>3. MatchFrom(pattern, name) = CHOOSE f : f = [p \in 1..End |-> Matching(pattern, name, f, p)]
  BY DEF MatchFrom
<1>4. MatchFrom(pattern, name)
        = [p \in 1..End |-> Matching(pattern, name, MatchFrom(pattern, name), p)]
  <2> DEFINE P(f) == f = [p \in 1..End |-> Matching(pattern, name, f, p)]
  <2>1. P(CHOOSE f : P(f))
    <3> HIDE DEF P
    <3> SUFFICES \E f : P(f)
      OBVIOUS
    <3> QED
      BY <1>2 DEF P
  <2> HIDE DEF End
  <2> QED
    BY <2>1, <1>3
<1> DEFINE from == MatchFrom(pattern, name)
<1> HIDE DEF from
<1>5. \A p \in 1..End : from[p] = Matching(pattern, name, from, p)
  BY <1>4 DEF from
<1> QED
  BY <1>5 DEF from

(* What the definitions by cases say of each token. *)
LEMMA SpellingCases ==
  ASSUME NEW token
  PROVE  /\ token = StarStar => Spelling(token) = <<"*", "*">>
         /\ token = Folders => Spelling(token) = <<"*", "*", "/">>
         /\ token \notin {StarStar, Folders} => Spelling(token) = <<token>>
BY DEF Spelling, StarStar, Folders

(* How a token is written: with what it begins and ends. *)
LEMMA SpellingFacts ==
  ASSUME NEW token
  PROVE  /\ Len(Spelling(token)) \in 1..3
         /\ Spelling(token)[1] = "*" <=> token \in {Star, StarStar, Folders}
         /\ Spelling(token)[1] = "/" <=> token = "/"
         /\ Last(Spelling(token)) = "/" <=> token \in {"/", Folders}
<1>1. CASE token = StarStar
  BY <1>1, SpellingCases DEF Last, Star, StarStar, Folders
<1>2. CASE token = Folders
  BY <1>2, SpellingCases DEF Last, Star, StarStar, Folders
<1>3. CASE token \notin {StarStar, Folders}
  BY <1>3, SpellingCases DEF Last, Star, StarStar, Folders
<1> QED
  BY <1>1, <1>2, <1>3

(* What each token stands for, taken one by one. *)
LEMMA StandsForCases ==
  ASSUME NEW token, NEW text
  PROVE  /\ token = Single => (StandsFor(token, text) <=> Len(text) = 1 /\ text # <<"/">>)
         /\ token = Star => (StandsFor(token, text) <=> \A k \in 1..Len(text) : text[k] # "/")
         /\ token = StarStar => StandsFor(token, text)
         /\ token = Folders => (StandsFor(token, text) <=> text = <<>> \/ text[Len(text)] = "/")
         /\ token \notin {Single, Star, StarStar, Folders} =>
              (StandsFor(token, text) <=> text = <<token>>)
<1>1. token = Single => (StandsFor(token, text) <=> Len(text) = 1 /\ text # <<"/">>)
  BY DEF StandsFor, Single, Star, StarStar, Folders
<1>2. token = Star => (StandsFor(token, text) <=> \A k \in 1..Len(text) : text[k] # "/")
  BY DEF StandsFor, Single, Star, StarStar, Folders, Contains
<1>3. token = StarStar => StandsFor(token, text)
  BY DEF StandsFor, Single, Star, StarStar, Folders
<1>4. token = Folders => (StandsFor(token, text) <=> text = <<>> \/ text[Len(text)] = "/")
  BY DEF StandsFor, Single, Star, StarStar, Folders, Last
<1>5. token \notin {Single, Star, StarStar, Folders} => (StandsFor(token, text) <=> text = <<token>>)
  BY DEF StandsFor, Single, Star, StarStar, Folders
<1> QED
  BY <1>1, <1>2, <1>3, <1>4, <1>5

(* What the code does at a character of the pattern. *)
LEMMA MatchingCases ==
  ASSUME NEW pattern \in Text, NEW name \in Text, NEW from, NEW p \in 1..Len(pattern)
  PROVE  /\ pattern[p] # "*" =>
              Matching(pattern, name, from, p) =
                {n \in 1..Len(name) :
                   /\ IF pattern[p] = "?" THEN name[n] # "/" ELSE name[n] = pattern[p]
                   /\ n + 1 \in from[p + 1]}
         /\ pattern[p] = "*" /\ (p = Len(pattern) \/ pattern[p + 1] # "*") =>
              Matching(pattern, name, from, p) =
                {n \in 1..(Len(name) + 1) :
                   \E i \in n..(Len(name) + 1) : WithinSegment(name, n, i) /\ i \in from[p + 1]}
         /\ p + 1 <= Len(pattern) /\ pattern[p] = "*" /\ pattern[p + 1] = "*" =>
              Matching(pattern, name, from, p) =
                {n \in 1..(Len(name) + 1) :
                   \/ p + 2 <= Len(pattern) /\ pattern[p + 2] = "/" /\ n \in from[p + 3]
                   \/ \E i \in n..(Len(name) + 1) : i \in from[p + 2]}
<1>0. Len(pattern) \in Nat /\ Len(name) \in Nat /\ p \in Nat
  BY DEF Text
<1>1. CASE pattern[p] # "*"
  BY <1>0, <1>1 DEF Matching
<1>2. CASE pattern[p] = "*" /\ (p = Len(pattern) \/ pattern[p + 1] # "*")
  BY <1>0, <1>2 DEF Matching
<1>3. CASE p + 1 <= Len(pattern) /\ pattern[p] = "*" /\ pattern[p + 1] = "*"
  BY <1>0, <1>3 DEF Matching
<1> QED
  BY <1>0, <1>1, <1>2, <1>3

(* At the start of a token the code does what the token means. *)
LEMMA TokenStep ==
  ASSUME NEW pattern \in Text, NEW name \in Text,
         NEW token, NEW p \in 0..Len(pattern), NEW q \in p..Len(pattern),
         SubSeq(pattern, p + 1, q) = Spelling(token),
         token = Star => q = Len(pattern) \/ pattern[q + 1] # "*",
         token = StarStar => q = Len(pattern) \/ pattern[q + 1] # "/",
         NEW n \in 1..(Len(name) + 1)
  PROVE  n \in MatchFrom(pattern, name)[p + 1] <=>
           \E m \in n..(Len(name) + 1) :
             StandsFor(token, SubSeq(name, n, m - 1)) /\ m \in MatchFrom(pattern, name)[q + 1]
<1> DEFINE from == MatchFrom(pattern, name)
           L == Len(pattern)
           End == Len(name) + 1
           Piece(m) == SubSeq(name, n, m - 1)
<1>0. L \in Nat /\ Len(name) \in Nat /\ p \in Nat /\ q \in Nat /\ p <= q /\ q <= L /\ n \in Nat /\ 1 <= n /\ n <= End
  BY DEF Text
<1>1. \A k \in 1..L : from[k] = Matching(pattern, name, from, k)
  BY <1>0, MatchFromUnfolds
<1>2. /\ Len(Spelling(token)) = q - p
      /\ \A k \in 1..(q - p) : Spelling(token)[k] = pattern[p + k]
  <2>1. /\ Len(SubSeq(pattern, p + 1, q)) = q - p
        /\ \A k \in 1..(q - p) : SubSeq(pattern, p + 1, q)[k] = pattern[p + k]
    BY PieceFacts
  <2> QED
    BY <2>1
<1>3. \A m \in n..End : /\ Piece(m) \in Text /\ Len(Piece(m)) = m - n
                       /\ \A k \in 1..(m - n) : Piece(m)[k] = name[n + k - 1]
  <2> SUFFICES ASSUME NEW m \in n..End
               PROVE  /\ Piece(m) \in Text /\ Len(Piece(m)) = m - n
                      /\ \A k \in 1..(m - n) : Piece(m)[k] = name[n + k - 1]
    OBVIOUS
  <2>1. n - 1 \in 0..Len(name) /\ m - 1 \in (n - 1)..Len(name) /\ (n - 1) + 1 = n
    BY <1>0
  <2> DEFINE a == n - 1
             b == m - 1
  <2>2. /\ SubSeq(name, a + 1, b) \in Text /\ Len(SubSeq(name, a + 1, b)) = b - a
        /\ \A k \in 1..(b - a) : SubSeq(name, a + 1, b)[k] = name[a + k]
    <3> HIDE DEF a, b
    <3>1. a \in 0..Len(name) /\ b \in a..Len(name)
      BY <2>1 DEF a, b
    <3> QED
      BY <3>1, PieceFacts
  <2>3. a + 1 = n /\ b - a = m - n /\ \A k \in 1..(m - n) : a + k = n + k - 1
    BY <1>0
  <2> HIDE DEF a
  <2> QED
    BY <2>2, <2>3
<1> HIDE DEF from, Piece
<1>5. CASE token \notin {Star, StarStar, Folders}
  <2>1. Spelling(token) = <<token>>
    BY <1>5, SpellingCases
  <2>2. q = p + 1 /\ p + 1 \in 1..L
    BY <1>0, <1>2, <2>1
  <2>3. pattern[p + 1] = token /\ token # "*"
    BY <1>0, <1>2, <1>5, <2>1, <2>2 DEF Star
  <2>4. from[p + 1] = {k \in 1..Len(name) :
                         /\ IF token = "?" THEN name[k] # "/" ELSE name[k] = token
                         /\ k + 1 \in from[p + 2]}
    BY <1>0, <1>1, <2>2, <2>3, MatchingCases
  <2>5. ASSUME NEW m \in n..End
        PROVE  StandsFor(token, Piece(m)) <=>
                 m = n + 1 /\ IF token = "?" THEN name[n] # "/" ELSE name[n] = token
    <3>0. /\ Piece(m) \in Text /\ Len(Piece(m)) = m - n /\ m \in Nat
          /\ \A k \in 1..(m - n) : Piece(m)[k] = name[n + k - 1]
      BY <1>0, <1>3
    <3>1. CASE m # n + 1
      <4>1. Len(Piece(m)) # 1 
        BY <1>0, <3>0, <3>1
      <4>2. Len(<<token>>) = 1
        OBVIOUS
      <4>3. Piece(m) # <<token>>
        BY <4>1, <4>2
      <4>. QED
        BY <1>5, <3>1, <4>1, <4>3, StandsForCases
    <3>2. CASE m = n + 1
      <4>1. Len(Piece(m)) = 1 /\ Piece(m)[1] = name[n]
        BY <1>0, <3>0, <3>2
      <4>2. Piece(m) = <<name[n]>>
        BY <3>0, <4>1 DEF Text
      <4>3. Piece(m) = <<"/">> <=> name[n] = "/"
        BY <4>2
      <4>4. Piece(m) = <<token>> <=> name[n] = token
        BY <4>2
      <4> QED
        BY <1>5, <3>2, <4>1, <4>3, <4>4, StandsForCases DEF Single
    <3> QED
      BY <3>1, <3>2
  <2>6. n \in from[p + 1] <=> n + 1 \in n..End /\ (IF token = "?" THEN name[n] # "/" ELSE name[n] = token)
                                /\ n + 1 \in from[q + 1]
    BY <1>0, <2>2, <2>4
  <2> QED
    BY <1>0, <2>5, <2>6 DEF from, Piece
<1>6. CASE token = Star
  <2>1. Spelling(token) = <<"*">>
    BY <1>6, SpellingCases DEF Star, StarStar, Folders
  <2>2. q = p + 1 /\ p + 1 \in 1..L
    BY <1>0, <1>2, <2>1
  <2>3. pattern[p + 1] = "*"
    BY <1>0, <1>2, <2>1, <2>2
  <2>4. p + 1 = L \/ pattern[(p + 1) + 1] # "*"
    BY <1>6, <2>2
  <2>5. from[p + 1] = {k \in 1..End : \E i \in k..End : WithinSegment(name, k, i) /\ i \in from[q + 1]}
    BY <1>0, <1>1, <2>2, <2>3, <2>4, MatchingCases
  <2>6. ASSUME NEW m \in n..End
        PROVE  StandsFor(token, Piece(m)) <=> WithinSegment(name, n, m)
    <3>0. /\ Len(Piece(m)) = m - n
          /\ \A k \in 1..(m - n) : Piece(m)[k] = name[n + k - 1]
      BY <1>3
    <3>1. StandsFor(token, Piece(m)) <=> \A k \in 1..(m - n) : name[n + k - 1] # "/"
      <4>1. StandsFor(token, Piece(m)) <=> \A k \in 1..Len(Piece(m)) : Piece(m)[k] # "/"
        BY <1>6, StandsForCases
      <4> QED
        BY <3>0, <4>1
    <3>2. ASSUME NEW k \in n..(m - 1) PROVE k - n + 1 \in 1..(m - n) /\ n + (k - n + 1) - 1 = k
      BY <1>0
    <3>3. ASSUME NEW k \in 1..(m - n) PROVE n + k - 1 \in n..(m - 1)
      BY <1>0
    <3> QED
      BY <3>1, <3>2, <3>3 DEF WithinSegment
  <2> QED
    BY <1>0, <2>5, <2>6 DEF from, Piece
<1>7. CASE token = StarStar
  <2>1. Spelling(token) = <<"*", "*">>
    BY <1>7, SpellingCases
  <2>2. q = p + 2 /\ p + 1 \in 1..L /\ (p + 1) + 1 <= L
    BY <1>0, <1>2, <2>1
  <2>3. pattern[p + 1] = "*" /\ pattern[(p + 1) + 1] = "*"
    BY <1>0, <1>2, <2>1, <2>2
  <2>4. ~((p + 1) + 2 <= L /\ pattern[(p + 1) + 2] = "/")
    BY <1>0, <1>7, <2>2
  <2>5. from[p + 1] = {k \in 1..End : \E i \in k..End : i \in from[q + 1]}
    BY <1>0, <1>1, <2>2, <2>3, <2>4, MatchingCases
  <2>6. ASSUME NEW m \in n..End
        PROVE  StandsFor(token, Piece(m))
    BY <1>7, StandsForCases
  <2> QED
    BY <1>0, <2>5, <2>6 DEF from, Piece
<1>8. CASE token = Folders
  <2>1. Spelling(token) = <<"*", "*", "/">>
    BY <1>8, SpellingCases
  <2>2. q = p + 3 /\ p + 1 \in 1..L /\ p + 3 \in 1..L
    BY <1>0, <1>2, <2>1
  <2>3. pattern[p + 1] = "*" /\ pattern[(p + 1) + 1] = "*" /\ pattern[(p + 1) + 2] = "/"
    BY <1>0, <1>2, <2>1, <2>2
  <2>3a. (p + 1) + 2 = p + 3 /\ (p + 1) + 3 = q + 1 /\ (p + 3) + 1 = q + 1 /\ p + 3 <= L
    BY <1>0, <2>2
  <2>4. from[p + 1] = {k \in 1..End : k \in from[q + 1] \/ \E i \in k..End : i \in from[p + 3]}
    <3>1. from[p + 1] = Matching(pattern, name, from, p + 1)
      BY <1>1, <2>2
    <3>2. Matching(pattern, name, from, p + 1) =
                {k \in 1..(Len(name) + 1) :
                   \/ (p + 1) + 2 <= Len(pattern) /\ pattern[(p + 1) + 2] = "/" /\ k \in from[(p + 1) + 3]
                   \/ \E i \in k..(Len(name) + 1) : i \in from[(p + 1) + 2]}
      <4> DEFINE r == p + 1
      <4>1. r \in 1..L /\ r + 1 <= L /\ pattern[r] = "*" /\ pattern[r + 1] = "*"
        BY <1>0, <2>2, <2>3
      <4> HIDE DEF r
      <4>2. Matching(pattern, name, from, r) =
                {k \in 1..(Len(name) + 1) :
                   \/ r + 2 <= Len(pattern) /\ pattern[r + 2] = "/" /\ k \in from[r + 3]
                   \/ \E i \in k..(Len(name) + 1) : i \in from[r + 2]}
        BY <4>1, MatchingCases
      <4> QED
        BY <4>2 DEF r
    <3> QED
      BY <2>3, <2>3a, <3>1, <3>2
  <2>5. from[p + 3] = {k \in 1..Len(name) : name[k] = "/" /\ k + 1 \in from[q + 1]}
    <3>1. pattern[p + 3] = "/"
      BY <2>3, <2>3a
    <3>2. from[p + 3] = Matching(pattern, name, from, p + 3)
      BY <1>1, <2>2
    <3>3. Matching(pattern, name, from, p + 3) =
                {k \in 1..Len(name) :
                   /\ IF pattern[p + 3] = "?" THEN name[k] # "/" ELSE name[k] = pattern[p + 3]
                   /\ k + 1 \in from[(p + 3) + 1]}
      BY <2>2, <3>1, MatchingCases
    <3> QED
      BY <2>3a, <3>1, <3>2, <3>3
  <2>6. ASSUME NEW m \in n..End
        PROVE  StandsFor(token, Piece(m)) <=> m = n \/ name[m - 1] = "/"
    <3>1. CASE m = n
      <4>1. Piece(m) = <<>>
        BY <1>0, <1>3, <3>1 DEF Text
      <4> QED
        BY <1>8, <3>1, <4>1, StandsForCases
    <3>2. CASE m # n
      <4>1. Len(Piece(m)) = m - n /\ m - n \in 1..(m - n) /\ n + (m - n) - 1 = m - 1
        BY <1>0, <1>3, <3>2
      <4>2. Piece(m)[Len(Piece(m))] = name[m - 1]
        BY <1>3, <4>1
      <4>3. Piece(m) # <<>>
        BY <1>0, <3>2, <4>1
      <4> QED
        BY <1>8, <3>2, <4>2, <4>3, StandsForCases
    <3> QED
      BY <3>1, <3>2
  <2>7. ASSUME n \in from[p + 1]
        PROVE  \E m \in n..End : StandsFor(token, Piece(m)) /\ m \in from[q + 1]
    <3>1. CASE n \in from[q + 1]
      <4>1. n \in n..End
        BY <1>0
      <4> QED
        BY <2>6, <3>1, <4>1
    <3>2. CASE \E i \in n..End : i \in from[p + 3]
      <4>1. PICK i \in n..End : i \in from[p + 3]
        BY <3>2
      <4>2. i + 1 \in n..End /\ name[(i + 1) - 1] = "/" /\ i + 1 \in from[q + 1]
        BY <1>0, <2>5, <4>1
      <4> QED
        BY <2>6, <4>2
    <3> QED
      BY <2>4, <2>7, <3>1, <3>2
  <2>8. ASSUME NEW m \in n..End, StandsFor(token, Piece(m)), m \in from[q + 1]
        PROVE  n \in from[p + 1]
    <3>1. CASE m = n
      BY <1>0, <2>4, <2>8, <3>1
    <3>2. CASE m # n
      <4>1. m - 1 \in n..End /\ m - 1 \in 1..Len(name) /\ name[m - 1] = "/" /\ (m - 1) + 1 = m
        BY <1>0, <2>6, <2>8, <3>2
      <4>2. m - 1 \in from[p + 3]
        BY <2>5, <2>8, <4>1
      <4> QED
        BY <2>4, <4>1, <4>2
    <3> QED
      BY <3>1, <3>2
  <2> QED
    BY <2>7, <2>8 DEF from, Piece
<1> QED
  BY <1>5, <1>6, <1>7, <1>8

(* pos says where each token of a pattern ends. *)
Reads(pattern, tokens, pos) ==
  /\ pos \in [0..Len(tokens) -> 0..Len(pattern)]
  /\ pos[0] = 0 /\ pos[Len(tokens)] = Len(pattern)
  /\ \A i \in 1..Len(tokens) :
       /\ pos[i - 1] <= pos[i]
       /\ SubSeq(pattern, pos[i - 1] + 1, pos[i]) = Spelling(tokens[i])
       /\ tokens[i] = Star => pos[i] = Len(pattern) \/ pattern[pos[i] + 1] # "*"
       /\ tokens[i] = StarStar => pos[i] = Len(pattern) \/ pattern[pos[i] + 1] # "/"

(* A reading of a pattern puts each of its tokens at a place. *)
LEMMA ReadAsReads ==
  ASSUME NEW pattern \in Text, NEW tokens \in Seq(Token), ReadAs(pattern, tokens)
  PROVE  \E pos : Reads(pattern, tokens, pos)
<1> DEFINE K == Len(tokens)
<1>0. K \in Nat /\ Len(pattern) \in Nat
  BY DEF Text
<1>1. PICK pos \in [0..K -> 0..Len(pattern)] :
        /\ pos[0] = 0 /\ pos[K] = Len(pattern)
        /\ \A i \in 1..K : /\ pos[i - 1] <= pos[i]
                           /\ SubSeq(pattern, pos[i - 1] + 1, pos[i]) = Spelling(tokens[i])
  BY DEF ReadAs, CutBy, Spelled
<1>2. ASSUME NEW i \in 1..K, i # K
      PROVE  pattern[pos[i] + 1] = Spelling(tokens[i + 1])[1]
  <2> DEFINE a == pos[i]
             b == pos[i + 1]
  <2>1. i + 1 \in 1..K /\ (i + 1) - 1 = i
    BY <1>0, <1>2
  <2>2. a \in 0..Len(pattern) /\ b \in a..Len(pattern) /\ SubSeq(pattern, a + 1, b) = Spelling(tokens[i + 1])
    <3>0. i \in 0..K /\ i + 1 \in 0..K
      BY <1>0, <2>1
    <3>1. a \in 0..Len(pattern) /\ b \in 0..Len(pattern)
      BY <1>1, <3>0
    <3>2. a <= b /\ SubSeq(pattern, a + 1, b) = Spelling(tokens[i + 1])
      BY <1>1, <2>1
    <3> QED
      BY <1>0, <3>1, <3>2
  <2> HIDE DEF a, b
  <2>3. Len(Spelling(tokens[i + 1])) \in 1..3
    BY SpellingFacts
  <2>4. Len(SubSeq(pattern, a + 1, b)) = b - a /\ \A k \in 1..(b - a) : SubSeq(pattern, a + 1, b)[k] = pattern[a + k]
    BY <2>2, PieceFacts
  <2>5. 1 \in 1..(b - a)
    <3>1. b - a \in 1..3
      BY <2>2, <2>3, <2>4
    <3> QED
      BY <1>0, <2>2, <3>1
  <2>6. Spelling(tokens[i + 1])[1] = pattern[a + 1]
    BY <2>2, <2>4, <2>5
  <2> QED
    BY <2>6 DEF a
<1>3. ASSUME NEW i \in 1..K
      PROVE  /\ tokens[i] = Star => pos[i] = Len(pattern) \/ pattern[pos[i] + 1] # "*"
             /\ tokens[i] = StarStar => pos[i] = Len(pattern) \/ pattern[pos[i] + 1] # "/"
  <2>1. CASE i = K
    BY <1>1, <2>1
  <2>2. CASE i # K
    <3>1. i \in 1..(K - 1)
      BY <1>0, <2>2
    <3>2. /\ tokens[i] = Star => tokens[i + 1] \notin {Star, StarStar, Folders}
          /\ tokens[i] = StarStar => tokens[i + 1] # "/"
      BY <3>1 DEF ReadAs
    <3> QED
      BY <1>2, <2>2, <3>2, SpellingFacts
  <2> QED
    BY <2>1, <2>2
<1>4. Reads(pattern, tokens, pos)
  BY <1>1, <1>3 DEF Reads
<1> QED
  BY <1>4

(* The name from position n on can be cut by the tokens after the i-th. *)
RestCut(tokens, name, i, n, cut) ==
  /\ cut \in [i..Len(tokens) -> 0..Len(name)]
  /\ cut[i] = n - 1 /\ cut[Len(tokens)] = Len(name)
  /\ \A j \in (i + 1)..Len(tokens) :
       /\ cut[j - 1] <= cut[j]
       /\ StandsFor(tokens[j], SubSeq(name, cut[j - 1] + 1, cut[j]))

(* A name is cut by a token and those after it just when the token takes a *)
(* piece of it and those after it cut what is left.                        *)
LEMMA CutStep ==
  ASSUME NEW name \in Text, NEW tokens \in Seq(Token), NEW i \in 1..Len(tokens),
         NEW n \in 1..(Len(name) + 1)
  PROVE  (\E cut : RestCut(tokens, name, i - 1, n, cut)) <=>
           \E m \in n..(Len(name) + 1) :
             StandsFor(tokens[i], SubSeq(name, n, m - 1)) /\ \E cut : RestCut(tokens, name, i, m, cut)
<1> DEFINE K == Len(tokens)
           N == Len(name)
<1>0. K \in Nat /\ N \in Nat /\ i \in Nat /\ 1 <= i /\ i <= K /\ n \in Nat /\ 1 <= n /\ n <= N + 1
  BY DEF Text
<1>1. ASSUME NEW cut, RestCut(tokens, name, i - 1, n, cut)
      PROVE  \E m \in n..(N + 1) :
               StandsFor(tokens[i], SubSeq(name, n, m - 1)) /\ \E c : RestCut(tokens, name, i, m, c)
  <2> DEFINE m == cut[i] + 1
             c == [j \in i..K |-> cut[j]]
  <2>1. /\ cut \in [(i - 1)..K -> 0..N] /\ cut[i - 1] = n - 1 /\ cut[K] = N
        /\ \A j \in ((i - 1) + 1)..K : /\ cut[j - 1] <= cut[j]
                             /\ StandsFor(tokens[j], SubSeq(name, cut[j - 1] + 1, cut[j]))
    BY <1>1 DEF RestCut
  <2>2. i \in ((i - 1) + 1)..K /\ i - 1 \in (i - 1)..K /\ i \in (i - 1)..K
    BY <1>0
  <2>3. cut[i] \in 0..N /\ n - 1 <= cut[i] /\ StandsFor(tokens[i], SubSeq(name, (n - 1) + 1, cut[i]))
    BY <2>1, <2>2
  <2>4. m \in n..(N + 1) /\ m - 1 = cut[i] /\ (n - 1) + 1 = n
    BY <1>0, <2>3
  <2>5. c \in [i..K -> 0..N] /\ c[i] = m - 1 /\ c[K] = N
    BY <1>0, <2>1, <2>4
  <2>6. ASSUME NEW j \in (i + 1)..K
        PROVE  c[j - 1] <= c[j] /\ StandsFor(tokens[j], SubSeq(name, c[j - 1] + 1, c[j]))
    <3>1. j \in ((i - 1) + 1)..K /\ j \in i..K /\ j - 1 \in i..K
      BY <1>0
    <3> QED
      BY <2>1, <3>1
  <2> HIDE DEF m, c
  <2>7. RestCut(tokens, name, i, m, c)
    BY <2>5, <2>6 DEF RestCut
  <2> QED
    BY <2>3, <2>4, <2>7
<1>2. ASSUME NEW m \in n..(N + 1), StandsFor(tokens[i], SubSeq(name, n, m - 1)),
             NEW c, RestCut(tokens, name, i, m, c)
      PROVE  \E cut : RestCut(tokens, name, i - 1, n, cut)
  <2> DEFINE cut == [j \in (i - 1)..K |-> IF j = i - 1 THEN n - 1 ELSE c[j]]
  <2>1. /\ c \in [i..K -> 0..N] /\ c[i] = m - 1 /\ c[K] = N
        /\ \A j \in (i + 1)..K : /\ c[j - 1] <= c[j]
                                 /\ StandsFor(tokens[j], SubSeq(name, c[j - 1] + 1, c[j]))
    BY <1>2 DEF RestCut
  <2>2. \A j \in (i - 1)..K : j # i - 1 => j \in i..K
    BY <1>0
  <2>3. cut \in [(i - 1)..K -> 0..N]
    <3>1. n - 1 \in 0..N
      BY <1>0
    <3> QED
      BY <2>1, <2>2, <3>1
  <2>4. cut[i - 1] = n - 1 /\ cut[K] = N /\ cut[i] = m - 1
    BY <1>0, <2>1
  <2>5. ASSUME NEW j \in ((i - 1) + 1)..K
        PROVE  cut[j - 1] <= cut[j] /\ StandsFor(tokens[j], SubSeq(name, cut[j - 1] + 1, cut[j]))
    <3>1. CASE j = i
      <4>1. (n - 1) + 1 = n /\ n - 1 <= m - 1
        BY <1>0
      <4> QED
        BY <1>2, <2>4, <3>1, <4>1
    <3>2. CASE j # i
      <4>1. j \in (i + 1)..K /\ j \in i..K /\ j - 1 \in i..K /\ i \in Int /\ j - 1 # i - 1 /\ j # i - 1
        BY <1>0, <3>2
      <4>2. cut[j] = c[j] /\ cut[j - 1] = c[j - 1]
        BY <1>0, <4>1
      <4> QED
        BY <2>1, <4>1, <4>2
    <3> QED
      BY <3>1, <3>2
  <2> HIDE DEF cut
  <2>6. RestCut(tokens, name, i - 1, n, cut)
    BY <2>3, <2>4, <2>5 DEF RestCut
  <2> QED
    BY <2>6
<1> QED
  BY <1>1, <1>2

(* The rest of a pattern, from the end of a token, matches from a position *)
(* of the name just when the tokens left cut the name from there.          *)
LEMMA RestIsCut ==
  ASSUME NEW pattern \in Text, NEW name \in Text, NEW tokens \in Seq(Token), NEW pos,
         Reads(pattern, tokens, pos)
  PROVE  \A i \in 0..Len(tokens) : \A n \in 1..(Len(name) + 1) :
           n \in MatchFrom(pattern, name)[pos[i] + 1] <=> \E cut : RestCut(tokens, name, i, n, cut)
<1> DEFINE K == Len(tokens)
           Right(i) == \A n \in 1..(Len(name) + 1) :
             n \in MatchFrom(pattern, name)[pos[i] + 1] <=> \E cut : RestCut(tokens, name, i, n, cut)
           Wrong == {i \in 0..K : ~Right(i)}
<1>0. K \in Nat /\ Len(pattern) \in Nat /\ Len(name) \in Nat
  BY DEF Text
<1>1. ASSUME NEW n \in 1..(Len(name) + 1)
      PROVE  n \in MatchFrom(pattern, name)[pos[K] + 1] <=> \E cut : RestCut(tokens, name, K, n, cut)
  <2>1. pos[K] + 1 = Len(pattern) + 1 /\ Len(pattern) + 1 \in 1..(Len(pattern) + 1)
    BY <1>0 DEF Reads
  <2>2. MatchFrom(pattern, name)[Len(pattern) + 1] = {Len(name) + 1}
    <3>1. MatchFrom(pattern, name)[Len(pattern) + 1] =
            Matching(pattern, name, MatchFrom(pattern, name), Len(pattern) + 1)
      BY <2>1, MatchFromUnfolds
    <3>2. Len(pattern) + 1 > Len(pattern)
      BY <1>0
    <3> QED
      BY <3>1, <3>2 DEF Matching
  <2>3. ASSUME n = Len(name) + 1
        PROVE  RestCut(tokens, name, K, n, [j \in K..K |-> Len(name)])
    BY <1>0, <2>3 DEF RestCut
  <2>4. ASSUME NEW cut, RestCut(tokens, name, K, n, cut)
        PROVE  n = Len(name) + 1
    BY <1>0, <2>4 DEF RestCut
  <2> QED
    BY <2>1, <2>2, <2>3, <2>4
<1>2. Wrong = {}
  <2> SUFFICES ASSUME Wrong # {} PROVE FALSE
    OBVIOUS
  <2>1. PICK i \in Wrong : \A j \in Wrong : j <= i
    <3>1. Wrong \in SUBSET (0..K)
      OBVIOUS
    <3> HIDE DEF Wrong
    <3> QED
      BY <1>0, <3>1, Greatest
  <2>2. i # K
    BY <1>1, <2>1
  <2>3. i \in 0..K /\ i + 1 \in 1..K /\ i + 1 \in 0..K /\ (i + 1) - 1 = i
    BY <1>0, <2>1, <2>2
  <2>4. Right(i + 1)
    <3>1. i + 1 \notin Wrong
      <4> HIDE DEF Wrong
      <4> QED
        BY <2>1, <2>3
    <3> QED
      BY <2>3, <3>1
  <2>5. ASSUME NEW n \in 1..(Len(name) + 1)
        PROVE  n \in MatchFrom(pattern, name)[pos[i] + 1] <=> \E cut : RestCut(tokens, name, i, n, cut)
    <3> DEFINE p == pos[i]
               q == pos[i + 1]
               token == tokens[i + 1]
    <3>1. /\ p \in 0..Len(pattern) /\ q \in p..Len(pattern)
          /\ SubSeq(pattern, p + 1, q) = Spelling(token)
          /\ token = Star => q = Len(pattern) \/ pattern[q + 1] # "*"
          /\ token = StarStar => q = Len(pattern) \/ pattern[q + 1] # "/"
      <4>1. p \in 0..Len(pattern) /\ q \in 0..Len(pattern)
        BY <2>3 DEF Reads
      <4>2. p <= q
        BY <2>3 DEF Reads
      <4>3. q \in p..Len(pattern)
        BY <1>0, <4>1, <4>2
      <4> QED
        BY <2>3, <4>1, <4>3 DEF Reads
    <3> HIDE DEF p, q, token
    <3>3. n \in MatchFrom(pattern, name)[p + 1] <=>
            \E m \in n..(Len(name) + 1) :
              StandsFor(token, SubSeq(name, n, m - 1)) /\ m \in MatchFrom(pattern, name)[q + 1]
      BY <3>1, TokenStep
    <3>4. \A m \in n..(Len(name) + 1) :
            m \in MatchFrom(pattern, name)[q + 1] <=> \E cut : RestCut(tokens, name, i + 1, m, cut)
      <4>1. \A m \in n..(Len(name) + 1) : m \in 1..(Len(name) + 1)
        BY <1>0
      <4> QED
        BY <2>4, <4>1 DEF q
    <3>5. (\E cut : RestCut(tokens, name, i, n, cut)) <=>
            \E m \in n..(Len(name) + 1) :
              StandsFor(token, SubSeq(name, n, m - 1)) /\ \E cut : RestCut(tokens, name, i + 1, m, cut)
      BY <2>3, CutStep DEF token
    <3> QED
      BY <3>3, <3>4, <3>5 DEF p
  <2> QED
    BY <2>1, <2>5
<1> QED
  BY <1>2

(* globMatch finds a match just when the name can be cut into what the     *)
(* tokens of the pattern stand for.                                        *)
LEMMA GlobFindsCuts ==
  ASSUME NEW pattern \in Text, NEW name \in Text, NEW tokens \in Seq(Token), ReadAs(pattern, tokens)
  PROVE  GlobMatch(pattern, name) <=> CutBy(tokens, name, StandsFor)
<1>0. Len(tokens) \in Nat /\ Len(name) \in Nat /\ 0 \in 0..Len(tokens) /\ 1 \in 1..(Len(name) + 1)
  BY DEF Text
<1>1. PICK pos : Reads(pattern, tokens, pos)
  BY ReadAsReads
<1>2. pos[0] + 1 = 1
  BY <1>1 DEF Reads
<1>3. GlobMatch(pattern, name) <=> \E cut : RestCut(tokens, name, 0, 1, cut)
  BY <1>0, <1>1, <1>2, RestIsCut DEF GlobMatch
<1>4. (\E cut : RestCut(tokens, name, 0, 1, cut)) <=> CutBy(tokens, name, StandsFor)
  <2>1. 0 + 1 = 1 /\ 1 - 1 = 0
    OBVIOUS
  <2> QED
    BY <2>1 DEF RestCut, CutBy
<1> QED
  BY <1>3, <1>4

(* A pattern is never empty, and ends in a separator when its last token   *)
(* does.                                                                   *)
LEMMA LastRead ==
  ASSUME NEW pattern \in Text, NEW tokens \in Seq(Token), ReadAs(pattern, tokens)
  PROVE  /\ pattern # <<>>
         /\ Last(pattern) = "/" <=> Last(tokens) \in {"/", Folders}
<1> DEFINE K == Len(tokens)
           L == Len(pattern)
<1>0. K \in Nat /\ L \in Nat /\ K # 0
  BY DEF Text, ReadAs
<1>1. PICK pos : Reads(pattern, tokens, pos)
  BY ReadAsReads
<1> DEFINE a == pos[K - 1]
<1>2. a \in 0..L /\ L \in a..L /\ SubSeq(pattern, a + 1, L) = Spelling(tokens[K])
  <2>1. K \in 1..K /\ K - 1 \in 0..K
    BY <1>0
  <2>2. a \in 0..L /\ a <= pos[K] /\ pos[K] = L
    BY <1>1, <2>1 DEF Reads
  <2> QED
    BY <1>0, <1>1, <2>1, <2>2 DEF Reads
<1> HIDE DEF a
<1>3. /\ Len(SubSeq(pattern, a + 1, L)) = L - a
      /\ \A k \in 1..(L - a) : SubSeq(pattern, a + 1, L)[k] = pattern[a + k]
  BY <1>2, PieceFacts
<1>4. Len(Spelling(tokens[K])) = L - a /\ L - a \in 1..3
  <2>1. Len(Spelling(tokens[K])) = L - a
    BY <1>2, <1>3
  <2>2. Len(Spelling(tokens[K])) \in 1..3
    BY SpellingFacts
  <2> QED
    BY <2>1, <2>2
<1>5. Spelling(tokens[K])[L - a] = pattern[L]
  <2>1. L - a \in 1..(L - a) /\ a + (L - a) = L
    BY <1>0, <1>2, <1>4
  <2> QED
    BY <1>2, <1>3, <2>1
<1>6. pattern # <<>>
  BY <1>0, <1>2, <1>4
<1> QED
  BY <1>4, <1>5, <1>6, SpellingFacts DEF Last

(* What antMatch adds to a pattern that ends in a separator is read as one *)
(* more token.                                                             *)
LEMMA AppendedReadAs ==
  ASSUME NEW pattern \in Text, NEW tokens \in Seq(Token), ReadAs(pattern, tokens),
         Last(tokens) \in {"/", Folders}
  PROVE  /\ pattern \o <<"*", "*">> \in Text /\ Append(tokens, StarStar) \in Seq(Token)
         /\ ReadAs(pattern \o <<"*", "*">>, Append(tokens, StarStar))
<1> DEFINE K == Len(tokens)
           L == Len(pattern)
           whole == pattern \o <<"*", "*">>
           all == Append(tokens, StarStar)
<1>0. K \in Nat /\ L \in Nat /\ K # 0 /\ <<"*", "*">> \in Text /\ Len(<<"*", "*">>) = 2
  BY MatcherAssumption DEF Text, ReadAs
<1>1. whole \in Text /\ Len(whole) = L + 2
  BY <1>0 DEF Text
<1>2. StarStar \in Token
  BY DEF Token
<1>3. all \in Seq(Token) /\ Len(all) = K + 1 /\ all[K + 1] = StarStar
      /\ \A i \in 1..K : all[i] = tokens[i]
  BY <1>2
<1>4. \A i \in 1..K : tokens[i] = Last(tokens) \/ i \in 1..(K - 1)
  BY <1>0 DEF Last
<1>5. PICK pos \in [0..K -> 0..L] :
        /\ pos[0] = 0 /\ pos[K] = L
        /\ \A i \in 1..K : /\ pos[i - 1] <= pos[i]
                           /\ SubSeq(pattern, pos[i - 1] + 1, pos[i]) = Spelling(tokens[i])
  BY DEF ReadAs, CutBy, Spelled
<1> DEFINE cut == [i \in 0..(K + 1) |-> IF i = K + 1 THEN L + 2 ELSE pos[i]]
<1>6. cut \in [0..(K + 1) -> 0..(L + 2)] /\ cut[0] = 0 /\ cut[K + 1] = L + 2
  <2>1. \A i \in 0..(K + 1) : i # K + 1 => i \in 0..K
    BY <1>0
  <2>2. \A i \in 0..K : pos[i] \in 0..(L + 2)
    BY <1>0, <1>5
  <2>3. L + 2 \in 0..(L + 2)
    BY <1>0
  <2> QED
    BY <1>0, <1>5, <2>1, <2>2, <2>3
<1>7. ASSUME NEW i \in 1..(K + 1)
      PROVE  cut[i - 1] <= cut[i] /\ SubSeq(whole, cut[i - 1] + 1, cut[i]) = Spelling(all[i])
  <2>1. CASE i = K + 1
    <3>1. cut[i - 1] = L /\ cut[i] = L + 2
      BY <1>0, <1>5, <2>1
    <3>2. SubSeq(whole, L + 1, L + 2) = <<"*", "*">>
      <4>1. SubSeq(whole, Len(pattern) + 1, Len(whole)) = SubSeq(<<"*", "*">>, 1, 2)
        BY <1>0, <1>1, SubSeqOfConcat2 DEF Text
      <4>2. SubSeq(<<"*", "*">>, 1, 2) = <<"*", "*">>
        BY <1>0, SubSeqFull DEF Text
      <4> QED
        BY <1>1, <4>1, <4>2
    <3>3. Spelling(all[i]) = <<"*", "*">>
      BY <1>3, <2>1, SpellingCases
    <3> QED
      BY <1>0, <3>1, <3>2, <3>3
  <2>2. CASE i # K + 1
    <3>1. i \in 1..K /\ i - 1 \in 0..K /\ i \in 0..K /\ i - 1 # K + 1
      BY <1>0, <2>2
    <3>2. cut[i - 1] = pos[i - 1] /\ cut[i] = pos[i]
      BY <1>0, <2>2, <3>1
    <3> DEFINE a == pos[i - 1]
               b == pos[i]
    <3>3. a \in 0..L /\ b \in 0..L /\ a <= b /\ SubSeq(pattern, a + 1, b) = Spelling(tokens[i])
      BY <1>5, <3>1
    <3> HIDE DEF a, b, whole
    <3>4. SubSeq(whole, a + 1, b) = SubSeq(pattern, a + 1, b)
      <4>1. a \in 0..Len(whole) /\ b \in a..Len(whole) /\ b \in a..L
        BY <1>0, <1>1, <3>3
      <4>2. /\ SubSeq(whole, a + 1, b) \in Text /\ Len(SubSeq(whole, a + 1, b)) = b - a
            /\ \A k \in 1..(b - a) : SubSeq(whole, a + 1, b)[k] = whole[a + k]
        BY <1>1, <4>1, PieceFacts
      <4>3. /\ SubSeq(pattern, a + 1, b) \in Text /\ Len(SubSeq(pattern, a + 1, b)) = b - a
            /\ \A k \in 1..(b - a) : SubSeq(pattern, a + 1, b)[k] = pattern[a + k]
        BY <3>3, <4>1, PieceFacts
      <4>4. \A k \in 1..L : whole[k] = pattern[k]
        BY <1>0 DEF whole, Text
      <4>5. \A k \in 1..(b - a) : a + k \in 1..L
        BY <1>0, <3>3
      <4> QED
        BY <4>2, <4>3, <4>4, <4>5, SeqEqual DEF Text
    <3>5. all[i] = tokens[i]
      BY <1>3, <3>1
    <3> QED
      BY <3>2, <3>3, <3>4, <3>5 DEF a, b
  <2> QED
    BY <2>1, <2>2
<1>8. CutBy(all, whole, Spelled)
  <2> HIDE DEF cut, all, whole
  <2> QED
    BY <1>1, <1>3, <1>6, <1>7 DEF CutBy, Spelled
<1>9. ASSUME NEW i \in 1..K
      PROVE  /\ all[i] = Star => all[i + 1] \notin {Star, StarStar, Folders}
             /\ all[i] = StarStar => all[i + 1] # "/"
  <2>1. CASE i = K
    BY <1>0, <1>3, <2>1 DEF Last, Star, StarStar, Folders
  <2>2. CASE i # K
    <3>1. i \in 1..(K - 1) /\ i \in 1..K /\ i + 1 \in 1..K
      BY <1>0, <2>2
    <3>2. all[i] = tokens[i] /\ all[i + 1] = tokens[i + 1]
      BY <1>3, <3>1
    <3> QED
      BY <3>1, <3>2 DEF ReadAs
  <2> QED
    BY <2>1, <2>2
<1> QED
  <2>1. all # <<>>
    BY <1>0, <1>3
  <2>2. Len(all) - 1 = K
    BY <1>0, <1>3
  <2> HIDE DEF all, whole
  <2>3. ReadAs(whole, all)
    BY <1>8, <1>9, <2>1, <2>2 DEF ReadAs
  <2> QED
    BY <1>1, <1>3, <2>3 DEF all, whole

(* How a token is written is a text. *)
LEMMA SpellingIsText == ASSUME NEW token \in Token PROVE Spelling(token) \in Text
<1>1. <<"*", "*">> \in Text /\ <<"*", "*", "/">> \in Text
  BY MatcherAssumption DEF Text
<1>2. CASE token = StarStar
  BY <1>1, <1>2, SpellingCases
<1>3. CASE token = Folders
  BY <1>1, <1>3, SpellingCases
<1>4. CASE token \notin {StarStar, Folders}
  <2>1. token \in Character
    BY <1>4 DEF Token
  <2>2. <<token>> \in Text
    BY <2>1 DEF Text
  <2> QED
    BY <1>4, <2>2, SpellingCases
<1> QED
  BY <1>2, <1>3, <1>4

(* A text that begins another one is a piece of it. *)
LEMMA BeginningIsPiece ==
  ASSUME NEW text \in Text, NEW s \in Text, NEW b \in 0..Len(text), Len(s) = b,
         \A k \in 1..b : s[k] = text[k]
  PROVE  SubSeq(text, 1, b) = s
<1>0. Len(text) \in Nat /\ b \in Nat
  BY DEF Text
<1>1. 0 \in 0..Len(text) /\ b \in 0..Len(text) /\ b - 0 = b /\ 0 + 1 = 1
      /\ \A k \in 1..b : 0 + k = k
  BY <1>0
<1>2. /\ SubSeq(text, 0 + 1, b) \in Text /\ Len(SubSeq(text, 0 + 1, b)) = b - 0
      /\ \A k \in 1..(b - 0) : SubSeq(text, 0 + 1, b)[k] = text[0 + k]
  BY <1>1, PieceFacts
<1> DEFINE piece == SubSeq(text, 1, b)
<1>3. piece \in Text /\ Len(piece) = b /\ \A k \in 1..b : piece[k] = s[k]
  BY <1>1, <1>2
<1> HIDE DEF piece
<1>4. piece = s
  BY <1>3, SeqEqual DEF Text
<1> QED
  BY <1>4 DEF piece

(* A pattern begins as its first token is written. *)
LEMMA FirstRead ==
  ASSUME NEW pattern \in Text, NEW tokens \in Seq(Token), ReadAs(pattern, tokens)
  PROVE  pattern[1] = Spelling(tokens[1])[1]
<1>0. Len(tokens) \in Nat /\ Len(tokens) # 0 /\ Len(pattern) \in Nat
  BY DEF Text, ReadAs
<1>1. PICK pos : Reads(pattern, tokens, pos)
  BY ReadAsReads
<1> DEFINE b == pos[1]
<1>2. b \in 0..Len(pattern) /\ SubSeq(pattern, 0 + 1, b) = Spelling(tokens[1])
  <2>1. 1 \in 1..Len(tokens) /\ 1 \in 0..Len(tokens) /\ 1 - 1 = 0
    BY <1>0
  <2> QED
    BY <1>1, <2>1 DEF Reads
<1> HIDE DEF b
<1>3. /\ Len(SubSeq(pattern, 0 + 1, b)) = b - 0
      /\ \A k \in 1..(b - 0) : SubSeq(pattern, 0 + 1, b)[k] = pattern[0 + k]
  BY <1>0, <1>2, PieceFacts
<1>4. 1 \in 1..(b - 0)
  <2>1. b - 0 \in 1..3
    BY <1>2, <1>3, SpellingFacts
  <2> QED
    BY <2>1
<1> QED
  BY <1>2, <1>3, <1>4

(* A token before a pattern is read first, if it takes nothing along. *)
LEMMA PrependedReadAs ==
  ASSUME NEW token \in Token, NEW rest \in Text, NEW tokens \in Seq(Token), ReadAs(rest, tokens),
         token = Star => rest[1] # "*", token = StarStar => rest[1] # "/"
  PROVE  <<token>> \o tokens \in Seq(Token) /\ ReadAs(Spelling(token) \o rest, <<token>> \o tokens)
<1> DEFINE K == Len(tokens)
           L == Len(rest)
           first == Spelling(token)
           d == Len(first)
           whole == first \o rest
           all == <<token>> \o tokens
<1>0. K \in Nat /\ L \in Nat /\ K # 0 /\ first \in Text /\ d \in 1..3 /\ d \in Nat
  BY SpellingIsText, SpellingFacts DEF Text, ReadAs
<1> HIDE DEF first
<1>1. /\ whole \in Text /\ Len(whole) = d + L
      /\ \A k \in 1..d : whole[k] = first[k]
      /\ \A k \in 1..L : whole[d + k] = rest[k]
  BY <1>0 DEF Text
<1>2. /\ all \in Seq(Token) /\ Len(all) = K + 1 /\ all[1] = token
      /\ \A i \in 2..(K + 1) : all[i] = tokens[i - 1]
  BY <1>0
<1>3. PICK pos \in [0..K -> 0..L] :
        /\ pos[0] = 0 /\ pos[K] = L
        /\ \A i \in 1..K : /\ pos[i - 1] <= pos[i]
                           /\ SubSeq(rest, pos[i - 1] + 1, pos[i]) = Spelling(tokens[i])
  BY DEF ReadAs, CutBy, Spelled
<1> DEFINE cut == [i \in 0..(K + 1) |-> IF i = 0 THEN 0 ELSE d + pos[i - 1]]
<1>4. /\ cut \in [0..(K + 1) -> 0..(d + L)] /\ cut[0] = 0 /\ cut[K + 1] = d + L
  <2>1. \A i \in 0..(K + 1) : i # 0 => i - 1 \in 0..K
    BY <1>0
  <2>2. \A i \in 0..K : d + pos[i] \in 0..(d + L)
    BY <1>0, <1>3
  <2>3. 0 \in 0..(d + L) /\ K + 1 \in 0..(K + 1) /\ K + 1 # 0 /\ (K + 1) - 1 = K /\ 0 \in 0..(K + 1)
    BY <1>0
  <2> QED
    BY <1>3, <2>1, <2>2, <2>3
<1>5. ASSUME NEW i \in 1..(K + 1)
      PROVE  cut[i - 1] <= cut[i] /\ SubSeq(whole, cut[i - 1] + 1, cut[i]) = Spelling(all[i])
  <2>1. CASE i = 1
    <3>1. cut[i - 1] = 0 /\ cut[i] = d
      BY <1>0, <1>3, <2>1
    <3>2. SubSeq(whole, 0 + 1, d) = first
      <4> HIDE DEF whole, d
      <4>1. 0 + 1 = 1 /\ d \in 0..Len(whole) /\ Len(first) = d
        BY <1>0, <1>1 DEF d
      <4> QED
        BY <1>0, <1>1, <4>1, BeginningIsPiece
    <3> QED
      BY <1>0, <1>2, <2>1, <3>1, <3>2 DEF first
  <2>2. CASE i # 1
    <3>1. i \in 2..(K + 1) /\ i - 1 \in 1..K /\ (i - 1) - 1 \in 0..K /\ i - 1 # 0 /\ i # 0
          /\ i - 1 \in 0..(K + 1) /\ i - 1 \in 0..K
      BY <1>0, <2>2
    <3> DEFINE a == pos[(i - 1) - 1]
               b == pos[i - 1]
    <3>2. cut[i - 1] = d + a /\ cut[i] = d + b
      BY <1>0, <3>1
    <3>3. a \in 0..L /\ b \in 0..L /\ a <= b /\ SubSeq(rest, a + 1, b) = Spelling(tokens[i - 1])
      BY <1>3, <3>1
    <3> HIDE DEF a, b, whole, d
    <3>4. SubSeq(whole, (d + a) + 1, d + b) = SubSeq(rest, a + 1, b)
      <4>1. d + a \in 0..Len(whole) /\ d + b \in (d + a)..Len(whole) /\ b \in a..L
            /\ (d + b) - (d + a) = b - a
        BY <1>0, <1>1, <3>3
      <4> DEFINE from == d + a
                 to == d + b
      <4>2. /\ SubSeq(whole, from + 1, to) \in Text
            /\ Len(SubSeq(whole, from + 1, to)) = b - a
            /\ \A k \in 1..(b - a) : SubSeq(whole, from + 1, to)[k] = whole[from + k]
        <5> HIDE DEF from, to
        <5>1. /\ SubSeq(whole, from + 1, to) \in Text
              /\ Len(SubSeq(whole, from + 1, to)) = to - from
              /\ \A k \in 1..(to - from) : SubSeq(whole, from + 1, to)[k] = whole[from + k]
          BY <1>1, <4>1, PieceFacts DEF from, to
        <5>2. to - from = b - a
          BY <4>1 DEF from, to
        <5> QED
          BY <5>1, <5>2
      <4>3. /\ SubSeq(rest, a + 1, b) \in Text /\ Len(SubSeq(rest, a + 1, b)) = b - a
            /\ \A k \in 1..(b - a) : SubSeq(rest, a + 1, b)[k] = rest[a + k]
        BY <3>3, <4>1, PieceFacts
      <4>4. \A k \in 1..(b - a) : a + k \in 1..L /\ from + k = d + (a + k)
        BY <1>0, <3>3
      <4>5. \A k \in 1..(b - a) : SubSeq(whole, from + 1, to)[k] = SubSeq(rest, a + 1, b)[k]
        <5> HIDE DEF from, to
        <5> TAKE k \in 1..(b - a)
        <5>1. a + k \in 1..L /\ from + k = d + (a + k)
          BY <4>4
        <5>2. whole[d + (a + k)] = rest[a + k]
          BY <1>1, <5>1
        <5> QED
          BY <4>2, <4>3, <5>1, <5>2
      <4> HIDE DEF from, to
      <4>6. SubSeq(whole, from + 1, to) = SubSeq(rest, a + 1, b)
        <5> DEFINE one == SubSeq(whole, from + 1, to)
                   two == SubSeq(rest, a + 1, b)
        <5>1. one \in Text /\ two \in Text /\ Len(one) = b - a /\ Len(two) = b - a
              /\ \A k \in 1..(b - a) : one[k] = two[k]
          BY <4>2, <4>3, <4>5
        <5> HIDE DEF one, two
        <5>2. one = two
          BY <5>1, SeqEqual DEF Text
        <5> QED
          BY <5>2 DEF one, two
      <4> QED
        BY <4>6 DEF from, to
    <3>5. all[i] = tokens[i - 1]
      BY <1>2, <3>1
    <3>6. d + a <= d + b
      BY <1>0, <3>3
    <3> HIDE DEF all, cut
    <3> QED
      BY <3>2, <3>3, <3>4, <3>5, <3>6
  <2> QED
    BY <2>1, <2>2
<1>6. CutBy(all, whole, Spelled)
  <2> HIDE DEF cut, all, whole
  <2> QED
    BY <1>1, <1>2, <1>4, <1>5 DEF CutBy, Spelled
<1>7. ASSUME NEW i \in 1..K
      PROVE  /\ all[i] = Star => all[i + 1] \notin {Star, StarStar, Folders}
             /\ all[i] = StarStar => all[i + 1] # "/"
  <2>1. CASE i = 1
    <3>1. all[i + 1] = tokens[1]
      BY <1>0, <1>2, <2>1
    <3>2. rest[1] = Spelling(tokens[1])[1]
      BY FirstRead
    <3> QED
      BY <1>2, <2>1, <3>1, <3>2, SpellingFacts
  <2>2. CASE i # 1
    <3>1. i \in 2..(K + 1) /\ i + 1 \in 2..(K + 1) /\ i - 1 \in 1..(K - 1) /\ (i + 1) - 1 = (i - 1) + 1
      BY <1>0, <2>2
    <3>2. all[i] = tokens[i - 1] /\ all[i + 1] = tokens[(i - 1) + 1]
      BY <1>2, <3>1
    <3> QED
      BY <3>1, <3>2 DEF ReadAs
  <2> QED
    BY <2>1, <2>2
<1> QED
  <2>1. all # <<>> /\ Len(all) - 1 = K
    BY <1>0, <1>2
  <2> HIDE DEF all, whole
  <2>2. ReadAs(whole, all)
    BY <1>6, <1>7, <2>1 DEF ReadAs
  <2> QED
    BY <1>2, <2>2 DEF all, whole, first

(* A token by itself is read as it is written. *)
LEMMA AloneReadAs ==
  ASSUME NEW token \in Token
  PROVE  <<token>> \in Seq(Token) /\ ReadAs(Spelling(token), <<token>>)
<1> DEFINE L == Len(Spelling(token))
           cut == [i \in 0..1 |-> IF i = 0 THEN 0 ELSE L]
<1>0. Spelling(token) \in Text /\ L \in Nat /\ Len(<<token>>) = 1
  BY SpellingIsText DEF Text
<1>1. cut \in [0..1 -> 0..L] /\ cut[0] = 0 /\ cut[1] = L
  BY <1>0
<1>2. SubSeq(Spelling(token), 0 + 1, L) = Spelling(token)
  BY <1>0, SubSeqFull DEF Text
<1>3. \A i \in 1..1 : i = 1 /\ i - 1 = 0
  OBVIOUS
<1>4. CutBy(<<token>>, Spelling(token), Spelled)
  <2> HIDE DEF cut, L
  <2>1. \A i \in 1..1 : /\ cut[i - 1] <= cut[i]
                        /\ SubSeq(Spelling(token), cut[i - 1] + 1, cut[i]) = Spelling(<<token>>[i])
    BY <1>0, <1>1, <1>2, <1>3
  <2>2. cut \in [0..Len(<<token>>) -> 0..Len(Spelling(token))] /\ cut[Len(<<token>>)] = Len(Spelling(token))
    BY <1>0, <1>1 DEF L
  <2> QED
    BY <1>0, <1>1, <2>1, <2>2 DEF CutBy, Spelled
<1>5. \A i \in 1..(Len(<<token>>) - 1) : FALSE
  BY <1>0
<1> QED
  BY <1>4, <1>5 DEF ReadAs

(* No pattern is left out: every text but the empty one is read as some    *)
(* tokens, so that the assumption on Case holds no pattern back.           *)
THEOREM PatternsAreRead ==
  \A pattern \in Text \ {<<>>} : \E tokens \in Seq(Token) : ReadAs(pattern, tokens)
<1> DEFINE Readable(text) == \E tokens \in Seq(Token) : ReadAs(text, tokens)
           Unreadable == {text \in Text \ {<<>>} : ~Readable(text)}
           Lengths == {Len(text) : text \in Unreadable}
<1> SUFFICES ASSUME Unreadable # {} PROVE FALSE
  OBVIOUS
<1>1. PICK text \in Unreadable : \A other \in Unreadable : Len(text) <= Len(other)
  <2>1. Lengths \in SUBSET Nat /\ Lengths # {}
    <3>1. \A other \in Unreadable : Len(other) \in Nat
      BY LenProperties DEF Text
    <3> HIDE DEF Unreadable
    <3> QED
      BY <3>1
  <2>2. PICK n \in Lengths : \A m \in Lengths : n <= m
    <3> HIDE DEF Lengths
    <3> QED
      BY <2>1, Least
  <2> QED
    BY <2>2
<1>2. text \in Text /\ Len(text) \in Nat /\ Len(text) # 0 /\ ~Readable(text)
  BY <1>1 DEF Text
<1> DEFINE N == Len(text)
<1>3. ASSUME NEW token \in Token, NEW d \in 1..N, Spelling(token) = SubSeq(text, 1, d),
             d < N /\ token = Star => text[d + 1] # "*",
             d < N /\ token = StarStar => text[d + 1] # "/"
      PROVE  FALSE
  <2>1. CASE d = N
    <3>1. SubSeq(text, 1, d) = text
      BY <1>2, <2>1, SubSeqFull DEF Text
    <3> QED
      BY <1>2, <1>3, <3>1, AloneReadAs
  <2>2. CASE d # N
    <3> DEFINE rest == SubSeq(text, d + 1, N)
    <3>1. /\ rest \in Text /\ Len(rest) = N - d
          /\ \A k \in 1..(N - d) : rest[k] = text[d + k]
      <4>1. d \in 0..N /\ N \in d..N
        BY <1>2
      <4> QED
        BY <1>2, <4>1, PieceFacts
    <3>2. 1 \in 1..(N - d) /\ d < N /\ N - d < N /\ N - d # 0
      BY <1>2, <2>2
    <3>3. rest[1] = text[d + 1]
      BY <3>1, <3>2
    <3>4. Spelling(token) \o rest = text
      <4>1. Spelling(token) \in Text /\ Len(Spelling(token)) = d /\ \A k \in 1..d : Spelling(token)[k] = text[k]
        <5>1. 0 \in 0..N /\ d \in 0..N /\ d - 0 = d /\ \A k \in 1..d : 0 + k = k
          BY <1>2
        <5>2. SubSeq(text, 1, d) = SubSeq(text, 0 + 1, d)
          OBVIOUS
        <5> QED
          BY <1>2, <1>3, <5>1, <5>2, PieceFacts
      <4> HIDE DEF rest
      <4>2. /\ Spelling(token) \o rest \in Text /\ Len(Spelling(token) \o rest) = d + (N - d)
            /\ \A k \in 1..d : (Spelling(token) \o rest)[k] = text[k]
            /\ \A k \in (d + 1)..N : (Spelling(token) \o rest)[k] = text[d + (k - d)]
        <5> DEFINE head == Spelling(token)
        <5> HIDE DEF head, N
        <5>1. head \in Seq(Character) /\ rest \in Seq(Character) /\ Len(head) = d /\ Len(rest) = N - d
              /\ d \in Nat /\ N \in Nat /\ d <= N
          BY <1>2, <3>1, <4>1 DEF Text, head, N
        <5>2. head \o rest \in Seq(Character) /\ Len(head \o rest) = d + (N - d)
          BY <5>1
        <5>3. \A k \in 1..d : (head \o rest)[k] = head[k]
          BY <5>1
        <5>4. \A k \in (d + 1)..N : (head \o rest)[k] = rest[k - d] /\ k - d \in 1..(N - d)
          BY <5>1
        <5> QED
          BY <3>1, <4>1, <5>2, <5>3, <5>4 DEF Text, head
      <4>3. d + (N - d) = N /\ \A k \in 1..N : k \in 1..d \/ (k \in (d + 1)..N /\ d + (k - d) = k)
        BY <1>2
      <4> QED
        BY <1>2, <4>2, <4>3, SeqEqual DEF Text
    <3>5. Readable(rest)
      <4>1. rest \notin Unreadable
        <5> HIDE DEF Unreadable, rest
        <5>1. ~(Len(text) <= Len(rest))
          BY <1>2, <3>1, <3>2
        <5> QED
          BY <1>1, <5>1
      <4>2. rest # <<>>
        BY <1>2, <3>1, <3>2
      <4> QED
        BY <3>1, <4>1, <4>2
    <3>6. PICK tokens \in Seq(Token) : ReadAs(rest, tokens)
      BY <3>5
    <3> HIDE DEF rest
    <3>7. <<token>> \o tokens \in Seq(Token) /\ ReadAs(text, <<token>> \o tokens)
      BY <1>3, <3>1, <3>2, <3>3, <3>4, <3>6, PrependedReadAs
    <3> QED
      BY <1>2, <3>7
  <2> QED
    BY <2>1, <2>2
<1>4. \A k \in 1..N : text[k] \in Character
  BY <1>2 DEF Text
<1>5. /\ SubSeq(text, 1, 1) = <<text[1]>>
      /\ N >= 2 => SubSeq(text, 1, 2) = <<text[1], text[2]>>
      /\ N >= 3 => SubSeq(text, 1, 3) = <<text[1], text[2], text[3]>>
  <2>1. SubSeq(text, 1, 1) = <<text[1]>>
    <3>1. 1 \in 0..N /\ text[1] \in Character
      BY <1>2, <1>4
    <3>2. <<text[1]>> \in Text /\ Len(<<text[1]>>) = 1 /\ \A k \in 1..1 : <<text[1]>>[k] = text[k]
      BY <3>1 DEF Text
    <3> QED
      BY <1>2, <3>1, <3>2, BeginningIsPiece
  <2>2. ASSUME N >= 2 PROVE SubSeq(text, 1, 2) = <<text[1], text[2]>>
    <3>1. 2 \in 0..N /\ text[1] \in Character /\ text[2] \in Character
      BY <1>2, <1>4, <2>2
    <3>2. <<text[1], text[2]>> \in Text /\ Len(<<text[1], text[2]>>) = 2
          /\ \A k \in 1..2 : <<text[1], text[2]>>[k] = text[k]
      BY <3>1 DEF Text
    <3> QED
      BY <1>2, <3>1, <3>2, BeginningIsPiece
  <2>3. ASSUME N >= 3 PROVE SubSeq(text, 1, 3) = <<text[1], text[2], text[3]>>
    <3>1. 3 \in 0..N /\ text[1] \in Character /\ text[2] \in Character /\ text[3] \in Character
      BY <1>2, <1>4, <2>3
    <3>2. <<text[1], text[2], text[3]>> \in Text /\ Len(<<text[1], text[2], text[3]>>) = 3
          /\ \A k \in 1..3 : <<text[1], text[2], text[3]>>[k] = text[k]
      BY <3>1 DEF Text
    <3> QED
      BY <1>2, <3>1, <3>2, BeginningIsPiece
  <2> QED
    BY <2>1, <2>2, <2>3
<1>6. CASE N >= 3 /\ text[1] = "*" /\ text[2] = "*" /\ text[3] = "/"
  <2>1. Folders \in Token /\ 3 \in 1..N /\ Spelling(Folders) = SubSeq(text, 1, 3)
    BY <1>2, <1>5, <1>6, SpellingCases DEF Token
  <2>2. Folders # Star /\ Folders # StarStar
    BY DEF Folders, Star, StarStar
  <2> QED
    BY <1>3, <2>1, <2>2
<1>7. CASE N >= 2 /\ text[1] = "*" /\ text[2] = "*" /\ ~(N >= 3 /\ text[3] = "/")
  <2>1. StarStar \in Token /\ 2 \in 1..N /\ Spelling(StarStar) = SubSeq(text, 1, 2)
    BY <1>2, <1>5, <1>7, SpellingCases DEF Token
  <2>2. StarStar # Star /\ (2 < N => text[2 + 1] # "/")
    BY <1>2, <1>7 DEF Star, StarStar
  <2> QED
    BY <1>3, <2>1, <2>2
<1>8. CASE ~(N >= 2 /\ text[1] = "*" /\ text[2] = "*")
  <2>1. text[1] \in Token /\ 1 \in 1..N /\ text[1] \notin {StarStar, Folders}
    BY <1>2, <1>4, MatcherAssumption DEF Token
  <2>2. Spelling(text[1]) = SubSeq(text, 1, 1)
    BY <1>5, <2>1, SpellingCases
  <2>3. 1 < N /\ text[1] = Star => text[1 + 1] # "*"
    BY <1>2, <1>8 DEF Star
  <2> QED
    BY <1>3, <2>1, <2>2, <2>3
<1> QED
  BY <1>6, <1>7, <1>8

(* The states of BranchMatcher: what each variable may hold, and that the   *)
(* answer is the code's.                                                   *)
MatchInv ==
  /\ ref \in {<<>>} \cup {Heads \o name : name \in Name}
  /\ \E c \in Case : matcher = c.matcher /\ world = c.model
  /\ model \in {world, Unread}
  /\ stage \in {"model", "match", "done"}
  /\ stage = "done" => answer = MatchesDefaultBranch

(* A reference: refs/heads/ and a name, not ended by a separator. *)
LEMMA RefFacts ==
  ASSUME NEW name \in Name
  PROVE  /\ Heads \in Text /\ Len(Heads) = 4
         /\ Heads \o name \in Text /\ Heads \o name # <<>>
         /\ Last(Heads \o name) # "/"
         /\ Len(Heads \o name) = 4 + Len(name)
         /\ \A k \in 1..Len(name) : (Heads \o name)[4 + k] = name[k]
<1>1. Heads \in Text /\ Len(Heads) = 4
  BY MatcherAssumption DEF Heads, Text
<1>2. name \in Text /\ name # <<>> /\ Last(name) # "/"
  BY MatcherAssumption
<1>3. Len(name) \in Nat /\ Len(name) # 0
  BY <1>2 DEF Text
<1>4. /\ Heads \o name \in Text /\ Len(Heads \o name) = 4 + Len(name)
      /\ \A i \in 1..(4 + Len(name)) : (Heads \o name)[i] = IF i <= 4 THEN Heads[i] ELSE name[i - 4]
  <2>1. /\ Heads \o name \in Text /\ Len(Heads \o name) = Len(Heads) + Len(name)
        /\ \A i \in 1..(Len(Heads) + Len(name)) :
             (Heads \o name)[i] = IF i <= Len(Heads) THEN Heads[i] ELSE name[i - Len(Heads)]
    BY <1>1, <1>2, ConcatProperties DEF Text
  <2> QED
    BY <1>1, <2>1
<1>5. ASSUME NEW k \in 1..Len(name) PROVE (Heads \o name)[4 + k] = name[k]
  <2>1. 4 + k \in 1..(4 + Len(name)) /\ ~(4 + k <= 4) /\ (4 + k) - 4 = k
    BY <1>3
  <2> QED
    BY <1>4, <2>1
<1>6. Last(Heads \o name) # "/"
  <2>1. Len(name) \in 1..Len(name)
    BY <1>3
  <2> QED
    BY <1>2, <1>4, <1>5, <2>1 DEF Last
<1>7. Heads \o name # <<>>
  BY <1>3, <1>4
<1> QED
  BY <1>1, <1>4, <1>5, <1>6, <1>7

(* The suffixes that antMatch tries are those that begin a segment. *)
LEMMA TailsAreSegments ==
  ASSUME NEW text \in Text, text # <<>>, Last(text) # "/"
  PROVE  Tails(text) =
           {SubSeq(text, i, Len(text)) : i \in {k \in 1..Len(text) : k = 1 \/ text[k - 1] = "/"}}
<1>0. Len(text) \in Nat /\ Len(text) # 0 /\ DOMAIN text = 1..Len(text)
  BY DEF Text
<1> DEFINE Here == {1} \cup {k + 1 : k \in {j \in DOMAIN text : text[j] = "/"}}
           There == {k \in 1..Len(text) : k = 1 \/ text[k - 1] = "/"}
<1>1. ASSUME NEW i \in Here PROVE i \in There
  <2>1. CASE i = 1
    BY <1>0, <2>1
  <2>2. CASE i # 1
    <3>1. PICK k \in DOMAIN text : text[k] = "/" /\ i = k + 1
      BY <2>2
    <3>2. k # Len(text)
      BY <3>1 DEF Last
    <3>3. k \in Nat /\ i - 1 = k /\ i \in 1..Len(text)
      <4>1. k \in 1..Len(text)
        BY <1>0
      <4> QED
        BY <1>0, <3>1, <3>2, <4>1
    <3> QED
      BY <3>1, <3>3
  <2> QED
    BY <2>1, <2>2
<1>2. ASSUME NEW i \in There PROVE i \in Here
  <2>1. CASE i # 1
    <3>1. i - 1 \in 1..Len(text) /\ text[i - 1] = "/" /\ (i - 1) + 1 = i
      BY <1>0, <2>1
    <3> QED
      BY <1>0, <3>1
  <2> QED
    BY <2>1
<1>3. Here = There
  BY <1>1, <1>2
<1> HIDE DEF There
<1>4. Tails(text) = {SubSeq(text, i, Len(text)) : i \in Here}
  BY DEF Tails
<1> HIDE DEF Here
<1> QED
  BY <1>3, <1>4 DEF There

(* antMatch selects a reference just when a pattern does by Bitbucket's    *)
(* rule.                                                                   *)
LEMMA AntMatchIsSelection ==
  ASSUME ref \in {Heads \o name : name \in Name},
         NEW pattern \in Text, NEW tokens \in Seq(Token), ReadAs(pattern, tokens)
  PROVE  AntMatch(pattern) <=> PatternSelects(tokens)
<1>0. /\ ref \in Text /\ ref # <<>> /\ Last(ref) # "/"
      /\ pattern # <<>> /\ tokens # <<>>
  BY RefFacts, LastRead DEF ReadAs
<1> DEFINE all == IF Last(tokens) \in {"/", Folders} THEN Append(tokens, StarStar) ELSE tokens
           whole == IF Last(pattern) = "/" THEN pattern \o <<"*", "*">> ELSE pattern
           Suffix(i) == SubSeq(ref, i, Len(ref))
           Starts == {k \in 1..Len(ref) : k = 1 \/ ref[k - 1] = "/"}
<1>1. whole \in Text /\ all \in Seq(Token) /\ ReadAs(whole, all)
  BY LastRead, AppendedReadAs
<1>2. \A i \in Starts : Suffix(i) \in Text
  <2> SUFFICES ASSUME NEW i \in Starts PROVE Suffix(i) \in Text
    OBVIOUS
  <2> DEFINE a == i - 1
  <2>1. a \in 0..Len(ref) /\ Len(ref) \in a..Len(ref) /\ a + 1 = i
    BY <1>0 DEF Text
  <2> HIDE DEF a
  <2>2. SubSeq(ref, a + 1, Len(ref)) \in Text
    BY <1>0, <2>1, PieceFacts
  <2> QED
    BY <2>1, <2>2
<1>3. Tails(ref) = {Suffix(i) : i \in Starts}
  BY <1>0, TailsAreSegments
<1> HIDE DEF all, whole, Suffix, Starts
<1>4. \A i \in Starts : GlobMatch(whole, Suffix(i)) <=> CutBy(all, Suffix(i), StandsFor)
  BY <1>1, <1>2, GlobFindsCuts
<1>5. AntMatch(pattern) <=> \E i \in Starts : GlobMatch(whole, Suffix(i))
  <2>1. AntMatch(pattern) <=> \E suffix \in Tails(ref) : GlobMatch(whole, suffix)
    BY <1>0 DEF AntMatch, whole
  <2> QED
    BY <1>3, <2>1
<1>6. PatternSelects(tokens) <=> \E i \in Starts : CutBy(all, Suffix(i), StandsFor)
  BY <1>0 DEF PatternSelects, all, Suffix, Starts
<1> QED
  BY <1>4, <1>5, <1>6

(* normalizeRef takes refs/heads/ off a reference and leaves a name alone. *)
LEMMA ShortFacts ==
  ASSUME NEW name \in Name
  PROVE  Short(Heads \o name) = name /\ Short(name) = name /\ Short(<<>>) = <<>>
<1>0. name \in Text /\ ~IsPrefix(Heads, name) /\ Len(name) \in Nat /\ Len(Heads \o name) = 4 + Len(name)
  BY MatcherAssumption, RefFacts DEF Text
<1>1. Heads \in Text /\ Len(Heads) = 4 /\ Heads \o name \in Text
  BY RefFacts
<1>2. SubSeq(Heads \o name, 1, 4) = Heads
  <2>1. 1 \in 1..Len(Heads) /\ Len(Heads) \in 1..Len(Heads)
    BY <1>1
  <2>2. SubSeq(Heads \o name, 1, Len(Heads)) = SubSeq(Heads, 1, Len(Heads))
    BY <1>0, <1>1, <2>1, SubSeqOfConcat1 DEF Text
  <2> QED
    BY <1>1, <2>2, SubSeqFull DEF Text
<1>3. SubSeq(Heads \o name, 5, 4 + Len(name)) = name
  <2>1. /\ SubSeq(Heads \o name, 4 + 1, 4 + Len(name)) \in Text
        /\ Len(SubSeq(Heads \o name, 4 + 1, 4 + Len(name))) = (4 + Len(name)) - 4
        /\ \A k \in 1..((4 + Len(name)) - 4) : SubSeq(Heads \o name, 4 + 1, 4 + Len(name))[k] = (Heads \o name)[4 + k]
    <3> DEFINE b == 4 + Len(name)
    <3>1. 4 \in 0..Len(Heads \o name) /\ b \in 4..Len(Heads \o name)
      BY <1>0
    <3> HIDE DEF b
    <3>2. /\ SubSeq(Heads \o name, 4 + 1, b) \in Text
        /\ Len(SubSeq(Heads \o name, 4 + 1, b)) = b - 4
        /\ \A k \in 1..(b - 4) : SubSeq(Heads \o name, 4 + 1, b)[k] = (Heads \o name)[4 + k]
      BY <1>1, <3>1, PieceFacts
    <3> QED
      BY <3>2 DEF b
  <2>2. (4 + Len(name)) - 4 = Len(name)
    BY <1>0
  <2>3. \A k \in 1..Len(name) : (Heads \o name)[4 + k] = name[k]
    BY RefFacts
  <2>4. SubSeq(Heads \o name, 4 + 1, 4 + Len(name)) = name
    BY <1>0, <2>1, <2>2, <2>3, SeqEqual DEF Text
  <2>5. 4 + 1 = 5
    OBVIOUS
  <2> QED
    BY <2>4, <2>5
<1>4. IsPrefix(Heads, Heads \o name)
  <2>1. SubSeq(Heads, 1, Len(Heads)) = Heads
    BY <1>1, SubSeqFull DEF Text
  <2> QED
    BY <1>0, <1>1, <1>2, <2>1 DEF IsPrefix
<1>5. ~IsPrefix(Heads, <<>>)
  BY <1>1 DEF IsPrefix
<1> QED
  BY <1>0, <1>1, <1>3, <1>4, <1>5 DEF Short

(* What normalizeRef leaves is a text. *)
LEMMA ShortType ==
  ASSUME NEW value \in Text
  PROVE  Short(value) \in Text
<1>1. CASE IsPrefix(Heads, value)
  <2>1. 4 \in 0..Len(value) /\ Len(value) \in 4..Len(value) /\ Len(Heads) = 4
    BY <1>1, MatcherAssumption DEF IsPrefix, Text, Heads
  <2>2. SubSeq(value, 4 + 1, Len(value)) \in Text
    BY <2>1, PieceFacts
  <2> QED
    BY <1>1, <2>1, <2>2 DEF Short
<1>2. CASE ~IsPrefix(Heads, value)
  BY <1>2 DEF Short
<1> QED
  BY <1>1, <1>2

(* Concatenation with the same beginning can be undone. *)
LEMMA HeadsCancel ==
  ASSUME NEW name \in Name, NEW value \in Text
  PROVE  Heads \o name = Heads \o value <=> name = value
<1>1. ASSUME Heads \o name = Heads \o value PROVE name = value
  <2>1. Heads \in Text /\ name \in Text /\ Len(Heads) = 4
    BY RefFacts, MatcherAssumption
  <2>2. /\ Len(Heads \o value) = Len(Heads) + Len(value)
        /\ \A i \in 1 .. Len(Heads) + Len(value) : (Heads \o value)[i] =
             IF i <= Len(Heads) THEN Heads[i] ELSE value[i - Len(Heads)]
    BY <2>1, ConcatProperties DEF Text
  <2>3. /\ Len(Heads \o name) = 4 + Len(name)
        /\ \A k \in 1..Len(name) : (Heads \o name)[4 + k] = name[k]
    BY RefFacts
  <2>4. Len(name) \in Nat /\ Len(value) \in Nat
    BY <2>1 DEF Text
  <2>5. Len(name) = Len(value)
    BY <1>1, <2>1, <2>2, <2>3, <2>4
  <2>6. ASSUME NEW k \in 1..Len(name) PROVE name[k] = value[k]
    <3>1. 4 + k \in 1..(Len(Heads) + Len(value)) /\ ~(4 + k <= Len(Heads)) /\ (4 + k) - Len(Heads) = k
      BY <2>1, <2>4, <2>5
    <3>2. (Heads \o value)[4 + k] = value[k]
      BY <2>2, <3>1
    <3> QED
      BY <1>1, <2>3, <3>2
  <2> QED
    BY <2>1, <2>5, <2>6, SeqEqual DEF Text
<1> QED
  BY <1>1

(* A reference is the same as a value, short or long, when it is the       *)
(* reference of that name.                                                 *)
LEMMA SameRefIsName ==
  ASSUME NEW name \in Name, ref = Heads \o name, NEW value \in Text
  PROVE  SameRef(value) <=> ref = Heads \o Short(value)
<1>1. Short(ref) = name /\ Short(name) = name /\ Short(<<>>) = <<>> /\ name # <<>>
  BY ShortFacts, MatcherAssumption
<1>2. Display = name
  BY <1>1 DEF Display
<1>3. SameRef(value) <=> Short(value) = name
  BY <1>1, <1>2 DEF SameRef
<1> QED
  BY <1>3, ShortType, HeadsCancel

(* A prefix of a name is one of its reference, with refs/heads/ before     *)
(* both.                                                                   *)
LEMMA PrefixOfName ==
  ASSUME NEW name \in Name, NEW prefix \in Text
  PROVE  IsPrefix(prefix, name) <=> IsPrefix(Heads \o prefix, Heads \o name)
<1> DEFINE P == Len(prefix)
           N == Len(name)
           whole == Heads \o prefix
           text == Heads \o name
<1>0. Heads \in Text /\ name \in Text /\ Len(Heads) = 4 /\ P \in Nat /\ N \in Nat
  BY RefFacts, MatcherAssumption DEF Text
<1>1. /\ whole \in Text /\ Len(whole) = 4 + P
      /\ \A i \in 1..(4 + P) : whole[i] = IF i <= 4 THEN Heads[i] ELSE prefix[i - 4]
  <2>1. /\ whole \in Text /\ Len(whole) = Len(Heads) + P
      /\ \A i \in 1..(Len(Heads) + P) : whole[i] = IF i <= Len(Heads) THEN Heads[i] ELSE prefix[i - Len(Heads)]
    BY <1>0, ConcatProperties DEF Text
  <2> QED
    BY <1>0, <2>1
<1>2. /\ text \in Text /\ Len(text) = 4 + N
      /\ \A i \in 1..(4 + N) : text[i] = IF i <= 4 THEN Heads[i] ELSE name[i - 4]
  <2>1. /\ text \in Text /\ Len(text) = Len(Heads) + N
      /\ \A i \in 1..(Len(Heads) + N) : text[i] = IF i <= Len(Heads) THEN Heads[i] ELSE name[i - Len(Heads)]
    BY <1>0, ConcatProperties DEF Text
  <2> QED
    BY <1>0, <2>1
<1>3. ASSUME NEW s \in Text, NEW t \in Text
      PROVE  IsPrefix(s, t) <=> Len(s) <= Len(t) /\ \A k \in 1..Len(s) : s[k] = t[k]
  <2>0. Len(s) \in Nat /\ Len(t) \in Nat
    BY DEF Text
  <2>1. SubSeq(s, 1, Len(s)) = s
    BY SubSeqFull DEF Text
  <2>2. ASSUME Len(s) <= Len(t)
        PROVE  SubSeq(t, 1, Len(s)) = s <=> \A k \in 1..Len(s) : s[k] = t[k]
    <3>1. 0 \in 0..Len(t) /\ Len(s) \in 0..Len(t) /\ Len(s) - 0 = Len(s) /\ 0 + 1 = 1 /\ \A k \in 1..Len(s) : 0 + k = k
      BY <2>0, <2>2
    <3>2. /\ SubSeq(t, 0 + 1, Len(s)) \in Text
          /\ Len(SubSeq(t, 0 + 1, Len(s))) = Len(s) - 0
          /\ \A k \in 1..(Len(s) - 0) : SubSeq(t, 0 + 1, Len(s))[k] = t[0 + k]
      BY <3>1, PieceFacts
    <3>3. /\ SubSeq(t, 1, Len(s)) \in Text
          /\ Len(SubSeq(t, 1, Len(s))) = Len(s)
          /\ \A k \in 1..Len(s) : SubSeq(t, 1, Len(s))[k] = t[k]
      BY <3>1, <3>2
    <3> QED
      BY <3>3, SeqEqual DEF Text
  <2> QED
    BY <2>1, <2>2 DEF IsPrefix
<1> HIDE DEF whole, text
<1>4. IsPrefix(prefix, name) <=> P <= N /\ \A k \in 1..P : prefix[k] = name[k]
  BY <1>0, <1>3
<1>5. IsPrefix(whole, text) <=> 4 + P <= 4 + N /\ \A k \in 1..(4 + P) : whole[k] = text[k]
  BY <1>1, <1>2, <1>3
<1>6. ASSUME P <= N
      PROVE  (\A k \in 1..P : prefix[k] = name[k]) <=> \A k \in 1..(4 + P) : whole[k] = text[k]
  <2>1. ASSUME \A k \in 1..P : prefix[k] = name[k], NEW k \in 1..(4 + P)
        PROVE  whole[k] = text[k]
    <3>1. k \in 1..(4 + N) /\ (~(k <= 4) => k - 4 \in 1..P)
      BY <1>0, <1>6
    <3> QED
      BY <1>1, <1>2, <2>1, <3>1
  <2>2. ASSUME \A k \in 1..(4 + P) : whole[k] = text[k], NEW k \in 1..P
        PROVE  prefix[k] = name[k]
    <3> DEFINE i == k + 4
    <3>1. i \in 1..(4 + P) /\ i \in 1..(4 + N) /\ ~(i <= 4) /\ i - 4 = k
      BY <1>0, <1>6
    <3> HIDE DEF i
    <3>2. whole[i] = prefix[k] /\ text[i] = name[k]
      BY <1>1, <1>2, <3>1
    <3> QED
      BY <2>2, <3>1, <3>2
  <2> QED
    BY <2>1, <2>2
<1> QED
  <2>1. 4 + P <= 4 + N <=> P <= N
    BY <1>0
  <2>2. IsPrefix(prefix, name) <=> IsPrefix(whole, text)
    BY <1>4, <1>5, <1>6, <2>1
  <2> QED
    BY <2>2 DEF whole, text

(* It holds before anything was read ... *)
LEMMA MatchInvStarts == MatchInit => MatchInv
BY DEF MatchInit, MatchInv

(* ... and every step keeps it: matching reads what it does not change. *)
LEMMA MatchInvKept ==
  ASSUME MatchInv, [MatchNext]_matchVars
  PROVE  MatchInv'
<1>1. CASE FetchBranchModel
  BY <1>1 DEF MatchInv, FetchBranchModel
<1>2. CASE Match
  <2>1. MatchesDefaultBranch' = MatchesDefaultBranch
    BY <1>2 DEF Match, MatchesDefaultBranch, IsAnyRef, MatchesByType, BranchMatches, PatternText,
       AntMatch, SameRef, Display, ModelBranchMatches, ModelCategoryMatches
  <2> QED
    BY <1>2, <2>1 DEF MatchInv, Match
<1>3. CASE UNCHANGED matchVars
  <2>1. MatchesDefaultBranch' = MatchesDefaultBranch
    BY <1>3 DEF matchVars, MatchesDefaultBranch, IsAnyRef, MatchesByType, BranchMatches, PatternText,
       AntMatch, SameRef, Display, ModelBranchMatches, ModelCategoryMatches
  <2> QED
    BY <1>3, <2>1 DEF MatchInv, matchVars
<1> QED
  BY <1>1, <1>2, <1>3 DEF MatchNext, Matched

(* The invariant of every behaviour. *)
LEMMA MatchInvariance == MatchSpec => []MatchInv
BY MatchInvStarts, MatchInvKept, PTL DEF MatchSpec

(* What the assumption on the constants says of the matcher at hand. *)
LEMMA MatcherFacts ==
  ASSUME MatchInv
  PROVE  /\ matcher.id \in Text /\ matcher.displayId \in Text /\ matcher.tokens \in Seq(Token)
         /\ matcher.type = "PATTERN" =>
              IF PatternText(matcher) = <<>> THEN matcher.tokens = <<>>
              ELSE ReadAs(PatternText(matcher), matcher.tokens)
         /\ matcher.type = "MODEL_CATEGORY" => Len(matcher.id) = 1
         /\ world.resolved /\ world.development \in Text /\ world.production \in Text
         /\ \A category \in DOMAIN world.prefix : world.prefix[category] \in Text
BY MatcherAssumption DEF MatchInv

(* Each type of matcher answers what it selects, and knows it when it may. *)
LEMMA DoneMeansMatched ==
  ASSUME MatchInv, stage = "done"
  PROVE  PatternsAreUnderstood /\ AnswersAreNotGuessed
<1>0. answer = MatchesDefaultBranch
  BY DEF MatchInv
<1>1. CASE ref = <<>>
  <2>1. answer = [matches |-> FALSE, known |-> FALSE]
    BY <1>0, <1>1 DEF MatchesDefaultBranch, Unknown, Answer
  <2> QED
    BY <1>1, <2>1 DEF PatternsAreUnderstood, AnswersAreNotGuessed
<1>2. CASE ref # <<>>
  <2>1. PICK name \in Name : ref = Heads \o name
    BY <1>2 DEF MatchInv
  <2>2. \A value \in Text : SameRef(value) <=> ref = Heads \o Short(value)
    BY <2>1, SameRefIsName
  <2>3. CASE IsAnyRef
    <3>1. answer = [matches |-> TRUE, known |-> TRUE]
      BY <1>0, <1>2, <2>3 DEF MatchesDefaultBranch, Answer
    <3>2. Reading = "name" /\ Selects
      BY <2>3 DEF Reading, Selects
    <3> QED
      BY <1>2, <2>3, <3>1, <3>2 DEF PatternsAreUnderstood, AnswersAreNotGuessed
  <2>4. CASE ~IsAnyRef /\ matcher.type = "BRANCH"
    <3>1. answer = [matches |-> BranchMatches, known |-> TRUE]
      BY <1>0, <1>2, <2>4 DEF MatchesDefaultBranch, MatchesByType, Answer
    <3>2. Reading = "name"
      BY <2>4 DEF Reading, ReadingByType
    <3>3. Selects <=> \E given \in {matcher.id, matcher.displayId} : ref = Heads \o Short(given)
      BY <2>4 DEF Selects, SelectsByType
    <3>4. BranchMatches <=> Selects
      BY <2>2, <3>3, MatcherFacts DEF BranchMatches
    <3> QED
      BY <1>2, <2>4, <3>1, <3>2, <3>4 DEF PatternsAreUnderstood, AnswersAreNotGuessed
  <2>5. CASE ~IsAnyRef /\ matcher.type = "PATTERN"
    <3> DEFINE text == PatternText(matcher)
    <3>1. answer = [matches |-> AntMatch(text), known |-> TRUE]
      BY <1>0, <1>2, <2>5 DEF MatchesDefaultBranch, MatchesByType, Answer
    <3>2. Reading = "name"
      BY <2>5 DEF Reading, ReadingByType
    <3>3. Selects <=> PatternSelects(matcher.tokens)
      BY <2>5 DEF Selects, SelectsByType
    <3>4. AntMatch(text) <=> PatternSelects(matcher.tokens)
      <4>1. text \in Text /\ matcher.tokens \in Seq(Token)
        BY MatcherFacts DEF PatternText
      <4>2. CASE text = <<>>
        BY <2>5, <4>2, MatcherFacts DEF AntMatch, PatternSelects
      <4>3. CASE text # <<>>
        <5>1. ReadAs(text, matcher.tokens)
          BY <2>5, <4>3, MatcherFacts
        <5> HIDE DEF text
        <5> QED
          BY <2>1, <4>1, <5>1, AntMatchIsSelection
      <4> QED
        BY <4>2, <4>3
    <3> QED
      BY <1>2, <2>5, <3>1, <3>2, <3>3, <3>4 DEF PatternsAreUnderstood, AnswersAreNotGuessed
  <2>6. CASE ~IsAnyRef /\ matcher.type = "MODEL_BRANCH"
    <3>1. answer = ModelBranchMatches
      BY <1>0, <1>2, <2>6 DEF MatchesDefaultBranch, MatchesByType
    <3> DEFINE Named(m) == IF matcher.id = <<"development">> THEN m.development ELSE m.production
    <3>2. Selects <=> ref = Heads \o Short(Named(world))
      BY <2>6 DEF Selects, SelectsByType
    <3>3. Reading = IF matcher.id \in {<<"development">>, <<"production">>} THEN "model" ELSE "unknown"
      BY <2>6 DEF Reading, ReadingByType
    <3>4. CASE ~model.resolved \/ matcher.id \notin {<<"development">>, <<"production">>}
      <4>1. answer = [matches |-> FALSE, known |-> FALSE]
        BY <3>1, <3>4 DEF ModelBranchMatches, Unknown, Answer
      <4> QED
        BY <1>2, <2>6, <3>3, <3>4, <4>1 DEF PatternsAreUnderstood, AnswersAreNotGuessed
    <3>5. CASE model.resolved /\ matcher.id \in {<<"development">>, <<"production">>}
      <4>1. model = world
        BY <3>5 DEF MatchInv, Unread
      <4>2. answer = [matches |-> Named(world) # <<>> /\ SameRef(Named(world)), known |-> TRUE]
        BY <3>1, <3>5, <4>1 DEF ModelBranchMatches, Answer
      <4>3. Named(world) \in Text /\ ~SameRef(<<>>)
        BY MatcherFacts DEF SameRef
      <4> HIDE DEF Named
      <4>4. answer.matches <=> Selects
        BY <2>2, <3>2, <4>2, <4>3
      <4> QED
        BY <1>2, <2>6, <3>3, <3>5, <4>2, <4>4 DEF PatternsAreUnderstood, AnswersAreNotGuessed
    <3> QED
      BY <3>4, <3>5
  <2>7. CASE ~IsAnyRef /\ matcher.type = "MODEL_CATEGORY"
    <3>1. answer = ModelCategoryMatches
      BY <1>0, <1>2, <2>7 DEF MatchesDefaultBranch, MatchesByType
    <3>2. Reading = "model"
      BY <2>7 DEF Reading, ReadingByType
    <3>3. Selects <=> \E category \in DOMAIN world.prefix :
                       /\ matcher.id = <<category>> /\ world.prefix[category] # <<>>
                       /\ IsPrefix(Heads \o world.prefix[category], ref)
      BY <2>7 DEF Selects, SelectsByType
    <3>4. CASE ~model.resolved
      <4>1. answer = [matches |-> FALSE, known |-> FALSE]
        BY <3>1, <3>4 DEF ModelCategoryMatches, Unknown, Answer
      <4> QED
        BY <1>2, <2>7, <3>2, <3>4, <4>1 DEF PatternsAreUnderstood, AnswersAreNotGuessed
    <3>5. CASE model.resolved
      <4> DEFINE category == Last(matcher.id)
                 prefix == IF category \in DOMAIN world.prefix THEN world.prefix[category] ELSE <<>>
      <4>1. model = world
        BY <3>5 DEF MatchInv, Unread
      <4>2. answer = [matches |-> prefix # <<>> /\ IsPrefix(prefix, Display), known |-> TRUE]
        BY <3>1, <3>5, <4>1 DEF ModelCategoryMatches, Answer
      <4>3. matcher.id = <<category>>
        <5>1. matcher.id \in Text /\ Len(matcher.id) = 1
          BY <2>7, MatcherFacts
        <5> QED
          BY <5>1 DEF Last, Text
      <4>4. \A c : matcher.id = <<c>> => c = category
        BY <4>3
      <4>5. Display = name
        BY <2>1, ShortFacts DEF Display
      <4> HIDE DEF category
      <4>6. Selects <=> /\ category \in DOMAIN world.prefix /\ world.prefix[category] # <<>>
                       /\ IsPrefix(Heads \o world.prefix[category], ref)
        BY <3>3, <4>3, <4>4
      <4>7. ASSUME category \in DOMAIN world.prefix
            PROVE  IsPrefix(world.prefix[category], name) <=> IsPrefix(Heads \o world.prefix[category], ref)
        <5>1. world.prefix[category] \in Text
          BY <4>7, MatcherFacts
        <5> QED
          BY <2>1, <5>1, PrefixOfName
      <4>8. answer.matches <=> Selects
        BY <4>2, <4>5, <4>6, <4>7
      <4>9. answer.known
        BY <4>2
      <4> QED
        BY <1>2, <2>7, <3>2, <3>5, <4>8, <4>9 DEF PatternsAreUnderstood, AnswersAreNotGuessed
    <3> QED
      BY <3>4, <3>5
  <2>8. CASE ~IsAnyRef /\ matcher.type \notin {"ANY_REF", "BRANCH", "PATTERN", "MODEL_BRANCH", "MODEL_CATEGORY"}
    <3>1. answer = IF SameRef(matcher.id) THEN [matches |-> TRUE, known |-> TRUE]
                   ELSE [matches |-> FALSE, known |-> FALSE]
      BY <1>0, <1>2, <2>8 DEF MatchesDefaultBranch, MatchesByType, Answer, Unknown
    <3>2. Reading = IF SameRef(matcher.id) THEN "name" ELSE "unknown"
      BY <2>8 DEF Reading, ReadingByType
    <3>3. Selects <=> ref = Heads \o Short(matcher.id)
      BY <2>8 DEF Selects, SelectsByType
    <3> QED
      BY <1>2, <2>2, <2>8, <3>1, <3>2, <3>3, MatcherFacts DEF PatternsAreUnderstood, AnswersAreNotGuessed
  <2> QED
    BY <2>3, <2>4, <2>5, <2>6, <2>7, <2>8 DEF IsAnyRef
<1> QED
  BY <1>1, <1>2

(* The invariant has both properties in it. *)
LEMMA MatchInvImplies == MatchInv => PatternsAreUnderstood /\ AnswersAreNotGuessed
<1>1. CASE stage = "done"
  BY <1>1, DoneMeansMatched
<1>2. CASE stage # "done"
  BY <1>2 DEF PatternsAreUnderstood, AnswersAreNotGuessed
<1> QED
  BY <1>1, <1>2

(* A PATTERN matcher selects the default branch just when its tokens do,   *)
(* whatever the pattern and the branch: the backtracking of matchFrom, the *)
(* pairs of asterisks and the suffixes of antMatch lose and add nothing.   *)
THEOREM PatternsMeanWhatTheySay == MatchSpec => []PatternsAreUnderstood
BY MatchInvariance, MatchInvImplies, PTL

(* An answer is known when what it rests on was read, a known one is true  *)
(* of the branch model as it is, and an unknown one selects nothing.       *)
THEOREM MatchersAreNotGuessed == MatchSpec => []AnswersAreNotGuessed
BY MatchInvariance, MatchInvImplies, PTL
=============================================================================
