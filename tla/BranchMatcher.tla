--------------------------- MODULE BranchMatcher ---------------------------
(***************************************************************************)
(* Whether a ref matcher selects a repository's default branch, and whether *)
(* that can be told: src/internal/scm/bitbucketdc/matcher.go, with the      *)
(* branch model as fetchBranchModel may or may not have read it.  A text is *)
(* the sequence of its characters; a few words stand for one each.          *)
(***************************************************************************)
EXTENDS Naturals, Sequences, SequencesExt

CONSTANTS
  Character, \* what texts are made of
  Name,      \* short names of branches
  Case       \* matchers, each in a repository with a branch model

(* refs/heads/ *)
Heads == <<"refs", "/", "heads", "/">>

Text == Seq(Character)

(* A text can be cut into one piece for each token, each of which Is what   *)
(* its token says.                                                         *)
CutBy(tokens, text, Is(_, _)) ==
  \E cut \in [0..Len(tokens) -> 0..Len(text)] :
    /\ cut[0] = 0 /\ cut[Len(tokens)] = Len(text)
    /\ \A i \in 1..Len(tokens) :
         /\ cut[i - 1] <= cut[i]
         /\ Is(tokens[i], SubSeq(text, cut[i - 1] + 1, cut[i]))

(* A pattern is written as these, and others stand for themselves. *)
Single == "?"
Star == "*"
StarStar == "**"
Folders == "**/"
Spelling(token) ==
  CASE token = StarStar -> <<"*", "*">>
    [] token = Folders -> <<"*", "*", "/">>
    [] OTHER -> <<token>>
Spelled(token, text) == text = Spelling(token)
Token == Character \cup {StarStar, Folders}

(* What a pattern is read as: a run of asterisks is taken in pairs from its *)
(* start, and a separator after a pair belongs to it.                      *)
ReadAs(pattern, tokens) ==
  /\ tokens # <<>> /\ CutBy(tokens, pattern, Spelled)
  /\ \A i \in 1..(Len(tokens) - 1) :
       /\ tokens[i] = Star => tokens[i + 1] \notin {Star, StarStar, Folders}
       /\ tokens[i] = StarStar => tokens[i + 1] # "/"

(* The text of a PATTERN matcher. *)
PatternText(m) == IF m.id = <<>> THEN m.displayId ELSE m.id

(* A pair of asterisks is no character.  type, id and displayId are as the  *)
(* REST API gives them, <<>> where it leaves one out; tokens is what the    *)
(* text of a pattern is read as, <<>> when there is none.  A model names    *)
(* the branches of its two kinds, <<>> for none, and the prefix of each     *)
(* category it has switched on.  A branch is never named after a directory. *)
ASSUME MatcherAssumption ==
  /\ {"refs", "heads", "/", "*"} \subseteq Character
  /\ {StarStar, Folders} \cap Character = {}
  /\ \A name \in Name :
       name \in Text /\ name # <<>> /\ Last(name) # "/" /\ ~IsPrefix(Heads, name)
  /\ \A c \in Case :
       /\ c.matcher.id \in Text /\ c.matcher.displayId \in Text /\ c.matcher.tokens \in Seq(Token)
       /\ c.matcher.type = "PATTERN" =>
            IF PatternText(c.matcher) = <<>> THEN c.matcher.tokens = <<>>
            ELSE ReadAs(PatternText(c.matcher), c.matcher.tokens)
       /\ c.matcher.type = "MODEL_CATEGORY" => Len(c.matcher.id) = 1
       /\ c.model.resolved
       /\ c.model.development \in Text /\ c.model.production \in Text
       /\ \A category \in DOMAIN c.model.prefix : c.model.prefix[category] \in Text

Unread == [resolved |-> FALSE, development |-> <<>>, production |-> <<>>, prefix |-> [c \in {} |-> <<>>]]

VARIABLES
  ref,      \* scm.Repository.DefaultBranch, <<>> for none
  matcher,  \* the apiMatcher
  world,    \* the branch model of the repository
  model,    \* the branchModel that was read
  stage,    \* what fetchRepository is about to do
  answer    \* matches and known
matchVars == <<ref, matcher, world, model, stage, answer>>

MatchInit ==
  /\ ref \in {<<>>} \cup {Heads \o name : name \in Name}
  /\ \E c \in Case : matcher = c.matcher /\ world = c.model
  /\ model = Unread
  /\ stage = "model"
  /\ answer = [matches |-> FALSE, known |-> FALSE]

(* fetchBranchModel: an add-on that may not be there. *)
FetchBranchModel ==
  /\ stage = "model" /\ stage' = "match"
  /\ model' \in {world, Unread}
  /\ UNCHANGED <<ref, matcher, world, answer>>

-----------------------------------------------------------------------------
(* Names. *)

(* normalizeRef *)
Short(text) == IF IsPrefix(Heads, text) THEN SubSeq(text, Len(Heads) + 1, Len(text)) ELSE text

(* fallbackDisplay *)
Display == Short(ref)

SameRef(value) ==
  /\ value # <<>>
  /\ value \in {ref, Display} \/ (Short(value) = Short(ref) /\ Short(ref) # <<>>)

-----------------------------------------------------------------------------
(* Patterns. *)

(* Mutation: an asterisk crosses separators. *)
WithinSegmentAlways(name, from, to) == TRUE

WithinSegment(name, from, to) == \A k \in from..(to - 1) : name[k] # "/"

(* matchFrom at position p of the pattern: the positions of the name from   *)
(* which the rest of the pattern matches, given those from which what comes *)
(* after p does.  Two asterisks cross separators, and take the one after   *)
(* them along or none.                                                     *)
Matching(pattern, name, from, p) ==
  LET End == Len(name) + 1
      Has(q, c) == q <= Len(pattern) /\ pattern[q] = c
  IN IF p > Len(pattern) THEN {End}
     ELSE IF Has(p, "*") /\ Has(p + 1, "*")
     THEN {n \in 1..End : \/ Has(p + 2, "/") /\ n \in from[p + 3]
                          \/ \E i \in n..End : i \in from[p + 2]}
     ELSE IF Has(p, "*")
     THEN {n \in 1..End : \E i \in n..End : WithinSegment(name, n, i) /\ i \in from[p + 1]}
     ELSE {n \in 1..Len(name) :
             /\ IF Has(p, "?") THEN name[n] # "/" ELSE Has(p, name[n])
             /\ n + 1 \in from[p + 1]}

MatchFrom(pattern, name) ==
  LET from[p \in 1..(Len(pattern) + 1)] == Matching(pattern, name, from, p) IN from

GlobMatch(pattern, name) == 1 \in MatchFrom(pattern, name)[1]

(* A pattern may begin to match after any separator. *)
Tails(name) ==
  {SubSeq(name, i, Len(name)) : i \in {1} \cup {k + 1 : k \in {j \in DOMAIN name : name[j] = "/"}}}

(* Mutation: only the reference itself and the short name are tried. *)
AntMatchWhole(pattern) ==
  /\ pattern # <<>>
  /\ GlobMatch(pattern, ref) \/ GlobMatch(pattern, Display)

AntMatch(pattern) ==
  /\ pattern # <<>>
  /\ LET whole == IF Last(pattern) = "/" THEN pattern \o <<"*", "*">> ELSE pattern IN
       \E suffix \in Tails(ref) : GlobMatch(whole, suffix)

-----------------------------------------------------------------------------
(* The answer. *)

Answer(matches, known) == [matches |-> matches, known |-> known]
Unknown == Answer(FALSE, FALSE)

ModelBranchMatches ==
  LET branch == IF matcher.id = <<"development">> THEN model.development ELSE model.production IN
    IF ~model.resolved \/ matcher.id \notin {<<"development">>, <<"production">>} THEN Unknown
    ELSE Answer(branch # <<>> /\ SameRef(branch), TRUE)

(* Mutation: the stock prefixes are assumed of a model that was not read. *)
ModelCategoryMatchesStock ==
  LET prefix == IF ~model.resolved THEN <<"feature", "/">>
                ELSE IF Last(matcher.id) \in DOMAIN model.prefix
                     THEN model.prefix[Last(matcher.id)] ELSE <<>>
  IN Answer(prefix # <<>> /\ IsPrefix(prefix, Display), TRUE)

(* A category that the model does not list, or has off, selects nothing. *)
ModelCategoryMatches ==
  LET category == Last(matcher.id)
      prefix == IF category \in DOMAIN model.prefix THEN model.prefix[category] ELSE <<>>
  IN IF ~model.resolved THEN Unknown ELSE Answer(prefix # <<>> /\ IsPrefix(prefix, Display), TRUE)

(* anyRefMatcherID: some versions give it without the type. *)
AnyRef == <<"ANY_REF_MATCHER_ID">>
IsAnyRef == matcher.id = AnyRef \/ matcher.type = "ANY_REF"

(* Mutation: a branch is looked for by its id alone. *)
BranchMatchesById == SameRef(matcher.id)

BranchMatches == SameRef(matcher.id) \/ SameRef(matcher.displayId)

MatchesByType ==
  CASE matcher.type = "BRANCH" -> Answer(BranchMatches, TRUE)
    [] matcher.type = "PATTERN" -> Answer(AntMatch(PatternText(matcher)), TRUE)
    [] matcher.type = "MODEL_BRANCH" -> ModelBranchMatches
    [] matcher.type = "MODEL_CATEGORY" -> ModelCategoryMatches
    [] OTHER -> IF SameRef(matcher.id) THEN Answer(TRUE, TRUE) ELSE Unknown

MatchesDefaultBranch ==
  IF ref = <<>> THEN Unknown
  ELSE IF IsAnyRef THEN Answer(TRUE, TRUE) ELSE MatchesByType

Match ==
  /\ stage = "match" /\ stage' = "done"
  /\ answer' = MatchesDefaultBranch
  /\ UNCHANGED <<ref, matcher, world, model>>

Matched == stage = "done" /\ UNCHANGED matchVars

MatchNext == FetchBranchModel \/ Match \/ Matched

MatchSpec == MatchInit /\ [][MatchNext]_matchVars

-----------------------------------------------------------------------------
(* What a matcher selects. *)

(* The texts that one token stands for. *)
StandsFor(token, text) ==
  CASE token = Single -> Len(text) = 1 /\ text # <<"/">>
    [] token = Star -> ~Contains(text, "/")
    [] token = StarStar -> TRUE
    [] token = Folders -> text = <<>> \/ Last(text) = "/"
    [] OTHER -> text = <<token>>

(* Bitbucket's rule: some whole segments at the end of the reference, with  *)
(* everything below when the pattern ends in a separator.  No pattern       *)
(* selects nothing.                                                        *)
PatternSelects(tokens) ==
  /\ tokens # <<>>
  /\ LET all == IF Last(tokens) \in {"/", Folders} THEN Append(tokens, StarStar) ELSE tokens IN
       \E i \in 1..Len(ref) :
         /\ i = 1 \/ ref[i - 1] = "/"
         /\ CutBy(all, SubSeq(ref, i, Len(ref)), StandsFor)

(* Of the branch model as it is, read or not.  A BRANCH matcher names its   *)
(* branch by its id or by its displayId, in full or in short.              *)
SelectsByType ==
  CASE matcher.type = "BRANCH" ->
         \E given \in {matcher.id, matcher.displayId} : ref = Heads \o Short(given)
    [] matcher.type = "PATTERN" -> PatternSelects(matcher.tokens)
    [] matcher.type = "MODEL_BRANCH" ->
         ref = Heads \o Short(IF matcher.id = <<"development">> THEN world.development
                              ELSE world.production)
    [] matcher.type = "MODEL_CATEGORY" ->
         \E category \in DOMAIN world.prefix :
           /\ matcher.id = <<category>> /\ world.prefix[category] # <<>>
           /\ IsPrefix(Heads \o world.prefix[category], ref)
    [] OTHER -> ref = Heads \o Short(matcher.id)

Selects == IsAnyRef \/ SelectsByType

(* How a matcher is to be read: by name, through the model, or not at all. *)
ReadingByType ==
  CASE matcher.type \in {"BRANCH", "PATTERN"} -> "name"
    [] matcher.type = "MODEL_CATEGORY" -> "model"
    [] matcher.type = "MODEL_BRANCH" ->
         IF matcher.id \in {<<"development">>, <<"production">>} THEN "model" ELSE "unknown"
    [] OTHER -> IF SameRef(matcher.id) THEN "name" ELSE "unknown"

Reading == IF IsAnyRef THEN "name" ELSE ReadingByType

-----------------------------------------------------------------------------
(* Properties. *)

(* The backtracking over characters finds what the pattern means, on whole  *)
(* segments at the end of the reference only.                              *)
PatternsAreUnderstood ==
  stage = "done" /\ ref # <<>> /\ matcher.type = "PATTERN" /\ ~IsAnyRef =>
    (answer.matches <=> PatternSelects(matcher.tokens))

(* The answer is known when what it rests on was read and is understood, a  *)
(* known answer is the true one, and it is never guessed from a model that  *)
(* was not read: what ChangeAudit takes a matcher to say.                  *)
AnswersAreNotGuessed ==
  stage = "done" =>
    /\ answer.known <=> ref # <<>> /\ (Reading = "name" \/ (Reading = "model" /\ model.resolved))
    /\ answer.matches <=> answer.known /\ Selects
=============================================================================
