-------------------------- MODULE MCBranchMatcher --------------------------
(* Names of one to three characters, with separators and without; every    *)
(* pattern that is read as up to three tokens; and of each other type what  *)
(* names the default branch, what does not, and what nothing knows.        *)
EXTENDS BranchMatcher

A == "a"
B == "b"
MCName == {<<A>>, <<A, A>>, <<A, "/", B>>, <<B, "/", A, "/", A>>, <<"feature", "/", A>>}

MCCharacter ==
  {A, B, "refs", "heads", "feature", "development", "production", "staging", "FEATURE",
   "RELEASE", "ANY_REF_MATCHER_ID", "/", "?", "*"}
MCToken == {A, B, "heads", "/", Single, Star, StarStar, Folders}
(* The pattern that is read as tokens, where there is one. *)
Written(tokens) == FlattenSeq([i \in DOMAIN tokens |-> Spelling(tokens[i])])
Patterns ==
  {tokens \in UNION {[1..n -> MCToken] : n \in 1..3} : ReadAs(Written(tokens), tokens)}

Of(type, id, displayId) ==
  [type |-> type, id |-> id, displayId |-> displayId, tokens |-> <<>>]
Branches == {<<A>>, Heads \o <<A>>, <<B, "/", A, "/", A>>, <<"heads", "/", A>>}
Others ==
  {Of("BRANCH", id, displayId) : id \in {<<>>} \cup Branches, displayId \in {<<>>, <<A>>, <<A, A>>}}
    \cup {Of("TAG", id, <<A>>) : id \in Branches}
    \cup {Of("MODEL_BRANCH", <<id>>, <<>>) : id \in {"development", "production", "staging"}}
    \cup {Of("MODEL_CATEGORY", <<id>>, <<>>) : id \in {"FEATURE", "RELEASE"}}
    \cup {Of("ANY_REF", <<>>, <<>>), Of("", AnyRef, <<>>), Of("PATTERN", <<>>, <<>>)}
(* A pattern is the id, beside another displayId, or the displayId alone.  *)
Patterned(tokens) ==
  {[Of("PATTERN", Written(tokens), <<A>>) EXCEPT !.tokens = tokens],
   [Of("PATTERN", <<>>, Written(tokens)) EXCEPT !.tokens = tokens]}

Off == [c \in {} |-> <<>>]
Plain == [resolved |-> TRUE, development |-> <<>>, production |-> <<>>, prefix |-> Off]
Models ==
  {[Plain EXCEPT !.development = d, !.production = p, !.prefix = f] :
     d \in {<<>>, Heads \o <<A>>, Heads \o <<A, A>>}, p \in {<<>>, Heads \o <<A, "/", B>>},
     f \in {Off} \cup {[c \in {"FEATURE"} |-> prefix] : prefix \in {<<>>, <<"feature", "/">>, <<B>>}}}

MCCase ==
  [matcher : UNION {Patterned(tokens) : tokens \in Patterns}, model : {Plain}]
    \cup [matcher : Others, model : Models]
=============================================================================
