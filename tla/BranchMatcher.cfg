SPECIFICATION MatchSpec
INVARIANTS
  PatternsAreUnderstood
  AnswersAreNotGuessed
CONSTANTS
  Character <- MCCharacter
  Name <- MCName
  Case <- MCCase
