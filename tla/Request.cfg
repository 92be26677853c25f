CONSTANTS
  MaxRetries = 6
  RetryAfters = {0, 5, 3600}
SPECIFICATION FairSpec
INVARIANT OneEventPerAnswer
INVARIANT AnswersAreHeeded
INVARIANT CallsAreBounded
PROPERTY Returns
