CONSTANTS
  Size = 8
  Hidden = {1, 4, 5}
  PageLimit = 3
  MaxPages = 5
SPECIFICATION FairWalk
INVARIANT CompleteIsWhole
PROPERTY NothingSkippedNorReread
PROPERTY WalkReturns
