SPECIFICATION FairSpec
INVARIANTS
  BlocksAreWhole
  EverythingIsAccounted
  ScreenIsClean
PROPERTIES
  LinesStandAlone
  ReportIsReached
CONSTANTS
  app = app lib = lib none = none
  Instance = none
  Repository <- MCRepository
  Wide <- MCWide
  MaxRequests <- MCMaxRequests
  Settings <- MCSettings
  MaxRetries = 1
