SPECIFICATION Spec
INVARIANTS
  Recorded
  PassesAreEarned
  FailuresAreReal
  FullReadDecides
CONSTANTS
  ann = ann bob = bob eve = eve
  app = app old = old
  Account <- MCAccount
  Repository <- MCRepository
  Ranked = {1, 2}
  Rank <- MCRank
  Ceiling = 1
  AllowPublic = FALSE
  InactiveDays = 2
  MinOrg = 1
  MaxOrg = 1
  MinOwn = 1
  Worlds <- MCWorlds
