CONSTANTS
  p1 = p1
  p2 = p2
  p3 = p3
  r1 = r1
  r2 = r2
  r3 = r3
  r4 = r4
  gone = gone
  Project = {p1, p2, p3}
  Repo = {r1, r2, r3, r4, gone}
  ProjectOf <- MCProjectOf
  Existing = {r1, r2, r3, r4}
  Archived = {r2, r4}
  WholeProjects = {p1}
  Targets = {r3, r4, gone}
  SkipArchived = TRUE
  Concurrency = 1
  Reads = 1
SPECIFICATION FairSpec
PROPERTY ImplementsContract
PROPERTY Terminates
