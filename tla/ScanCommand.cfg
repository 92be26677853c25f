SPECIFICATION Spec
CONSTANTS
    r1 = r1
    r2 = r2
    r3 = r3
    u1 = u1
    u2 = u2
    h1 = h1
    h2 = h2
    MaxKills = 1
    None = None
    Demo = Demo
    Bad = Bad
    Runs <- MCRuns
    Urls <- MCUrls
    Hosts <- MCHosts
    HostOf <- MCHostOf
    Commands <- MCCommands
INVARIANTS
    FilesAreWhole
    LastIsLatest
    AskedIsEvaluated
    SavedInstanceWorked
PROPERTY
    ExitVouches
