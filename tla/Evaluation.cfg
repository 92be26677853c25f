SPECIFICATION Spec
CONSTANTS
    a = a
    b = b
    c = c
    p1 = p1
    p2 = p2
    org = org
    high = high
    low = low
    Instance = Instance
    Unknown = Unknown
    None = None
    Repositories <- MCRepositories
    OrgControls <- MCOrgControls
    RepoControls <- MCRepoControls
    Severity <- MCSeverity
    Automated <- MCAutomated
    ProjectOf <- MCProjectOf
    Alike <- MCAlike
    Inputs <- MCInputs
INVARIANTS
    ScoreIsHonest
    GreenIsEarned
    ChangesAreFiled
