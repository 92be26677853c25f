SPECIFICATION Spec
CONSTANTS
    r1 = r1
    r2 = r2
    r3 = r3
    u1 = u1
    u2 = u2
    h1 = h1
    h2 = h2
    MaxKills = 0
    None = None
    Demo = Demo
    Bad = Bad
    Runs <- MCTwoRuns
    Urls <- MCUrls
    Hosts <- MCOneHost
    HostOf <- MCBehindOneHost
    Commands <- MCAlternating
INVARIANT OneInstancePerFile
