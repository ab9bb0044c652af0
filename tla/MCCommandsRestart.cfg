SPECIFICATION Spec
CONSTANTS
    c1 = c1  c2 = c2  t1 = t1  a1 = a1  a2 = a2  r = r
    Procs <- MCProcs
    Clients <- MCProcs
    Tools <- MCTools
    Repos <- MCRepos
    Aliases <- MCAliases
    RepoOf <- MCRepoOf
    MaxVersion = 1
    Scenarios <- BothScenarios
    ChanCap = 1
    MaxOutput = 1
    MaxBinary = 1
    MaxBreaks = 0
PROPERTY Restarts
CHECK_DEADLOCK FALSE
