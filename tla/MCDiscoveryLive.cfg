SPECIFICATION FairSpec
CONSTANTS
    c = c
    r = r
    q = q
    Clients <- MCClient
    Runners <- MCOneRunner
    FindLimit = 2
    MaxReturned = 1
    MaxFaults = 2
INVARIANTS
    TypeOK
    FoundRunnersServe
PROPERTIES
    StartUpEnds
    StartUpAdvances
\* Every process may have stopped.
CHECK_DEADLOCK FALSE
