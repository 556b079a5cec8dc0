SPECIFICATION FairSpec
CONSTANTS
    c = c
    r = r
    q = q
    Clients <- MCClient
    Runners <- MCOneRunner
    FindLimit = 2
    MaxReturned = 0
    MaxFaults = 0
PROPERTY StaysAnnounced
\* Every process may have stopped.
CHECK_DEADLOCK FALSE
