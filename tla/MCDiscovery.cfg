SPECIFICATION Spec
CONSTANTS
    c = c
    r = r
    q = q
    Clients <- MCClient
    Runners <- MCRunners
    FindLimit = 2
    MaxReturned = 1
    MaxFaults = 0
SYMMETRY MCSymmetry
INVARIANTS
    AnnouncedIsConnected
\* Every process may have stopped.
CHECK_DEADLOCK FALSE
