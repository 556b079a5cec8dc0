SPECIFICATION FairSpec
CONSTANTS
    c = c
    d = d
    r = r
    Clients <- MCTwo
    Runner <- MCRunner
    Attempted <- MCStream
    MaxVisit = 1
    MaxFaults = 2
    MaxCrashes = 1
INVARIANTS
    TypeOK
    NoOrphan
    NoGhost
    Obeyed
    InactiveExplained
PROPERTIES
    StreamEnds
\* The visits are bounded, so everything ends.
CHECK_DEADLOCK FALSE
