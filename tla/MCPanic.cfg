SPECIFICATION Spec
CONSTANTS
    c = c
    r = r
    Clients <- MCPair
    Runners <- MCRunner
    Attempted <- MCEnds
    MaxRound = 1
    MaxFaults = 2
INVARIANT NobodyPanics
\* The ticks are bounded, so the loops stop.
CHECK_DEADLOCK FALSE
