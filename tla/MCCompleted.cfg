SPECIFICATION Spec
CONSTANTS
    c = c
    r = r
    Clients <- MCPair
    Runners <- MCRunner
    Attempted <- MCAll
    MaxRound = 1
    MaxFaults = 0
INVARIANT CompletedIsThisVisit
\* The ticks are bounded, so the loops stop.
CHECK_DEADLOCK FALSE
