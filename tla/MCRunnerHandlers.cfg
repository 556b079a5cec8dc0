SPECIFICATION FairSpec
CONSTANTS
    c = c
    r = r
    Clients <- MCPair
    Runners <- MCRunner
    Attempted <- MCEnds
    MaxRound = 1
    MaxFaults = 0
PROPERTY RunnerHandlersReturn
\* The ticks are bounded, so the loops stop.
CHECK_DEADLOCK FALSE
