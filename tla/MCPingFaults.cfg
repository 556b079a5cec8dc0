SPECIFICATION FairSpec
CONSTANTS
    c = c
    r = r
    Clients <- MCPair
    Runners <- MCRunner
    Attempted <- MCEnds
    MaxRound = 1
    MaxFaults = 2
INVARIANTS
    TypeOK
    AtMostOnce
    FailureIsFinal
    SingleFaultSurvived
    LossExplained
    OneReleasePerVisit
PROPERTIES
    KeepsPromise
    StreamsAdvance
    TickAdvances
    LoopReturns
    RequestAnswered
\* The ticks are bounded, so the loops stop.
CHECK_DEADLOCK FALSE
