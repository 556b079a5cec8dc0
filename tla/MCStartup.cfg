SPECIFICATION MCSpec
CONSTANTS
    b = b
    a = a
    y = y
    z = z
    c = c
    r = r
    out = out
    nan = nan
    junk = junk
    nobody = nobody
    Boots <- MCBoots
    Relays <- MCRelays
    Clients <- MCClients
    Runners <- MCRunners
    BootstrapPeerIDs <- MCKnown
    Boot0 = b
    OutOfRange = out
    NotANumber = nan
    Junk = junk
    Nobody = nobody
    MaxErrors = 0
    MaxFaults = 1
SYMMETRY MCSymmetry
INVARIANTS
    CallsExplained
\* Every process may stop.
CHECK_DEADLOCK FALSE
