SPECIFICATION RFairSpec
CONSTANTS
    b = b
    y = y
    c = c
    r = r
    s = s
    out = out
    nan = nan
    junk = junk
    nobody = nobody
    Boots <- MCBoots
    Relays <- MCRelays
    Clients <- MCClients
    Runners <- MCRunners
    BootstrapPeerIDs <- MCBoots
    Boot0 = b
    OutOfRange = out
    NotANumber = nan
    Junk = junk
    Nobody = nobody
    Streams <- MCStreams
    From <- MCFrom
    To <- MCTo
    MaxErrors = 1
    MaxFaults = 1
INVARIANTS
    RTypeOK
    CallsExplained
    NoImpostor
    ReplyExplained
    NoMutualWait
PROPERTIES
    ReadsReturn
\* Every process may stop.
CHECK_DEADLOCK FALSE
