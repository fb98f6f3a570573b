CONSTANTS
    Addrs = {own, a1}
    Hashes = {h1}
    Workers = {w1}
    Sweeper = sweeper
    OwnAddr = own
    Delivered = Delivered
    NoEntry = NoEntry
    TransitMaxAge = 1
    OwnQueueGrace = 0
    MaxCrashes = 1
    MaxFaults = 1
SPECIFICATION FairSpec
INVARIANTS
    NoMailLost
    DiskMatchesQueue
PROPERTIES
    
    NobodyCollects
