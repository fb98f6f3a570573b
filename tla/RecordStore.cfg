CONSTANTS
    Identities <- MCIdentities
    Dars <- MCDars
    Removals <- MCRemovals
    Blocklists <- MCBlocklists
    Histories <- MCHistories
    Stores <- MCStores
    Bundled <- MCBundled
    Anchored = {"R1"}
    MaxRotationChain = 2
    Procs = {p1, p2}
    None = None
    MaxPushes = 3
    MaxFaults = 1
SPECIFICATION Spec
SYMMETRY Symmetry

    
PROPERTIES
    SuccessionHolds
    OffboardedStaysOut
CHECK_DEADLOCK FALSE
