CONSTANTS
    Rx = {r1}
    Hashes = {1, 2}
    Procs = {p1, p2}
    MaxTime = 1
    None = None
    Owner = r1
    Limit = 2
    ByteBudget = 2
    EntrySize <- MCEntrySize
SPECIFICATION WalkSpec
INVARIANTS
    MailIsWhole
    GhostsNeedOverlap
    WalkComplete
PROPERTIES
    WalkNeverRepeats
    WalkEnds
