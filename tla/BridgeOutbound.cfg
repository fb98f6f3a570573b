CONSTANTS
    Msgs = {"a", "b", "c", "d"}
    Domains = {"D1", "D2"}
    Domain <- MCDomain
    Keys = {"k1", "c", "d"}
    Key <- MCKey
    Mailbox = {"a", "c"}
    Unopenable = {"d"}
    Workers = {"w1"}
    QueueSize = 1
    DedupMax = 1
    None = None
    MaxArrivals = 2
    MaxFaults = 1
SPECIFICATION FairSpec
INVARIANTS
    HandsAgree
    AtMostOnce
    NothingSilent
PROPERTIES
    Settles
CHECK_DEADLOCK FALSE
