CONSTANTS
    Account = acct
    Aliases = {alias}
    Device = dev
    None = None
    MaxChain = 2
    MaxKeys = 4
    MaxTime = 3
    MaxActs = 1
SPECIFICATION Spec
INVARIANTS KeysHeld Explained StolenDeclared 
CHECK_DEADLOCK FALSE
