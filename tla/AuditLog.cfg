SPECIFICATION LogSpec
CONSTANTS
    c1 = c1
    c2 = c2
    Caller <- MCCaller
    Fragment = Fragment
    Spoiled = Spoiled
    Setups <- Sound
    MaxRecords = 5
INVARIANTS
    LogTypeOK
    FileChainVerifies
    AcknowledgedIsSealed
CHECK_DEADLOCK FALSE
