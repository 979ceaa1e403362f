SPECIFICATION FairSpec
CONSTANTS
    Ops = {"connect", "accept", "peek", "read", "write"}
    Timeout = 2
    MaxTime = 4
INVARIANTS
    TypeOK
    SuccessMeansDone
    TimeoutIsTrue
PROPERTY
    Returns
