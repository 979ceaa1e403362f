SPECIFICATION FairSpec
CONSTANTS
    root = root
    k1 = k1
    Proc = {root, k1}
    Root = root
    MaxLog = 1
    MaxInodes = 3
    MaxSuffix = 4
    MaxCrashes = 1
    MaxReloads = 1
\* The run ends where the suffixes reach their bound.
CHECK_DEADLOCK FALSE
INVARIANTS
    TypeOK
    NoLogLost
    AgeOrder
PROPERTY
    Rotates
