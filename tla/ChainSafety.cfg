SPECIFICATION Spec
CONSTANTS
    Bases <- MCBases
    Names = {"root", "ca", "user", "host", "other"}
    Foreign <- MCForeign
    Seconds = {5}
    Pasts = {0, 2}
    Skew = 1
    MaxProxies = 2
    MaxTime = 3
    MaxCrls = 1
INVARIANTS
    TypeOK
    AcceptedInTime
    
