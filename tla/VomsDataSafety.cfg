SPECIFICATION Spec
CONSTANTS
    NoCert = NoCert
    Marker = Marker
    NoLsc = NoLsc
    Skew = 0
    Addr = {a1, a2}
    ACs <- MCACs
    Hosts <- MCHosts
    Lifetimes = {1}
    Creds <- MCCreds
    OwnCert <- User
    Lscs <- MCLscs
    VoDir <- MCVoDir
    VomsDir <- MCVomsDir
    VerTypes <- MCVerTypes
    NoView = NoView
    NoAddr = NoAddr
    MaxTime = 1
    MaxData = 2
    MaxCalls = 4
\* The run ends where the bounds are reached, or with the process.
CHECK_DEADLOCK FALSE
SYMMETRY Symmetry
INVARIANTS
    TypeOK
    
    
    WrittenIsAccepted
    HandlesAgree
    OwnCredentials
