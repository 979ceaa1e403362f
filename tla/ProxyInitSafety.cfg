SPECIFICATION Spec
CONSTANTS
    Procs = {p1, p2}
    Options <- MCOptions
    Servers <- MCServers
    VoOf <- MCVoOf
SYMMETRY Symmetry
INVARIANTS
    TypeOK
    OneWriter
    AllOrNothing
    TempRemoved
    RaceLeavesProxy
CHECK_DEADLOCK FALSE
