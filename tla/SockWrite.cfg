SPECIFICATION Spec
CONSTANTS
    Ops = {"write"}
    Timeout = 2
    MaxTime = 4
INVARIANT
    WriteIsDone
