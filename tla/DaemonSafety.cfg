SPECIFICATION Spec
CONSTANTS
    p1 = p1
    p2 = p2
    p3 = p3
    c1 = c1
    c2 = c2
    c3 = c3
    A = A
    B = B
    Pid = {p1, p2, p3}
    Conn = {c1, c2}
    Rest = {}
    Port = {A, B}
    DefaultPort = A
    MaxActive = 2
    Confs <- AllConfs
    MaxEdits = 2
    Unset = Unset
    BadPort = BadPort
    NoSock = NoSock
    NoConn = NoConn
CHECK_DEADLOCK FALSE
SYMMETRY Symm
INVARIANTS
    TypeOK
    LiveBounded
    NoLostReload
    ServedConfigFresh
    AcceptNeverBlocks
