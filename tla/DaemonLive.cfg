SPECIFICATION FairSpec
CONSTANTS
    p1 = p1
    p2 = p2
    p3 = p3
    c1 = c1
    c2 = c2
    c3 = c3
    A = A
    B = B
    Pid = {p1, p2, p3}
    Conn = {c1, c2, c3}
    Rest = {c1, c2}
    Port = {A}
    DefaultPort = A
    MaxActive = 2
    Confs <- OnePort
    MaxEdits = 0
    Unset = Unset
    BadPort = BadPort
    NoSock = NoSock
    NoConn = NoConn
PROPERTIES
    ZombiesReaped
    QueuedServed
