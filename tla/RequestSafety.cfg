SPECIFICATION Spec
CONSTANTS
    vo = vo
    sub = sub
    admin = admin
    Group = {vo, sub}
    Role = {admin}
    NoGroup = NoGroup
    NoRole = NoRole
    MainGroup = vo
    Requests <- ManyRequests
    Validity = 1
    MaxDbChanges = 1
INVARIANTS
    TypeOK
    Explained
    IssuedRight
    OrderHonoured
    FirstHonoured
