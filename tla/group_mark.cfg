SPECIFICATION FairSpec
CONSTANTS
    User = {u1, u2}
    Session = {s1, s2}
    Owner <- OneEach
    Member = {u1, u2}
    Puller = {t1}
    Limit = 1
    Remote = FALSE
    NoUser = NoUser
    MaxDirect = 1
    MaxGroup = 1
    MaxRows = 2
    MaxFaults = 0
    MaxLost = 0
    u1 = u1  u2 = u2  s1 = s1  s2 = s2  s3 = s3
PROPERTY EventuallyReceived
CHECK_DEADLOCK FALSE
