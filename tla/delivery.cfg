SPECIFICATION FairSpec
CONSTANTS
    User = {u1, u2}
    Session = {s1}
    Owner <- OneDevice
    Member = {u1, u2}
    Puller = {t1}
    Limit = 1
    Remote = TRUE
    NoUser = NoUser
    MaxDirect = 2
    MaxGroup = 1
    MaxRows = 2
    MaxFaults = 1
    MaxLost = 1
    u1 = u1  u2 = u2  s1 = s1  s2 = s2  s3 = s3
INVARIANTS MessagesKept
PROPERTIES MarkedWhenHanded PushedOnce ReceivedUnlessLost
CHECK_DEADLOCK FALSE
