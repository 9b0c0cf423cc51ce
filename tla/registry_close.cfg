SPECIFICATION FairSpec
CONSTANTS
    Session = {s1, s2}
    User = {u1}
    Device = {d1, d2}
    Platform = {p1}
    Ident <- TwoDevices
    MultiDevice = {}
    Field <- Pairs
    FieldName <- PairOf
    Stem <- Root
    Within <- SameDevice
    OnPlatform <- SamePlatformName
    Worker = {w1}
    IO = IO
    Empty = Empty
    NoSession = NoSession
    NoField = NoField
    MaxFaults = 0
    MaxCrashes = 0
    MaxRefused = 1
    u1 = u1  u2 = u2  d1 = d1  d2 = d2  c1 = c1  p1 = p1
INVARIANT ViewsAgree
PROPERTY CloseCompletes
CHECK_DEADLOCK FALSE
