SPECIFICATION Spec
CONSTANTS
    Session = {s1, s2}
    User = {u1, u2}
    Device = {d1, c1}
    Platform = {p1}
    Ident <- TwoUsers
    MultiDevice = {}
    Field <- Pairs
    FieldName <- PairOf
    Stem <- Root
    Within <- SameDevice
    OnPlatform <- SamePlatformName
    Worker = {w1}
    IO = IO
    Empty = Empty
    NoSession = NoSession
    NoField = NoField
    MaxFaults = 2
    MaxCrashes = 1
    MaxRefused = 1
    u1 = u1  u2 = u2  d1 = d1  d2 = d2  c1 = c1  p1 = p1
SYMMETRY Symmetry
INVARIANTS TypeOK RightOwner GhostsBoundedByFaults
PROPERTY ClosedStaysOut
CHECK_DEADLOCK FALSE
