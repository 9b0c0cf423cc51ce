SPECIFICATION Spec
CONSTANTS
  Procs = {p1, p2}
  Sub = 3
  AccessTTL = 2
  RefreshTTL = 2
  RotateNum = 1
  RotateDen = 2
  MaxNow = 7
  MaxOps = 3
  MaxLogins = 1
  MaxFaults = 1
SYMMETRY Sym
INVARIANTS RevokedAccessRefused RefreshRefused AcceptedExpires TokensKept
CHECK_DEADLOCK FALSE
