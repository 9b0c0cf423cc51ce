SPECIFICATION Spec
CONSTANTS
  Thread = {t1, t2, t3, t4}
  Sizes = {1, 2}
  MaxGen = 3
INVARIANTS PoolConsistent ExclusiveUse NoLostWakeup
PROPERTIES GetEnds ImplementsLease
CHECK_DEADLOCK FALSE
