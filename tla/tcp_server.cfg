SPECIFICATION TcpSpec
CONSTANTS
  Session = {s1, s2}
  MaxQueue = 2
  MaxSend = 3
  MaxIn = 1
  MaxBeats = 1
  Busy = {s1}
INVARIANTS ServerConsistent SendsWhole
PROPERTIES NothingLingers
CHECK_DEADLOCK FALSE
