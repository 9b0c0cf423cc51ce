SPECIFICATION FairSpec
CONSTANTS
    Session = {s1, s2}
    Busy = {s1}
    MaxQueue = 2
    MaxSends = 3
    MaxReads = 1
    MaxCloses = 1
INVARIANTS SessionsTracked SendsInOrder
PROPERTIES WrittenOrClosed ClosesInTheEnd
CHECK_DEADLOCK FALSE
