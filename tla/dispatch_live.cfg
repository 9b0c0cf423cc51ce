SPECIFICATION FairSpec
CONSTANTS
    Session = {s1, s2}
    NoSession = NoSession
    Msg = {m1, m2, m3}
    NoMsg = NoMsg
    Task <- MCTask
    MaxRunning = 1
    Limit = 1
    Width = 16
    MaxFaults = 2
INVARIANTS InflightBounded KnownAnswered
PROPERTIES BusyOnlyAtLimit TasksConclude
CHECK_DEADLOCK FALSE
