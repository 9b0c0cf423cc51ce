SPECIFICATION FairSpec
CONSTANTS
    Worker = {w1, w2}
    Client = {c1, c2}
    Task = {t1, t2, t3}
    NoTask = NoTask
    MaxInits = 2
INVARIANTS TasksCounted WorkConserving
PROPERTIES ImplementsTaskPool
CHECK_DEADLOCK FALSE
