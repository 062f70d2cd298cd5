SPECIFICATION Spec
CONSTANTS
    t1 = t1
    t2 = t2
    t3 = t3
    NoThread = NoThread
    Thread = {t1, t2, t3}
    Cap = 2
    MaxRequests = 1
    MaxHups = 1
INVARIANTS
    TypeOK
    SemTellsEmpty
    EmptyWhenFreed
PROPERTIES
    Stops
