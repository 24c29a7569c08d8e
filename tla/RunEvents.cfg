SPECIFICATION Spec
CONSTANTS
    Client = {c1, c2}
    Remote = {c2}
    MaxEvents = 3
    MaxDrops = 2
INVARIANTS
    TypeOK
    NoMissedRing
PROPERTIES
    ImplementsFeed
    EveryClientTold
CHECK_DEADLOCK FALSE
