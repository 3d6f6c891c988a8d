SPECIFICATION Spec
CONSTANTS
    Idx = {1, 2}
    Names = {n1, n2}
    NoName = noname
    AnyName = any
    EventTypes = {"all", "link", "address", "route", "neigh", "process"}
    CreateFails = TRUE
    MaxEvents = 3
CHECK_DEADLOCK FALSE
INVARIANT NoneMissed
INVARIANT LinkAccounted
INVARIANT NameAsLabeled
PROPERTY MonitorListens
