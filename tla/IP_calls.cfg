SPECIFICATION FairSpec
CONSTANTS
    Ops = {o1, o2}
    Ifs = {i1}
    Addrs = {a1, a2}
    Unpacked = {a2}
    Link = link
    AnyIf = any
    Idle = idle
    NoCall = nocall
    Calls <- SomeCalls
    CreateFails = {"getLinks", "list", "listRoutes", "route", "neighbor", "link", "addIPv6Neighbor"}
    Refusals = {"getlink", "get", "set", "del"}
    MaxChanges = 1
CHECK_DEADLOCK FALSE
INVARIANT OneCallback
INVARIANT SocketsClosed
INVARIANT ListComplete
INVARIANT FlushEmpties
PROPERTY Answered
