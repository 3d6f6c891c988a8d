SPECIFICATION Spec
CONSTANTS
    a1 = a1
    a2 = a2
    d1 = d1
    d2 = d2
    Addrs = {a1, a2}
    Short = {a2}
    Dests = {d1, d2}
    Flags = {"UP", "PROMISC"}
    NoAddr = noaddr
    NoJob = nojob
    Jobs <- AllJobs
    Refusals = {"mtu", "mac", "down", "up", "getflags", "add", "remove", "setflags", "addroute", "msgroute"}
    MaxOther = 2
    MaxCalls = 1
CHECK_DEADLOCK FALSE
INVARIANT SuccessIsComplete
INVARIANT StaysUp
INVARIANT OneInterface
