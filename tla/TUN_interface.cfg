SPECIFICATION TunFairSpec
CONSTANTS
    Reads = {r1, r2}
    Writes = {w1}
    Threads = 2
    MaxFd = 2
    MaxPackets = 2
    BufLen = 2
    MaxPartial = 1
    MaxCreates = 2
    Faults = {"open", "ioctl", "write"}
    MayClose = TRUE
    MayOpenFiles = TRUE
    RawJobs = {r2, w1}
    NoJob = NoJob
INVARIANT StreamInOrder
INVARIANT PacketOnce
INVARIANT OutIsBuffer
INVARIANT ReportedIsWritten
PROPERTY WriteReported
CHECK_DEADLOCK FALSE
