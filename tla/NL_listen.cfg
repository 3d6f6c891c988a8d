SPECIFICATION FairSpec
CONSTANTS
    Reqs = {r1}
    Listener = listener
    NoReq = noreq
    Env = env
    SeqSpace = 8
    FirstSeq = 3
    RcvCap = 2
    MaxMsgs = 1
    MaxEnv = 3
    Shapes <- AckErrorShapes
    CbModes <- SendOnly
    Faults = {}
    Senders = {"kernel"}
    Serial = FALSE
    MayListen = TRUE
    MayClose = TRUE
INVARIANT RefsHeld
INVARIANT EventsInOrder
INVARIANT LoopNeverBlocks
PROPERTY EventHeardUnlessStopped
CHECK_DEADLOCK FALSE
