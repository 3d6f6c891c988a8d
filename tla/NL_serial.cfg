SPECIFICATION FairSpec
CONSTANTS
    Reqs = {r1, r2}
    Listener = listener
    NoReq = noreq
    Env = env
    SeqSpace = 8
    FirstSeq = 3
    RcvCap = 5
    MaxMsgs = 2
    MaxEnv = 1
    Shapes <- SmallShapes
    CbModes <- SendReply
    Faults = {"send"}
    Senders = {"peer"}
    Serial = TRUE
    MayListen = FALSE
    MayClose = FALSE
INVARIANT OwnReplies
INVARIANT SeqRangesDisjoint
PROPERTY ImplementsService
