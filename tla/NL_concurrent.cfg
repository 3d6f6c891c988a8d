SPECIFICATION FairSpec
CONSTANTS
    Reqs = {r1, r2}
    Listener = listener
    NoReq = noreq
    Env = env
    SeqSpace = 8
    FirstSeq = 3
    RcvCap = 5
    MaxMsgs = 1
    MaxEnv = 1
    Shapes <- CutShapes
    CbModes <- SendOnly
    Faults = {"create"}
    Senders = {"kernel"}
    Serial = FALSE
    MayListen = FALSE
    MayClose = TRUE
INVARIANT TypeOK
INVARIANT RefsBalanced
INVARIANT CalledBackOnce
INVARIANT KeptOrFailed
PROPERTY SendCalledBack
