SPECIFICATION FairSpec
CONSTANTS
    Reqs = {r1}
    Listener = listener
    NoReq = noreq
    Env = env
    SeqSpace = 8
    FirstSeq = 3
    RcvCap = 3
    MaxMsgs = 1
    MaxEnv = 2
    Shapes <- AckErrorShapes
    CbModes <- SendOnly
    Faults = {}
    Senders = {"kernel"}
    Serial = TRUE
    MayListen = TRUE
    MayClose = FALSE
PROPERTY EventHeard
