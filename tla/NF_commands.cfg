SPECIFICATION Spec
CONSTANTS
    Calls = {c1, c2}
    Tables = {t1}
    Families = {"ip", "ip6"}
    Commands <- AllCommands
    SendFails = TRUE
    NoReply = noreply
CHECK_DEADLOCK FALSE
INVARIANT OverIsClean
PROPERTY EffectAsNamed
PROPERTY NfAnswered
