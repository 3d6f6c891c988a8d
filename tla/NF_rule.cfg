SPECIFICATION Spec
CONSTANTS
    Names = {"fw", "edge", "lan"}
    Written <- MCWritten
    Slipped <- MCSlipped
    UserData = {0, 4, 5}
    Packets <- MCPackets
CHECK_DEADLOCK FALSE
INVARIANT ChoiceLosesNothing
INVARIANT KernelReadsCommand
INVARIANT RuleMeansAsWritten
INVARIANT ListedBack
