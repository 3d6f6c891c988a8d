SPECIFICATION Spec
CONSTANTS
    MsgTypes = {3, 16, 17, 18, 20, 21, 22, 24, 25, 26, 28, 40}
    AttrTypes = {1, 3, 12, 200}
    DataLens = {0, 1, 4, 7}
    NudStates = {0, 2, 32}
    Garbage = {0, 9}
    MaxAttrs = 3
CHECK_DEADLOCK FALSE
INVARIANT HeadersOnly
INVARIANT FoundSoFar
PROPERTY ParseTerminates
