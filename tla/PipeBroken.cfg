CONSTANTS
    MaxIn = 2
    MaxOut = 1
    Outs = {"out"}
SPECIFICATION FairSpec
PROPERTY BrokenConnectionEnds
CHECK_DEADLOCK FALSE
