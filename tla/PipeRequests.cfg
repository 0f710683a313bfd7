CONSTANTS
    MaxIn = 2
    MaxOut = 1
    Outs = {"out"}
SPECIFICATION Spec
INVARIANTS TypeOK InputWithoutGaps WritesHaveStructure Listens
CHECK_DEADLOCK FALSE
