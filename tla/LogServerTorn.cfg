CONSTANTS
    c1 = c1
    c2 = c2
    c3 = c3
    Conns = {c1, c2}
    NoConn = NoConn
    ByteSize <- MixedSize
    HdrLen <- ShortHdr
    Bogus = {0, 2, 9}
    StackLimit = 8
    FdLimit = 2
    MaxPackets = 2
SPECIFICATION Spec
CHECK_DEADLOCK FALSE
INVARIANT
    ReadsEntirePacket
