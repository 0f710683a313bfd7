CONSTANTS
    c1 = c1
    c2 = c2
    c3 = c3
    Conns = {c1, c2, c3}
    NoConn = NoConn
    ByteSize <- SameSize
    HdrLen <- ShortHdr
    Bogus = {0, 2, 9}
    StackLimit = 8
    FdLimit = 2
    MaxPackets = 1
SPECIFICATION FairSpec
CHECK_DEADLOCK FALSE
INVARIANTS
    TypeOK
    OneReader
    AccountedFor
    WholePackets
    
PROPERTIES
    HandlersFinish
    
    PrintsAllThatWasSent
