CONSTANTS
    MaxReq = 3
    MaxMid = 2
SPECIFICATION FairSpec
INVARIANTS TypeOK AwaitedIsComing
PROPERTIES
    RepliesHandled
    AllGoesOut
    TimedRequestsEnd
    ImplementsRequests
CHECK_DEADLOCK FALSE
