\* One application thread beside the receive loop: the loop, and that data gets
\* through.
SPECIFICATION FairSpec
CONSTANTS
    Users = {u1}
    Io = io
    Calls <- LifecycleCalls
    MaxConn = 2
    MaxSend = 2
    MaxRecv = 2
    MaxQueue = 1
INVARIANTS
    ReadLoopAlive
    
    StaleOnlyWhenDisconnected
PROPERTIES
    AcceptedIsSent
    SentIsReceived
\* With no call under way and nothing to do for the io_service, all is quiet.
CHECK_DEADLOCK FALSE
