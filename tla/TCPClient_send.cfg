\* Two application threads share the client and make every call: the send path.
SPECIFICATION Spec
CONSTANTS
    Users = {u1, u2}
    Io = io
    Calls <- SendCalls
    MaxConn = 2
    MaxSend = 2
    MaxRecv = 0
    MaxQueue = 1
SYMMETRY UserSymmetry
INVARIANTS
    TypeOK
    WriteBufferStable
    BytesSendingExact
    NoLostWakeup
    StaleWriteOnlyWhenDisconnected
PROPERTY ImplementsSendChannel
\* With no call under way and nothing to do for the io_service, all is quiet.
CHECK_DEADLOCK FALSE
