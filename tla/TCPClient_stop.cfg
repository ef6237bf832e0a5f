\* DisconnectAndStop called while the client is still connecting.
SPECIFICATION FairSpec
CONSTANTS
    Users = {u1}
    Io = io
    Calls <- DemoCalls
    MaxConn = 1
    MaxSend = 1
    MaxRecv = 1
    MaxQueue = 1
PROPERTY StopReturns
CHECK_DEADLOCK FALSE
