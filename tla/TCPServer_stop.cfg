\* A stop while the handler of an accept is queued.
SPECIFICATION Spec
CONSTANTS
    Users = {u1}
    Threads = 2
    ServerThread = 0
    MaxCalls = 2
    MaxAccepts = 1
INVARIANT StopIsSafe
CHECK_DEADLOCK FALSE
