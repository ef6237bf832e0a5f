\* One application thread; sessions alternate between two threads.
SPECIFICATION FairSpec
CONSTANTS
    Users = {u1}
    Threads = 2
    ServerThread = 0
    MaxCalls = 4
    MaxAccepts = 2
INVARIANTS
    TypeOK
    OneAccept
    KeepsAccepting
    SessionsAreAlive
    ClientIsWatched
PROPERTIES
    StopReachesSessions
    StopEmptiesServer
    CallsReturn
\* A crash or the bounds end a run.
CHECK_DEADLOCK FALSE
