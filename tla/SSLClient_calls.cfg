\* An application that calls at any time; Impls alternate between threads.
SPECIFICATION FairSpec
CONSTANTS
    Threads = 2
    MaxCalls = 3
INVARIANTS
    SSLInv
    AppKnows
    NoOrphan
    FreshStream
    ReadLoopAlive
PROPERTIES
    DisconnectEnds
    CallsReturn
\* The bounds end a run, and the application may stop calling.
CHECK_DEADLOCK FALSE
