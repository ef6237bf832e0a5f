\* A thread that sends and one that receives share a client.
SPECIFICATION FairSpec
CONSTANTS
    Callers = {c1, c2}
    MaxCalls = 2
    MaxConnects = 1
INVARIANTS
    TypeOK
    TwoHandlers
PROPERTIES
    SuccessTellsSize
    
\* The bounds end a run.
CHECK_DEADLOCK FALSE
