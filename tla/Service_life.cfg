\* Three threads, an owner that waits for IsStarted, both modes.
SPECIFICATION FairSpec
CONSTANTS
    N = 3
    Hasty = FALSE
    ErrorsThrown = FALSE
    MaxCalls = 4
    MaxPosts = 2
INVARIANTS
    TypeOK
    StoppedIsQuiet
PROPERTIES
    Served
    CallsReturn
\* The bounds end a run.
CHECK_DEADLOCK FALSE
