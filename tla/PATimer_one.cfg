\* One application thread uses the timer.
SPECIFICATION FairSpec
CONSTANTS
    Users = {u1}
    Io = io
    FreshStates <- NotRunning
    MaxWaits = 4
INVARIANTS
    OneWait
    RunningIsRunning
PROPERTY CallsReturn
\* The bound on the waits ends a run.
CHECK_DEADLOCK FALSE
