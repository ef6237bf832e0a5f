\* One application thread, two starts, no callback that sets _stop.
SPECIFICATION Spec
CONSTANTS
    App = App
    Io = Io
    Registered = FALSE
    MaxStarts = 2
INVARIANTS
    TypeOK
    ReceiveLoopAlive
    OneReceive
\* The bounds end a run.
CHECK_DEADLOCK FALSE
