\* One call on one connection.
SPECIFICATION Spec
CONSTANTS
    Callers = {c1}
    MaxCalls = 1
    MaxConnects = 1
INVARIANT DropsOnError
CHECK_DEADLOCK FALSE
