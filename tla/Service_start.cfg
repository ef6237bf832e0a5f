\* Started once, in either mode.
SPECIFICATION FairSpec
CONSTANTS
    N = 2
    Hasty = FALSE
    ErrorsThrown = FALSE
    MaxCalls = 1
    MaxPosts = 0
PROPERTY StartServes
CHECK_DEADLOCK FALSE
