\* Two auth messages under way, tokens that end within one interval or later.
CONSTANTS
    Requests = {r1, r2}
    Interval = 2
    Timeout = 2
    Unheard = TRUE
    MaxTime = 6
SPECIFICATION Spec
INVARIANTS
    TypeOK
    ExpiryIsCaught
    Attended
PROPERTIES
    OwnTokenEnded
CHECK_DEADLOCK FALSE
