\* Two clients with a code each while the cleanup job runs and everything runs out.
CONSTANTS
    a = a
    b = b
    pa = pa
    pb = pb
    x = x
    y = y
    u = u
    Clients = {a, b}
    Confidential = {b}
    Parties = {pa, pb}
    ClientOf <- OfClient
    Users = {u}
    UserOf <- OneUser
    Codes = {x, y}
    PartyOf <- OneEach
    Requests = {r1, r2}
    Operations = {"exchange", "refresh"}
    MaxTokens = 3
    MaxAttempts = 0
    Events = {"expire", "cleanup", "clear"}
    RemoveIdle = TRUE
    NoCode = NoCode
    NoParty = NoParty
SPECIFICATION Spec
PROPERTIES
    ValidGrantLasts
    IsPromise
CHECK_DEADLOCK FALSE
