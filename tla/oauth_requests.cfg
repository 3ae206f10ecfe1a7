\* Two codes of one confidential client, which asks for everything at any time.
CONSTANTS
    a = a
    b = b
    pa = pa
    pb = pb
    x = x
    y = y
    u = u
    Clients = {a}
    Confidential = {a}
    Parties = {pa}
    ClientOf <- OfClient
    Users = {u}
    UserOf <- OneUser
    Codes = {x, y}
    PartyOf <- OnlyA
    Requests = {r1, r2}
    Operations = {"exchange", "refresh", "revoke"}
    MaxTokens = 4
    MaxAttempts = 1
    Events = {"expire", "inactive"}
    RemoveIdle = FALSE
    NoCode = NoCode
    NoParty = NoParty
SPECIFICATION Spec
INVARIANTS
    TypeOK
    PreviousIsSpent
PROPERTIES
    ReplayEndsSuccessor
    IsPromise
    Answered
CHECK_DEADLOCK FALSE
