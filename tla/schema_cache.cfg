\* A call in each of two processes, a change, and a failed read or a crash.
CONSTANTS
    p1 = p1
    p2 = p2
    c1 = c1
    c2 = c2
    c3 = c3
    Processes = {p1, p2}
    Calls = {c1, c3}
    Home <- Homes
    MaxIterations = 3
    MaxAttempts = 2
    MaxMail = 2
    MaxVersion = 1
    Changers = {p1}
    MaxFaults = 1
    NoSchema = NoSchema
SPECIFICATION Spec
INVARIANTS
    TypeOK
    StaleIsRaced
    OneReader
PROPERTIES
    SchemaReturns
CHECK_DEADLOCK FALSE
