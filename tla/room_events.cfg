\* Two nodes, two messages, and saves and deletions of the item by others.
\* Messages are limited in number: the system may come to rest.
CONSTANTS
    c1 = c1
    c2 = c2
    n1 = n1
    n2 = n2
    Clients = {c1, c2}
    Nodes = {n1, n2}
    Rooms = {r1}
    Fields = {f1}
    Values = {v1}
    NoField = NoField
    NoValue = NoValue
    Home <- TwoNodes
    Slots = {t1, t2}
    Reusable = FALSE
    Messages = {"join", "update", "focus"}
    Jobs = {"save", "delete"}
    Pipelined = TRUE
    Seeds <- Unseeded
    Relational = {}
    MaxMail = 1
    MaxEvents = 1
SYMMETRY TwoNodeSymmetry
SPECIFICATION Spec
INVARIANTS
    TypeOK
PROPERTIES
    MemberUndisturbed
CHECK_DEADLOCK FALSE
