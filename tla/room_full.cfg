\* Three messages, sent without waiting, while empty rooms are swept and
\* connections are lost.  Once all connections are gone nothing may be left to do.
CONSTANTS
    c1 = c1
    c2 = c2
    n1 = n1
    n2 = n2
    Clients = {c1, c2}
    Nodes = {n1}
    Rooms = {r1}
    Fields = {f1}
    Values = {v1}
    NoField = NoField
    NoValue = NoValue
    Home <- OneNode
    Slots = {t1, t2, t3}
    Reusable = FALSE
    Messages = {"join", "focus"}
    Jobs = {"sweep", "disconnect"}
    Pipelined = TRUE
    Seeds <- Unseeded
    Relational = {}
    MaxMail = 1
    MaxEvents = 0
SYMMETRY OneNodeSymmetry
SPECIFICATION Spec
PROPERTIES
    MemberUndisturbed
    IsEditingRoom
    FocusUndisturbed
CHECK_DEADLOCK FALSE
