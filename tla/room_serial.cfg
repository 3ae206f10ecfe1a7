\* Clients that wait for each answer, and nothing that closes rooms.
CONSTANTS
    c1 = c1
    c2 = c2
    n1 = n1
    n2 = n2
    Clients = {c1, c2}
    Nodes = {n1, n2}
    Rooms = {r1}
    Fields = {f1, f2}
    Values = {v1}
    NoField = NoField
    NoValue = NoValue
    Home <- TwoNodes
    Slots = {t1, t2}
    Reusable = TRUE
    Messages = {"join", "leave", "update", "unset", "updateAll", "focus", "discard", "discardAll"}
    Jobs = {}
    Pipelined = FALSE
    Seeds <- Seeded
    Relational = {}
    MaxMail = 0
    MaxEvents = 0
SYMMETRY TwoNodeSymmetry
SPECIFICATION Spec
INVARIANTS
    FocusExclusive
    NoDuplicateMember
    MembersHaveRoom
PROPERTIES
    UpdateByHolder
    IsEditingRoom
