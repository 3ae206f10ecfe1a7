\* One instance may crash; the other starts late and cleans up behind it.
CONSTANTS
    c1 = c1
    c2 = c2
    n1 = n1
    n2 = n2
    Clients = {c1, c2}
    Instances = {n1, n2}
    Rooms = {r1}
    Home <- Apart
    Late = {n2}
    Crashers = {n1}
    Droppers = {}
    Pruners = {n2}
    Sweepers = {n2}
    Ordered = FALSE
    Timely = TRUE
SPECIFICATION Spec
INVARIANTS
    TypeOK
PROPERTIES
    StaysRegistered
    NoLastingGhost
    AbandonedIsClosed
