\* Two clients of one instance, which come and go and join the same room.
CONSTANTS
    c1 = c1
    c2 = c2
    n1 = n1
    n2 = n2
    Clients = {c1, c2}
    Instances = {n1}
    Rooms = {r1}
    Home <- Together
    Late = {}
    Crashers = {}
    Droppers = {c1}
    Pruners = {}
    Sweepers = {n1}
    Ordered = TRUE
    Timely = TRUE
SPECIFICATION Spec
PROPERTIES
    NoLastingGhost
    AbandonedIsClosed
