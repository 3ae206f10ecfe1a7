\* Three requests of one login, in both modes.
CONSTANTS
    Requests = {r1, r2, r3}
    Modes = {"session", "stateless"}
    Operations = {"use", "refresh", "logout"}
    Overlapping = {"session"}
    Timely = TRUE
    Paced = TRUE
    Returning = TRUE
    Faults = {"lost", "crash"}
    MaxTokens = 4
SPECIFICATION Spec
INVARIANTS
    TypeOK
    JarLives
    AnswerLives
    SameAnswer
    OneHead
    SupersededIsShort
CHECK_DEADLOCK FALSE
