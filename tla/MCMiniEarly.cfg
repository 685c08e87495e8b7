SPECIFICATION Spec
CONSTANTS
    Servers = {1, 2, 3}
    NoServer = 0
    Clients = {"a"}
    FileLen <- Three
    SEG_SHIFT = 1
INVARIANT ReadBack
CHECK_DEADLOCK FALSE
