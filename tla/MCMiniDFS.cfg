SPECIFICATION PatientSpec
CONSTANTS
    Servers = {1, 2, 3, 4}
    NoServer = 0
    Clients = {"a", "b"}
    FileLen <- OneAndTwo
    SEG_SHIFT = 1
INVARIANT RingClosed
INVARIANT ReadBack
INVARIANT ThreeCopies
PROPERTY NeighboursStay
PROPERTY PlacedInTurn
PROPERTY AllEnds
CHECK_DEADLOCK FALSE
