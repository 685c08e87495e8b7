SPECIFICATION Spec
CONSTANTS
    Servers = {s1, s2, s3}
    NoServer = NoServer
SYMMETRY Perms
INVARIANT RingClosed
CHECK_DEADLOCK FALSE
