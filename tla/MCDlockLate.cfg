\* A follower that registers while a lock is held.
CONSTANTS
    m0 = m0
    f1 = f1
    f2 = f2
    c1 = c1
    c2 = c2
    c3 = c3
    l1 = l1
    l2 = l2
    Master = m0
    Followers = {f1}
    Clients = {c1, c2}
    Locks = {l1}
    NoLock = NoLock
    NoOne = NoOne
    InitNames = 2
    Cap = 3
SPECIFICATION Spec
CHECK_DEADLOCK FALSE
INVARIANT ReplicaSynced
