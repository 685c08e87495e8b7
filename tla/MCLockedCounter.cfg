\* Four children of one round each, two at a time, and one follower, which
\* starts at any time.
CONSTANTS
    m0 = m0
    f1 = f1
    f2 = f2
    c1 = c1
    c2 = c2
    c3 = c3
    c4 = c4
    file1 = file1
    Master = m0
    Followers = {f1}
    Clients = {c1, c2, c3, c4}
    Locks = {file1}
    NoLock = NoLock
    Filename = file1
    Rounds = 1
    InitNames = 1
    Cap = 4
SPECIFICATION TwoChildrenSpec
INVARIANT OneTokenPerServer
INVARIANT ReplicaNeverWrong
INVARIANT CounterExact
PROPERTY ResultRight
PROPERTY UnlockNotRefused
CHECK_DEADLOCK FALSE
