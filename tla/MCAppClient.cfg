\* Two users, two locks, one follower, two commands typed ahead of the answers.
CONSTANTS
    m0 = m0
    f1 = f1
    c1 = c1
    c2 = c2
    l1 = l1
    l2 = l2
    Master = m0
    Followers = {f1}
    Clients = {c1, c2}
    Locks = {l1, l2}
    NoLock = NoLock
    InitNames = 2
    Cap = 6
    MaxCommands = 2
SPECIFICATION OrderedSpec
CHECK_DEADLOCK FALSE
SYMMETRY Symmetry
INVARIANT HolderRecorded
INVARIANT AnswersInOrder
INVARIANT SpinsOnlyForUnanswered
