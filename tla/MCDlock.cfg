\* Two followers, registered before the clients start, and queues that hold as
\* many messages as there are clients.
CONSTANTS
    m0 = m0
    f1 = f1
    f2 = f2
    c1 = c1
    c2 = c2
    c3 = c3
    l1 = l1
    l2 = l2
    Master = m0
    Followers = {f1, f2}
    Clients = {c1, c2}
    Locks = {l1}
    NoLock = NoLock
    NoOne = NoOne
    InitNames = 1
    Cap = 2
SPECIFICATION OrderedSpec
CHECK_DEADLOCK FALSE
SYMMETRY Symmetry
INVARIANT TypeOK
INVARIANT MutualExclusion
INVARIANT OneMessagePerCall
INVARIANT AnswersAreTrue
INVARIANT CallerKnown
INVARIANT NamesDistinct
INVARIANT ReplicaSynced
INVARIANT NoSendCycle
PROPERTY ImplementsLockTable
PROPERTY InquiryExact
