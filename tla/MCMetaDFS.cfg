SPECIFICATION OrderedStoreSpec
CONSTANTS
    u1 = u1
    u2 = u2
    u3 = u3
    c1 = c1
    c2 = c2
    f1 = f1
    f2 = f2
    s1 = s1
    s2 = s2
    Users = {u1, u2, u3}
    Conns = {c1, c2}
    ConnOf <- SharedConn
    Files = {f1, f2}
    Servers = {s1, s2}
    Lengths = {1}
    Commands = {"touch", "stat", "rm"}
    MaxCommands = 4
    NoFile = NoFile
    NoServer = NoServer
    Nobody = Nobody
INVARIANT TypeOK
INVARIANT TablesAgree
INVARIANT DeletionFindsPlace
INVARIANT NoForeignId
INVARIANT ReadsWhereStored
INVARIANT RoundRobin
PROPERTY ImplementsFileTable
SYMMETRY Symmetry
CHECK_DEADLOCK FALSE
