SPECIFICATION LiveSpec
CONSTANTS
    u1 = u1
    u2 = u2
    u3 = u3
    c1 = c1
    c2 = c2
    f1 = f1
    f2 = f2
    s1 = s1
    s2 = s2
    Users = {u1, u2}
    Conns = {c1}
    ConnOf <- OneConn
    Files = {f1, f2}
    Servers = {s1}
    Lengths = {1}
    Commands = {"touch", "stat", "cluster"}
    MaxCommands = 4
    NoFile = NoFile
    NoServer = NoServer
    Nobody = Nobody
INVARIANT AnswersFit
INVARIANT NothingLeft
PROPERTY CommandsEnd
CHECK_DEADLOCK FALSE
