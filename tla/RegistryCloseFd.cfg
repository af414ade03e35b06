SPECIFICATION Spec
CONSTANTS
    c1 = c1
    c2 = c2
    s1 = s1
    s2 = s2
    s3 = s3
    s4 = s4
    k1 = k1
    k2 = k2
    i1 = i1
    i2 = i2
    w1 = w1
    w2 = w2
    Clients <- TwoClients
    Sessions <- ThreeSessions
    Channels <- OneChannel
    GLOBAL = GLOBAL
    Ids <- TwoIds
    Names = {"room"}
    Workers = {w1}
    NULL = NULL
    FdId <- NumberedClient
    MaxJoined = 3
    Worlds <- TidyWorld
PROPERTY CloseFdClosesFd
