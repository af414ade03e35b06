SPECIFICATION Spec
CONSTANTS
    c1 = c1
    c2 = c2
    s1 = s1
    s2 = s2
    s3 = s3
    s4 = s4
    k1 = k1
    k2 = k2
    i1 = i1
    i2 = i2
    w1 = w1
    w2 = w2
    Clients <- TwoClients
    Sessions <- ThreeSessions
    Channels <- TwoChannels
    GLOBAL = GLOBAL
    Ids <- TwoIds
    Names = {"room"}
    Workers <- TwoWorkers
    NULL = NULL
    FdId <- NoNumbers
    MaxJoined = 2
    Worlds <- AllWorlds
SYMMETRY Symmetry
 
INVARIANT LoggedReachable
INVARIANT AnonymousOwned
INVARIANT NeverWild
PROPERTY StableMembership
CHECK_DEADLOCK FALSE
