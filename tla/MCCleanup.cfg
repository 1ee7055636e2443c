SPECIFICATION LiveSpec
CONSTANTS
    s1 = s1
    s2 = s2
    r1 = r1
    r2 = r2
    r3 = r3
    w1 = w1
    u1 = u1
    nobody = nobody
    nosession = nosession
    nosecret = nosecret
    Secret = {s1, s2}
    Request = {}
    Traffic = {"get"}
    Kind <- OwnedOrNot
    Worker = {w1}
    User = {u1}
    Leaver = {u1}
    HasRedis = TRUE
    NoUser = nobody
    NoSecret = nosecret
    NoSession = nosession
    Session <- MCSession
INVARIANTS
    GoneAccountOwnsNothing
PROPERTIES
    CleanupComplete
    ExpiredErased
    DeletionEnds
CHECK_DEADLOCK FALSE
