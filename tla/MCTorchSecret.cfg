SPECIFICATION Spec
CONSTANTS
    s1 = s1
    s2 = s2
    r1 = r1
    r2 = r2
    r3 = r3
    w1 = w1
    u1 = u1
    nobody = nobody
    nosession = nosession
    nosecret = nosecret
    Secret = {s1}
    Request = {r1, r2}
    Traffic = {"get", "verify", "meta", "delete"}
    Kind <- AnyKind
    Worker = {w1}
    User = {u1}
    Leaver = {}
    HasRedis = FALSE
    NoUser = nobody
    NoSecret = nosecret
    NoSession = nosession
    Session <- MCSession
SYMMETRY Symmetric
INVARIANTS
    TypeOK
    AnsweredMeansErased
    InactiveMeansErased
    NoLateDelivery
PROPERTIES
    ErasureIsFinal
    KeepsPromise
CHECK_DEADLOCK FALSE
