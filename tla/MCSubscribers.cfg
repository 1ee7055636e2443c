SPECIFICATION Spec
CONSTANTS
    e1 = e1
    e2 = e2
    r1 = r1
    r2 = r2
    r3 = r3
    r4 = r4
    r5 = r5
    noemail = noemail
    notoken = notoken
    Email = {e1}
    Request = {r1, r2, r3, r4, r5}
    NoEmail = noemail
    NoToken = notoken
SYMMETRY Symmetric
INVARIANTS
    OneLinkPerStatus
    ValidLinkMailed
PROPERTIES
    LeaveLinkPermanent
    KeepsOptIn
CHECK_DEADLOCK FALSE
