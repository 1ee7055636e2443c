\* Any order of the events of one subscription.
SPECIFICATION Spec
CONSTANTS
    u1 = u1  u2 = u2
    c1 = c1  c2 = c2
    s1 = s1  s2 = s2
    h1 = h1  h2 = h2
    User = {u1}
    Customer = {c1}
    Session = {s1}
    Handler = {h1}
    None = None
    MaxFaults = 0
CHECK_DEADLOCK FALSE
INVARIANT TierFollowsPlan
