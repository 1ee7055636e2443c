\* Two accounts, one session at Stripe, two requests at a time, one failure.
SPECIFICATION Spec
CONSTANTS
    u1 = u1  u2 = u2
    c1 = c1  c2 = c2
    s1 = s1  s2 = s2
    h1 = h1  h2 = h2
    User = {u1, u2}
    Customer = {c1, c2}
    Session = {s1}
    Handler = {h1, h2}
    None = None
    MaxFaults = 1
SYMMETRY Anonymity
CHECK_DEADLOCK FALSE
INVARIANTS ProMeansPaid OwnCustomer
PROPERTIES CustomerIsFinal DowngradeMeansEnded
