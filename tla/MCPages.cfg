\* Two openings of a link, two attempts; two copies of each of two buttons;
\* two modals, two deletions asked for; one account, two failures at the server.
SPECIFICATION PagesSpec
CONSTANTS
    None = None
    MaxAttempts = 2
    MaxNav = 2
    url = url  phrase = phrase
    Button = {url, phrase}
    Seconds = 2
    MaxClicks = 2
    Empty = Empty
    Own = Own
    MaxRequests = 2
    MaxOpened = 2
    u1 = u1  c1 = c1  c2 = c2  s1 = s1  h1 = h1
    User = {u1}
    Customer = {c1, c2}
    Session = {s1}
    Handler = {h1}
    MaxFaults = 2
CHECK_DEADLOCK FALSE
INVARIANT ShownIsTrue
PROPERTIES RevealEnds BurnHides ClearedInTheEnd ConfirmAnswered PaidGetsPro
