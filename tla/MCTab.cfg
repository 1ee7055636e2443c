\* A visitor, two sign-ins, three secrets and the pages of one, two themes, three
\* openings of a link: safety only.
SPECIFICATION TabSpec
CONSTANTS
    People = {u1}
    Users = {u1}
    Failures = TRUE
    MaxMoves = 3
    MaxClicks = 1
    MaxEntries = 2
    None = None
    Null = Null
    Id = {1, 2, 3}
    LastTime = 2
    PerMs = 2
    PageSize = 1
    Elsewhere = {"viewed"}
    Gone = Gone
    Tabs = {"active"}
    MaxFetch = 2
    zelda = zelda
    mac = mac
    Themes = {zelda, mac}
    WebFont = {zelda}
    AtStart <- Starts
    NoTheme = NoTheme
    MaxAsked = 2
    MaxOthers = 1
    MaxAttempts = 1
    MaxNav = 3
CHECK_DEADLOCK FALSE
INVARIANTS SaidOncePerClick SignInMeansPassword ShownInOrder AllListed ShownIsCommitted KeyStripped
