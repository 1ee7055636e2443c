\* Two tabs, each with its own choice of theme, the other parts as small as they can be.
SPECIFICATION TabSpec
CONSTANTS
    People = {u1}
    Users = {u1}
    Failures = FALSE
    MaxMoves = 1
    MaxClicks = 1
    MaxEntries = 1
    None = None
    Null = Null
    Id = {1}
    LastTime = 1
    PerMs = 1
    PageSize = 1
    Elsewhere = {"viewed"}
    Gone = Gone
    Tabs = {"active"}
    MaxFetch = 1
    zelda = zelda
    mac = mac
    Themes = {zelda, mac}
    WebFont = {zelda}
    AtStart <- Starts
    NoTheme = NoTheme
    MaxAsked = 2
    MaxOthers = 1
    MaxAttempts = 1
    MaxNav = 1
CHECK_DEADLOCK FALSE
INVARIANT TabsInSync
