-------------------------------- MODULE MCTab --------------------------------
(* Small instances of what a tab goes on with while the visitor has moved on: the
   sign-in pages and the dashboard's mounting, the dashboard's table, the theme,
   the reveal page, and, at the server, the hooks of authentication.  They share
   no state, so that a behaviour is one of any of them, with the others at rest:
   every state of each is reached. *)
EXTENDS AccountPages, AuthHooks, Dashboard, ThemeSwitch, RevealPage

CONSTANTS zelda, mac

Starts == {NoTheme, zelda}

VARIABLE part \* which of them the behaviour is of

ASSUME ThemeAssumption /\ ListingAssumption /\ DashboardAssumption

tabVars == <<part, pagesVars, hookVars, tableVars, themeVars, vars>>

TabInit ==
    /\ part \in {"pages", "hooks", "table", "theme", "reveal"}
    /\ part # "pages" => members = {} /\ session = NoUser /\ place = "home"
    /\ PagesInit
    /\ part # "hooks" => required = TRUE
    /\ HooksInit
    /\ part # "table" => now = 0 /\ rows = [id \in Id |-> Null]
    /\ DashboardInit
    /\ part # "theme" =>
        stored = NoTheme /\ pref = "light" /\ osDark = FALSE /\ plan = "none"
    /\ ThemeInit
    /\ part # "reveal" =>
        /\ link = [burn |-> FALSE, owned |-> FALSE, protected |-> FALSE, rightKey |-> TRUE]
        /\ row = "live" /\ left = MaxAttempts
    /\ RevealInit

TabNext ==
    \/ part = "pages" /\ PagesNext /\ UNCHANGED <<part, hookVars, tableVars, themeVars, vars>>
    \/ part = "hooks" /\ HooksNext /\ UNCHANGED <<part, pagesVars, tableVars, themeVars, vars>>
    \/ part = "table" /\ TableNext /\ UNCHANGED <<part, pagesVars, hookVars, themeVars, vars>>
    \/ part = "theme" /\ ThemeNext /\ UNCHANGED <<part, pagesVars, hookVars, tableVars, vars>>
    \/ part = "reveal" /\ Next /\ UNCHANGED <<part, pagesVars, hookVars, tableVars, themeVars>>

TabSpec == TabInit /\ [][TabNext]_tabVars
==============================================================================
