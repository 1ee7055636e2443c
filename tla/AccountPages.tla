----------------------------- MODULE AccountPages -----------------------------
(***************************************************************************)
(* One tab, its session and what it tells analytics: the pages login.ts    *)
(* and register.ts of client/src/pages, the mounting and the log-out of    *)
(* dashboard.ts.  The router empties the container and mounts a page, and  *)
(* cancels nothing: what an earlier mount awaits, it goes on with.         *)
(***************************************************************************)
EXTENDS Integers

CONSTANTS People,    \* the people who use this browser
          Failures,  \* whether requests may fail
          MaxMoves,  \* how many pages are mounted
          MaxClicks  \* how often a provider is chosen

ASSUME PagesAssumption ==
    /\ Failures \in BOOLEAN
    /\ MaxMoves \in Nat /\ MaxClicks \in Nat

NoUser == "none"
Forms == {"login", "register"}
Places == Forms \cup {"home", "dashboard", "provider"}

VARIABLES
    members,   \* who has an account
    session,   \* whose the session cookie is
    place,     \* the page mounted last
    broken,    \* whether the container says that something went wrong
    mounts,    \* pages being mounted or shown, and what they await
    socials,   \* forms whose signIn.social awaits an answer
    flags,     \* oauth_login_provider and oauth_register_provider, if set
    identity,  \* the person analytics attributes events to
    said,      \* user_logged_in and user_registered of a provider, counted
    moves, clicks

counters == <<moves, clicks>>
account == <<members, session>>
analytics == <<flags, identity, said>>
view == <<place, broken>>
pagesVars == <<account, view, mounts, socials, analytics, counters>>

(* The home page, and the provider's, await nothing. *)
Mounted(n, p) ==
    {[n |-> n, page |-> q, step |-> "session", on |-> TRUE, user |-> NoUser] :
        q \in {p} \ {"home", "provider"}}

(* The container is emptied: forms and dashboards go, continuations do not. *)
Emptied(kept) ==
    {[m EXCEPT !.on = FALSE] : m \in {k \in kept : k.step \notin {"form", "shown"}}}

(* handleRoute. *)
Route(p, kept) ==
    /\ moves < MaxMoves
    /\ moves' = moves + 1
    /\ place' = p /\ broken' = FALSE
    /\ mounts' = Emptied(kept) \cup Mounted(moves', p)

(* A full load: everything that waits is forgotten. *)
Load(p) ==
    /\ Route(p, {})
    /\ socials' = {}

(* A page is opened by a new visitor, or by one the cookie and analytics know
   from before. *)
PagesInit ==
    /\ members \in SUBSET People
    /\ session \in members \cup {NoUser}
    /\ place \in Places \ {"provider"} /\ broken = FALSE
    /\ mounts = Mounted(0, place)
    /\ socials = {}
    /\ flags = {} /\ identity = session
    /\ said = [login |-> 0, register |-> 0]
    /\ moves = 0 /\ clicks = 0

To(m, step) == (mounts \ {m}) \cup {[m EXCEPT !.step = step]}

Without(m) == mounts \ {m}

-----------------------------------------------------------------------------
(* The visitor. *)

(* A link, Back, or Forward. *)
Follow(p) ==
    /\ place # "provider" /\ p # "provider"
    /\ Route(p, mounts)
    /\ UNCHANGED <<account, socials, analytics, clicks>>

(* The address bar, or Reload. *)
Visit(p) ==
    /\ p # "provider"
    /\ Load(p)
    /\ UNCHANGED <<account, analytics, clicks>>

-----------------------------------------------------------------------------
(* Signing in and up. *)

(* renderLoginPage and renderRegisterPage. *)
MountForm(m) ==
    /\ m.page \in Forms /\ m.step = "session"
    /\ \/ session # NoUser /\ Route("dashboard", Without(m))
       \/ /\ session = NoUser \/ Failures
          /\ mounts' = To([m EXCEPT !.on = TRUE], "form") \ {m}
          /\ UNCHANGED <<view, moves>>
    /\ UNCHANGED <<account, socials, analytics, clicks>>

(* The form is submitted; its fields and its button are disabled. *)
Submit(m) ==
    /\ m.step = "form"
    /\ mounts' = To(m, "submitted")
    /\ UNCHANGED <<account, view, socials, analytics, counters>>

Rejected(m) == IF m.on THEN To(m, "form") ELSE Without(m)

SignInAnswered(m) ==
    /\ m.page = "login" /\ m.step = "submitted"
    /\ \/ \E u \in members :
            /\ session' = u
            /\ mounts' = To(m, "signed in")
       \/ mounts' = Rejected(m) /\ UNCHANGED session
    /\ UNCHANGED <<members, view, socials, analytics, counters>>

(* getSession, and identifyUser if it says who; then the dashboard. *)
SignedIn(m) ==
    /\ m.page = "login" /\ m.step = "signed in"
    /\ \/ session # NoUser /\ identity' = session
       \/ (session = NoUser \/ Failures) /\ UNCHANGED identity
    /\ Route("dashboard", Without(m))
    /\ UNCHANGED <<account, socials, flags, said, clicks>>

(* The library goes to the callbackURL itself, before the page goes on. *)
SignedInRedirected(m) ==
    /\ m.page = "login" /\ m.step = "signed in"
    /\ Load("dashboard")
    /\ UNCHANGED <<account, analytics, clicks>>

(* "Check your email", and no session. *)
SignUpAnswered(m) ==
    /\ m.page = "register" /\ m.step = "submitted"
    /\ \/ \E u \in People \ members :
            members' = members \cup {u} /\ mounts' = Without(m)
       \/ mounts' = Rejected(m) /\ UNCHANGED members
    /\ UNCHANGED <<session, view, socials, analytics, counters>>

(* The flag is set before the redirect. *)
ClickProvider(m) ==
    /\ m.step \in {"form", "submitted", "signed in"} /\ m.on /\ m.page \in Forms
    /\ clicks < MaxClicks
    /\ clicks' = clicks + 1
    /\ flags' = flags \cup {m.page}
    /\ socials' = socials \cup {m.page}
    /\ UNCHANGED <<account, view, mounts, identity, said, moves>>

RedirectToProvider(p) ==
    /\ Load("provider")
    /\ UNCHANGED <<account, analytics, clicks>>

(* login.ts takes the flag back and loads the page again; register.ts does not
   wait for the answer. *)
ProviderUnavailable(p) ==
    /\ Failures
    /\ \/ /\ p = "login"
          /\ flags' = flags \ {p}
          /\ Load("login")
       \/ /\ p = "register"
          /\ socials' = socials \ {p}
          /\ UNCHANGED <<view, mounts, flags, moves>>
    /\ UNCHANGED <<account, identity, said, clicks>>

(* callbackURL: to the provider it is one to sign up as it is to sign in. *)
ProviderAccepts(u) ==
    /\ place = "provider"
    /\ session' = u
    /\ members' = members \cup {u}
    /\ Load("dashboard")
    /\ UNCHANGED <<analytics, clicks>>

(* errorCallbackURL. *)
ProviderRefuses(p) ==
    /\ place = "provider" /\ p \in Forms
    /\ Load(p)
    /\ UNCHANGED <<account, analytics, clicks>>

-----------------------------------------------------------------------------
(* The dashboard. *)

MountDashboard(m) ==
    /\ m.page = "dashboard" /\ m.step = "session"
    /\ \/ /\ m.on /\ session # NoUser
          /\ mounts' = To([m EXCEPT !.user = session], "me") \ {m}
          /\ UNCHANGED <<view, moves>>
       \/ /\ Failures \/ (m.on /\ session = NoUser)
          /\ Route("login", Without(m))
    /\ UNCHANGED <<account, socials, analytics, clicks>>

(* "Loading" is no longer in the container it is to be removed from: the router
   takes the exception for a page that cannot be loaded. *)
MountTooLate(m) ==
    /\ m.page = "dashboard" /\ m.step = "session" /\ ~m.on
    /\ broken' = TRUE
    /\ mounts' = Emptied(Without(m))
    /\ UNCHANGED <<account, place, socials, analytics, counters>>

(* Faulty: the flags are read and left. *)
LeaveFlags ==
    /\ said' = [login |-> said.login + (IF "login" \in flags THEN 1 ELSE 0),
                register |-> said.register + (IF "register" \in flags THEN 1 ELSE 0)]
    /\ UNCHANGED flags

(* The flags are taken, and said. *)
TakeFlags ==
    /\ said' = [login |-> said.login + (IF "login" \in flags THEN 1 ELSE 0),
                register |-> said.register + (IF "register" \in flags THEN 1 ELSE 0)]
    /\ flags' = {}

(* getMe is answered or not: the dashboard is built, where the page now is. *)
ShowDashboard(m) ==
    /\ m.page = "dashboard" /\ m.step = "me"
    /\ identity' = m.user
    /\ TakeFlags
    /\ mounts' = To([m EXCEPT !.on = TRUE], "shown") \ {m}
    /\ UNCHANGED <<account, view, socials, counters>>

LogOut(m) ==
    /\ m.step = "shown"
    /\ mounts' = To(m, "signing out")
    /\ UNCHANGED <<account, view, socials, analytics, counters>>

(* The session is deleted, or the answer is an error, which is not looked at. *)
SignOutAnswered(m) ==
    /\ m.step = "signing out"
    /\ \/ session' = NoUser
       \/ Failures /\ UNCHANGED session
    /\ mounts' = To(m, "signed out")
    /\ UNCHANGED <<members, view, socials, analytics, counters>>

(* resetAnalyticsIdentity; home. *)
SignedOut(m) ==
    /\ m.step = "signed out"
    /\ identity' = NoUser
    /\ Route("home", Without(m))
    /\ UNCHANGED <<account, socials, flags, said, clicks>>

OfMount(m) ==
    \/ MountForm(m) \/ Submit(m) \/ SignInAnswered(m) \/ SignedIn(m)
    \/ SignedInRedirected(m) \/ SignUpAnswered(m) \/ ClickProvider(m)
    \/ MountDashboard(m) \/ MountTooLate(m) \/ ShowDashboard(m)
    \/ LogOut(m) \/ SignOutAnswered(m) \/ SignedOut(m)

PagesNext ==
    \/ \E p \in Places : Follow(p) \/ Visit(p) \/ ProviderRefuses(p)
    \/ \E m \in mounts : OfMount(m)
    \/ \E p \in socials : RedirectToProvider(p) \/ ProviderUnavailable(p)
    \/ \E u \in People : ProviderAccepts(u)

PagesSpec == PagesInit /\ [][PagesNext]_pagesVars

-----------------------------------------------------------------------------
(* Properties. *)

(* dashboard.ts: the flag is deleted "to prevent it from firing again": however
   many dashboards are mounted at a time, a choice of a provider is said once
   at most. *)
SaidOncePerClick == said.login + said.register <= clicks

==============================================================================
