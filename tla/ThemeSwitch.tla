----------------------------- MODULE ThemeSwitch -----------------------------
(***************************************************************************)
(* The theme of a tab: theme.ts, retro-theme.ts, the dropdown of           *)
(* theme-toggle.ts and the start of app.ts, with VITE_RETRO_ENABLED.  The  *)
(* committed theme is in localStorage, which other tabs write too; what    *)
(* the document shows is changed by clicks, by a preview under the         *)
(* pointer, by the answers of /api/me and by storage events.               *)
(***************************************************************************)
EXTENDS Integers, Sequences

CONSTANTS Themes,      \* retro themes
          WebFont,     \* those whose font is fetched before it is applied
          AtStart,     \* what localStorage may hold when the tab is opened
          NoTheme,
          MaxAsked,    \* requests for /api/me
          MaxOthers    \* changes made in other tabs

ThemeAssumption ==
    /\ WebFont \subseteq Themes /\ NoTheme \notin Themes
    /\ AtStart \subseteq Themes \cup {NoTheme}
    /\ MaxAsked \in Nat /\ MaxOthers \in Nat

Preference == {"light", "dark", "system"}

VARIABLES
    stored,  \* 'retro-theme' of localStorage
    pref,    \* 'theme' of localStorage
    osDark,
    events,  \* storage events on their way to this tab
    others,  \* how often other tabs changed the theme
    shown,   \* what the document shows: a record
    imports, \* themes whose font is being fetched
    loaded,  \* retroFontLoaded
    started, \* how far the start is: "engine", "layout", "dropdown"
    panel,   \* [open |-> BOOLEAN, over |-> item under the pointer, timer |-> hoverTimer]
    plan,    \* the account of the session: "none", "free", "pro"
    cached,  \* cachedIsPro: "unknown", "yes", "no"
    asks,    \* requests for /api/me that are under way
    asked,
    overtaken, \* history: this tab committed a theme while events were on their
               \* way, and no other has committed one since
    untold     \* history: another tab changed the base mode, and this one has not
               \* applied its own since

document == <<shown, imports, loaded>>
history == <<overtaken, untold>>
storage == <<stored, pref, events, others, history>>
themeVars == <<storage, osDark, document, started, panel, plan, cached, asks, asked>>

IsDark(p, os) == p = "dark" \/ (p = "system" /\ os)

Plain == [colors |-> NoTheme, effects |-> NoTheme, font |-> NoTheme,
          nav |-> NoTheme, icon |-> NoTheme, dark |-> FALSE]

ThemeInit ==
    /\ stored \in AtStart
    /\ pref \in Preference /\ osDark \in BOOLEAN
    /\ events = <<>> /\ others = 0
    /\ shown = [Plain EXCEPT !.dark = IsDark(pref, osDark)]
    /\ imports = {} /\ loaded = FALSE
    /\ started = "no"
    /\ panel = [open |-> FALSE, over |-> NoTheme, timer |-> NoTheme]
    /\ plan \in {"none", "free", "pro"}
    /\ cached = "unknown" /\ asks = {} /\ asked = 0
    /\ overtaken = FALSE /\ untold = FALSE

-----------------------------------------------------------------------------
(* retro-theme.ts *)

(* loadRetroFont: the first theme with the web font waits for it; those that
   come after do not. *)
LoadRetroFont(id, page) ==
    IF id \in WebFont /\ ~loaded
    THEN /\ loaded' = TRUE
         /\ imports' = imports \cup {id}
         /\ shown' = page
    ELSE /\ shown' = [page EXCEPT !.font = id]
         /\ UNCHANGED <<imports, loaded>>

(* The listeners of retrothemechange: header, tab bar and dropdown. *)
Notified(page, id, current) ==
    IF started \in {"no", "engine"} THEN page
    ELSE [page EXCEPT !.nav = id,
                      !.icon = IF started = "dropdown" THEN current ELSE NoTheme]

(* applyRetroTheme: colours, background, attribute, effects, font, event.  The
   header and the tab bar take the theme of the event, the button's icon the
   current one of localStorage. *)
ApplyRetroTheme(id, current) ==
    LoadRetroFont(id, Notified([shown EXCEPT !.colors = id, !.effects = id],
                               id, current))

(* clearRetroTheme, with applyTheme at its end. *)
Cleared(page, p) ==
    [page EXCEPT !.colors = NoTheme, !.effects = NoTheme, !.font = NoTheme,
                 !.dark = IsDark(p, osDark)]

FontArrives ==
    /\ \E id \in imports :
        /\ imports' = imports \ {id}
        /\ shown' = [shown EXCEPT !.font = id]
    /\ UNCHANGED <<storage, osDark, loaded, started, panel, plan, cached,
                   asks, asked>>

(* initRetroThemeListener *)
StorageEvent ==
    /\ started # "no"
    /\ events # <<>>
    /\ events' = Tail(events)
    /\ IF Head(events) = NoTheme
       THEN /\ shown' = Cleared(shown, pref)
            /\ untold' = FALSE
            /\ UNCHANGED <<imports, loaded, cached>>
       ELSE /\ ApplyRetroTheme(Head(events), stored)
            /\ cached' = "unknown"
            /\ UNCHANGED untold
    /\ UNCHANGED <<stored, pref, osDark, others, overtaken, started, panel, plan,
                   asks, asked>>

(* Another tab commits a theme, or a base mode, which takes the theme away once
   that tab's dropdown has its themes.  The listener that there is hears of the
   theme; of a base mode there is none. *)
OtherTab ==
    /\ others < MaxOthers
    /\ others' = others + 1
    /\ \/ stored' \in Themes \ {stored} /\ UNCHANGED pref
       \/ stored' \in {stored, NoTheme} /\ pref' \in Preference
    /\ events' = IF stored' # stored /\ started # "no"
                 THEN Append(events, stored') ELSE events
    /\ overtaken' = (overtaken /\ stored' = stored)
    /\ untold' = (untold \/ pref' # pref)
    /\ UNCHANGED <<document, osDark, started, panel, plan, cached, asks, asked>>

(* initThemeListener *)
SystemChanges ==
    /\ osDark' = ~osDark
    /\ shown' = IF pref = "system" THEN [shown EXCEPT !.dark = osDark'] ELSE shown
    /\ untold' = (untold /\ pref # "system")
    /\ UNCHANGED <<stored, pref, events, others, overtaken, imports, loaded, started,
                   panel, plan, cached, asks, asked>>

-----------------------------------------------------------------------------
(* app.ts: the engine restores the theme, then the layout is made, then the
   dropdown has its themes. *)

Start ==
    /\ started = "no"
    /\ started' = "engine"
    /\ IF stored = NoTheme THEN UNCHANGED document ELSE ApplyRetroTheme(stored, stored)
    /\ UNCHANGED <<storage, osDark, panel, plan, cached, asks, asked>>

LayoutMade ==
    /\ started = "engine"
    /\ started' = "layout"
    /\ UNCHANGED <<storage, document, osDark, panel, plan, cached, asks, asked>>

DropdownFilled ==
    /\ started = "layout"
    /\ started' = "dropdown"
    /\ UNCHANGED <<storage, document, osDark, panel, plan, cached, asks, asked>>

-----------------------------------------------------------------------------
(* theme-toggle.ts *)

(* The colours that closePanel and mouseleave go back to. *)
Reverted(page, theme) ==
    IF started = "dropdown" THEN [page EXCEPT !.colors = theme] ELSE page

ClosedPanel == [open |-> FALSE, over |-> NoTheme, timer |-> NoTheme]

Ask(theme) ==
    /\ asked < MaxAsked
    /\ asked' = asked + 1
    /\ asks' = asks \cup {[n |-> asked', for |-> theme, answer |-> "none"]}

(* openPanel: updateLockIcons asks whether the account is a Pro. *)
OpenPanel ==
    /\ started \in {"layout", "dropdown"} /\ ~panel.open
    /\ panel' = [panel EXCEPT !.open = TRUE]
    /\ IF cached = "unknown" THEN Ask(NoTheme) ELSE UNCHANGED <<asks, asked>>
    /\ UNCHANGED <<storage, document, osDark, started, plan, cached>>

(* The button, Escape, and a click outside. *)
ClosePanel ==
    /\ panel.open
    /\ panel' = ClosedPanel
    /\ shown' = Reverted(shown, stored)
    /\ UNCHANGED <<storage, imports, loaded, osDark, started, plan, cached,
                   asks, asked>>

MouseEnter ==
    /\ panel.open /\ panel.over = NoTheme /\ started = "dropdown"
    /\ \E id \in Themes : panel' = [panel EXCEPT !.over = id, !.timer = id]
    /\ UNCHANGED <<storage, document, osDark, started, plan, cached, asks, asked>>

(* After 50 ms. *)
Preview ==
    /\ panel.timer # NoTheme
    /\ shown' = [shown EXCEPT !.colors = panel.timer]
    /\ panel' = [panel EXCEPT !.timer = NoTheme]
    /\ UNCHANGED <<storage, imports, loaded, osDark, started, plan, cached,
                   asks, asked>>

(* Faulty: the timer of the preview is not cleared. *)
MouseLeaveOnly ==
    /\ panel.over # NoTheme
    /\ panel' = [panel EXCEPT !.over = NoTheme]
    /\ shown' = Reverted(shown, stored)
    /\ UNCHANGED <<storage, imports, loaded, osDark, started, plan, cached,
                   asks, asked>>

MouseLeave ==
    /\ panel.over # NoTheme
    /\ panel' = [panel EXCEPT !.over = NoTheme, !.timer = NoTheme]
    /\ shown' = Reverted(shown, stored)
    /\ UNCHANGED <<storage, imports, loaded, osDark, started, plan, cached,
                   asks, asked>>

ClickBase ==
    /\ panel.open
    /\ pref' \in Preference
    /\ untold' = FALSE
    /\ panel' = ClosedPanel
    /\ IF started = "dropdown"
       THEN /\ stored' = NoTheme
            /\ shown' = [Cleared(shown, pref') EXCEPT !.nav = NoTheme, !.icon = NoTheme]
            /\ cached' = "unknown"
            /\ overtaken' = (events # <<>>)
       ELSE /\ shown' = [shown EXCEPT !.dark = IsDark(pref', osDark)]
            /\ UNCHANGED <<stored, cached, overtaken>>
    /\ UNCHANGED <<events, others, imports, loaded, osDark, started, plan,
                   asks, asked>>

(* setRetroTheme(theme.id); closePanel(); or closePanel(); navigate('/pricing'). *)
Decide(theme, isPro) ==
    /\ panel' = ClosedPanel
    /\ IF isPro
       THEN /\ stored' = theme
            /\ ApplyRetroTheme(theme, theme)
            /\ cached' = "unknown"
            /\ overtaken' = (events # <<>>)
       ELSE /\ shown' = Reverted(shown, stored)
            /\ UNCHANGED <<stored, imports, loaded, overtaken>>

ClickTheme ==
    /\ panel.over # NoTheme
    /\ IF cached = "unknown"
       THEN Ask(panel.over) /\ UNCHANGED <<stored, document, panel, cached, overtaken>>
       ELSE /\ Decide(panel.over, cached = "yes")
            /\ cached = "no" => UNCHANGED cached
            /\ UNCHANGED <<asks, asked>>
    /\ UNCHANGED <<pref, events, others, untold, osDark, started, plan>>

(* GET /api/me, or 401; a network error counts as free. *)
ServeTier ==
    /\ \E a \in asks :
        /\ a.answer = "none"
        /\ \E answer \in {"yes", "no"} :
            /\ answer = "yes" => plan = "pro"
            /\ asks' = (asks \ {a}) \cup {[a EXCEPT !.answer = answer]}
    /\ UNCHANGED <<storage, document, osDark, started, panel, plan, cached, asked>>

TierAnswered ==
    /\ \E a \in asks :
        /\ a.answer # "none"
        /\ asks' = asks \ {a}
        /\ IF a.for = NoTheme
           THEN cached' = a.answer /\ UNCHANGED <<stored, document, panel, overtaken>>
           ELSE /\ Decide(a.for, a.answer = "yes")
                /\ a.answer = "no" => cached' = "no"
    /\ UNCHANGED <<pref, events, others, untold, osDark, started, plan, asked>>

(* Signing in, here or in another tab, and out: what this page has loaded stays. *)
SessionChanges ==
    /\ plan' \in IF plan = "none" THEN {"free", "pro"} ELSE {"none"}
    /\ UNCHANGED <<storage, document, osDark, started, panel, cached, asks, asked>>

ThemeNext ==
    \/ FontArrives \/ StorageEvent \/ OtherTab \/ SystemChanges
    \/ Start \/ LayoutMade \/ DropdownFilled
    \/ OpenPanel \/ ClosePanel \/ MouseEnter \/ Preview \/ MouseLeave
    \/ ClickBase \/ ClickTheme \/ ServeTier \/ TierAnswered \/ SessionChanges

ThemeSpec == ThemeInit /\ [][ThemeNext]_themeVars

-----------------------------------------------------------------------------
(* Properties. *)

Settled == started # "no" /\ events = <<>>

(* With no event on its way the document has the effects that localStorage has,
   and unless a theme is previewed the colours, whatever previews, late answers
   and other tabs came before: except that an event overtook a theme committed
   here.  And it has the base mode of localStorage, except that another tab
   changed that one, which no listener of theme.ts hears of. *)
ShownIsCommitted ==
    /\ Settled /\ ~ overtaken =>
        /\ shown.effects = stored
        /\ panel.over = NoTheme => shown.colors = stored
    /\ ~ untold => shown.dark = IsDark(pref, osDark)

(* retro-theme.ts:185: "Listen for localStorage changes from other tabs and sync
   retro theme." *)
TabsInSync == Settled => shown.effects = stored

==============================================================================
