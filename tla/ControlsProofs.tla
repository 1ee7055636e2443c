---------------------------- MODULE ControlsProofs ----------------------------
(***************************************************************************)
(* What two controls of the pages show is what they stand for: the theme   *)
(* dropdown, while other tabs and late answers change the theme, and the   *)
(* password field of the protection panel.                                 *)
(***************************************************************************)
EXTENDS ThemeSwitch, ProtectionPanel, SequenceTheorems, FiniteSetTheorems, TLAPS

(* The theme: what the document shows of it, and what is under way. *)
Theme == Themes \cup {NoTheme}

Document == [colors : Theme, effects : Theme, font : Theme, nav : Theme, icon : Theme,
             dark : BOOLEAN]

Question == [n : Int, for : Theme, answer : {"none", "yes", "no"}]

ThemeTypeOK ==
    /\ stored \in Theme /\ pref \in Preference /\ osDark \in BOOLEAN
    /\ events \in Seq(Theme)
    /\ shown \in Document
    /\ imports \subseteq Themes
    /\ started \in {"no", "engine", "layout", "dropdown"}
    /\ panel \in [open : BOOLEAN, over : Theme, timer : Theme]
    /\ asks \subseteq Question /\ asked \in Int
    /\ overtaken \in BOOLEAN /\ untold \in BOOLEAN

(* The dropdown is used once it is there, and previews what is under the pointer. *)
PanelInOrder ==
    /\ started = "no" => events = <<>> /\ asks = {} /\ ~ panel.open
    /\ panel.over # NoTheme => started = "dropdown"
    /\ panel.timer \in {NoTheme, panel.over}

(* The last event is of the theme that is stored, unless one overtakes it; with
   none on its way the document has caught up. *)
LastEventIsStored == events # <<>> /\ ~ overtaken => events[Len(events)] = stored

(* Before the engine has started the document is plain. *)
CaughtUp(theme) ==
    /\ shown.effects = theme
    /\ panel.over = NoTheme => shown.colors = theme

Catching ==
    IF started = "no" THEN CaughtUp(NoTheme)
                      ELSE events = <<>> /\ ~ overtaken => CaughtUp(stored)

(* Nothing but another tab's change keeps the document from its base mode. *)
DarkOrUntold == ~ untold => shown.dark = IsDark(pref, osDark)

ThemeInv ==
    ThemeTypeOK /\ PanelInOrder /\ LastEventIsStored /\ Catching /\ DarkOrUntold

LEMMA ThemeInitially == ThemeAssumption /\ ThemeInit => ThemeInv
  <1> SUFFICES ASSUME ThemeAssumption, ThemeInit  PROVE ThemeInv
    OBVIOUS
  <1>1. /\ stored \in Theme /\ pref \in Preference /\ osDark \in BOOLEAN /\ events = <<>>
        /\ imports = {} /\ started = "no" /\ asks = {} /\ asked = 0
        /\ panel = [open |-> FALSE, over |-> NoTheme, timer |-> NoTheme]
        /\ shown = [Plain EXCEPT !.dark = IsDark(pref, osDark)]
        /\ overtaken \in BOOLEAN /\ untold \in BOOLEAN
    BY DEF ThemeAssumption, ThemeInit, Theme
  <1>2. shown \in Document /\ shown.colors = NoTheme /\ shown.effects = NoTheme
        /\ shown.dark = IsDark(pref, osDark)
    BY <1>1 DEF Plain, Document, Theme, IsDark
  <1>3. ThemeTypeOK
    BY <1>1, <1>2 DEF ThemeTypeOK, Theme
  <1> QED  BY <1>1, <1>2, <1>3 DEF ThemeInv, PanelInOrder, LastEventIsStored, Catching, CaughtUp, DarkOrUntold

(* What the engine does to the document. *)
LEMMA Applied ==
  ASSUME ThemeAssumption, ThemeTypeOK, NEW id \in Theme, NEW current \in Theme,
         ApplyRetroTheme(id, current)
  PROVE  /\ shown' \in Document /\ imports' \subseteq Themes
         /\ shown'.colors = id /\ shown'.effects = id /\ shown'.dark = shown.dark
  <1> DEFINE page == Notified([shown EXCEPT !.colors = id, !.effects = id], id, current)
  <1>1. /\ page \in Document
        /\ page.colors = id /\ page.effects = id /\ page.dark = shown.dark
    BY DEF ThemeTypeOK, Document, Notified, Theme
  <1>2. shown' = page \/ shown' = [page EXCEPT !.font = id]
    BY DEF ApplyRetroTheme, LoadRetroFont
  <1>3. imports' \subseteq Themes
    BY DEF ApplyRetroTheme, LoadRetroFont, ThemeAssumption, ThemeTypeOK
  <1> HIDE DEF page
  <1> QED  BY <1>1, <1>2, <1>3 DEF Document

LEMMA ClearedPage ==
  ASSUME ThemeTypeOK, NEW p \in Preference
  PROVE  /\ Cleared(shown, p) \in Document
         /\ Cleared(shown, p).colors = NoTheme /\ Cleared(shown, p).effects = NoTheme
         /\ Cleared(shown, p).dark = IsDark(p, osDark)
  BY DEF ThemeTypeOK, Document, Cleared, Theme, IsDark

LEMMA RevertedPage ==
  ASSUME ThemeTypeOK
  PROVE  /\ Reverted(shown, stored) \in Document
         /\ Reverted(shown, stored).effects = shown.effects
         /\ Reverted(shown, stored).dark = shown.dark
         /\ Reverted(shown, stored).colors = IF started = "dropdown" THEN stored ELSE shown.colors
  BY DEF ThemeTypeOK, Document, Reverted

(* A theme is committed here: it may be overtaken by what is on its way. *)
LEMMA Committed ==
  ASSUME ThemeAssumption, ThemeInv, started # "no", NEW theme \in Theme, NEW isPro,
         Decide(theme, isPro),
         UNCHANGED <<pref, osDark, events, started, untold>>,
         asks' \subseteq Question, asked' \in Int
  PROVE  ThemeInv'
  <1>1. /\ ThemeTypeOK /\ PanelInOrder /\ Catching /\ DarkOrUntold /\ LastEventIsStored
        /\ panel'.over = NoTheme /\ panel'.timer = NoTheme
        /\ panel' \in [open : BOOLEAN, over : Theme, timer : Theme]
    BY DEF ThemeInv, Decide, ClosedPanel, Theme
  <1>2. PanelInOrder'
    BY <1>1 DEF PanelInOrder
  <1>3. CASE isPro
    <2>1. /\ stored' = theme /\ ApplyRetroTheme(theme, theme)
          /\ overtaken' = (events # <<>>)
      BY <1>3 DEF Decide
    <2>2. /\ shown' \in Document /\ imports' \subseteq Themes
          /\ shown'.colors = theme /\ shown'.effects = theme /\ shown'.dark = shown.dark
      BY <1>1, <2>1, Applied
    <2>3. ThemeTypeOK'
      BY <1>1, <2>1, <2>2 DEF ThemeTypeOK
    <2> QED  BY <1>1, <1>2, <2>1, <2>2, <2>3 DEF ThemeInv, LastEventIsStored, Catching, CaughtUp, DarkOrUntold
  <1>4. CASE ~ isPro
    <2>1. shown' = Reverted(shown, stored) /\ UNCHANGED <<stored, imports, loaded, overtaken>>
      BY <1>4 DEF Decide
    <2>2. ThemeTypeOK'
      BY <1>1, <2>1, RevertedPage DEF ThemeTypeOK
    <2>3. Catching'
      BY <1>1, <2>1, RevertedPage DEF Catching, CaughtUp, PanelInOrder
    <2> QED  BY <1>1, <1>2, <2>1, <2>2, <2>3, RevertedPage DEF ThemeInv, LastEventIsStored, DarkOrUntold
  <1> QED  BY <1>3, <1>4
(* Events: the first is taken, another one comes. *)
LEMMA EventTaken ==
  ASSUME events \in Seq(Theme), events # <<>>, events' = Tail(events)
  PROVE  /\ events' \in Seq(Theme) /\ Head(events) \in Theme /\ Head(events) = events[1]
         /\ Len(events') = Len(events) - 1 /\ Len(events) \in Nat \ {0}
         /\ \A i \in 1 .. Len(events') : events'[i] = events[i + 1]
         /\ (events' = <<>>) <=> (Len(events) = 1)
  <1>1. /\ events' \in Seq(Theme) /\ Head(events) \in Theme /\ Head(events) = events[1]
        /\ Len(events) \in Nat \ {0}
    OBVIOUS
  <1>2. Len(events') = Len(events) - 1
    OBVIOUS
  <1>3. \A i \in 1 .. Len(events') : events'[i] = events[i + 1]
    OBVIOUS
  <1>4. (events' = <<>>) <=> (Len(events') = 0)
    BY <1>1, EmptySeq
  <1> QED  BY <1>1, <1>2, <1>3, <1>4

LEMMA StorageEventStep ==
  ASSUME ThemeAssumption, ThemeInv, StorageEvent
  PROVE  ThemeInv'
  <1>1. /\ ThemeTypeOK /\ PanelInOrder /\ Catching /\ DarkOrUntold /\ LastEventIsStored
        /\ started # "no" /\ events # <<>> /\ events' = Tail(events)
        /\ UNCHANGED <<stored, pref, osDark, started, panel, asks, asked, overtaken>>
        /\ untold' = IF Head(events) = NoTheme THEN FALSE ELSE untold
    BY DEF ThemeInv, StorageEvent
  <1> DEFINE head == Head(events)
  <1>2. /\ events \in Seq(Theme) /\ events' \in Seq(Theme) /\ head \in Theme /\ head = events[1]
        /\ Len(events') = Len(events) - 1 /\ Len(events) \in Nat \ {0}
        /\ \A i \in 1 .. Len(events') : events'[i] = events[i + 1]
        /\ (events' = <<>>) <=> (Len(events) = 1)
    BY <1>1, EventTaken DEF ThemeTypeOK
  <1>3. /\ shown' \in Document /\ imports' \subseteq Themes
        /\ shown'.colors = head /\ shown'.effects = head
        /\ shown'.dark = IF head = NoTheme THEN IsDark(pref, osDark) ELSE shown.dark
    <2>1. CASE head = NoTheme
      BY <1>1, <2>1, ClearedPage DEF StorageEvent, ThemeTypeOK
    <2>2. CASE head # NoTheme
      BY <1>1, <1>2, <2>2, Applied DEF StorageEvent, ThemeTypeOK
    <2> QED  BY <2>1, <2>2
  <1> HIDE DEF head
  <1>4. ThemeTypeOK'
    BY <1>1, <1>2, <1>3 DEF ThemeTypeOK
  <1>5. LastEventIsStored'
    <2>1. CASE Len(events) = 1
      BY <1>2, <2>1 DEF LastEventIsStored
    <2>2. CASE Len(events) # 1
      <3>1. Len(events') \in 1 .. Len(events') /\ Len(events') + 1 = Len(events)
        BY <1>2, <2>2
      <3>2. events'[Len(events')] = events[Len(events)]
        BY <1>2, <3>1
      <3> QED  BY <1>1, <3>2 DEF LastEventIsStored
    <2> QED  BY <2>1, <2>2
  <1>6. Catching'
    <2>1. events' = <<>> /\ ~ overtaken => head = stored
      BY <1>1, <1>2 DEF LastEventIsStored
    <2> QED  BY <1>1, <1>3, <2>1 DEF Catching, CaughtUp
  <1>7. DarkOrUntold'
    <2>1. untold' = IF head = NoTheme THEN FALSE ELSE untold
      BY <1>1 DEF head
    <2>2. CASE head = NoTheme
      BY <1>1, <1>3, <2>2 DEF DarkOrUntold, IsDark
    <2>3. CASE head # NoTheme
      BY <1>1, <1>3, <2>1, <2>3 DEF DarkOrUntold, IsDark
    <2> QED  BY <2>2, <2>3
  <1>8. PanelInOrder'
    BY <1>1 DEF PanelInOrder
  <1> QED  BY <1>4, <1>5, <1>6, <1>7, <1>8 DEF ThemeInv

LEMMA OtherTabStep ==
  ASSUME ThemeAssumption, ThemeInv, OtherTab
  PROVE  ThemeInv'
  <1>1. /\ ThemeTypeOK /\ PanelInOrder /\ Catching /\ DarkOrUntold /\ LastEventIsStored
        /\ events' = IF stored' # stored /\ started # "no" THEN Append(events, stored') ELSE events
        /\ overtaken' = (overtaken /\ stored' = stored)
        /\ untold' = (untold \/ pref' # pref)
        /\ UNCHANGED <<shown, imports, osDark, started, panel, asks, asked>>
    BY DEF ThemeInv, OtherTab, document
  <1>2. stored' \in Theme /\ pref' \in Preference
    BY <1>1 DEF OtherTab, Theme, ThemeTypeOK
  <1>3. ASSUME stored' # stored, started # "no"  PROVE LastEventIsStored' /\ Catching'
    <2>1. /\ events' \in Seq(Theme) /\ Len(events') = Len(events) + 1 /\ Len(events) \in Nat
          /\ events'[Len(events')] = stored'
      BY <1>1, <1>2, <1>3 DEF ThemeTypeOK
    <2>2. events' # <<>>
      BY <2>1
    <2> QED  BY <1>1, <1>3, <2>1, <2>2 DEF LastEventIsStored, Catching
  <1>4. ASSUME stored' = stored \/ started = "no"  PROVE LastEventIsStored' /\ Catching'
    <2>1. events' = events
      BY <1>1, <1>4
    <2>2. started = "no" => events = <<>>
      BY <1>1 DEF PanelInOrder
    <2>3. LastEventIsStored'
      BY <1>1, <1>4, <2>1, <2>2 DEF LastEventIsStored
    <2>4. Catching'
      BY <1>1, <1>4, <2>1 DEF Catching, CaughtUp
    <2> QED  BY <2>3, <2>4
  <1>5. events' \in Seq(Theme) /\ (started = "no" => events' = events)
    BY <1>1, <1>2 DEF ThemeTypeOK
  <1>6. ThemeTypeOK' /\ PanelInOrder'
    BY <1>1, <1>2, <1>5 DEF ThemeTypeOK, PanelInOrder
  <1>7. DarkOrUntold'
    BY <1>1 DEF DarkOrUntold, IsDark
  <1> QED  BY <1>3, <1>4, <1>6, <1>7 DEF ThemeInv

LEMMA SystemStep ==
  ASSUME ThemeInv, SystemChanges
  PROVE  ThemeInv'
  <1>1. /\ ThemeTypeOK /\ PanelInOrder /\ LastEventIsStored /\ Catching /\ DarkOrUntold
        /\ UNCHANGED <<stored, pref, events, imports, started, panel, asks, asked, overtaken>>
        /\ osDark' = ~ osDark
        /\ untold' = (untold /\ pref # "system")
        /\ shown' = IF pref = "system" THEN [shown EXCEPT !.dark = osDark'] ELSE shown
    BY DEF ThemeInv, SystemChanges, storage
  <1>2. /\ shown' \in Document /\ shown'.colors = shown.colors /\ shown'.effects = shown.effects
        /\ shown'.dark = IF pref = "system" THEN osDark' ELSE shown.dark
    BY <1>1 DEF ThemeTypeOK, Document
  <1>3. ThemeTypeOK' /\ PanelInOrder' /\ LastEventIsStored' /\ Catching'
    BY <1>1, <1>2 DEF ThemeTypeOK, PanelInOrder, LastEventIsStored, Catching, CaughtUp
  <1>4. DarkOrUntold'
    <2>1. CASE pref = "system"
      BY <1>1, <1>2, <2>1 DEF DarkOrUntold, IsDark
    <2>2. CASE pref # "system"
      <3>1. IsDark(pref, osDark)' <=> IsDark(pref, osDark)
        BY <1>1, <2>2 DEF IsDark
      <3>2. IsDark(pref, osDark) \in BOOLEAN /\ IsDark(pref, osDark)' \in BOOLEAN
        BY DEF IsDark
      <3> QED  BY <1>1, <1>2, <2>2, <3>1, <3>2 DEF DarkOrUntold
    <2> QED  BY <2>1, <2>2
  <1> QED  BY <1>3, <1>4 DEF ThemeInv

LEMMA StartStep ==
  ASSUME ThemeAssumption, ThemeInv, Start
  PROVE  ThemeInv'
  <1>1. /\ ThemeTypeOK /\ PanelInOrder /\ LastEventIsStored /\ Catching /\ DarkOrUntold
        /\ started = "no" /\ started' = "engine" /\ events = <<>>
        /\ UNCHANGED <<stored, pref, events, osDark, panel, asks, asked, overtaken, untold>>
    BY DEF ThemeInv, Start, storage, history, PanelInOrder
  <1>2. /\ shown' \in Document /\ imports' \subseteq Themes
        /\ shown'.effects = stored /\ shown'.dark = shown.dark
        /\ panel.over = NoTheme => shown'.colors = stored
    <2>1. CASE stored = NoTheme
      BY <1>1, <2>1 DEF Start, document, Catching, CaughtUp, ThemeTypeOK
    <2>2. CASE stored # NoTheme
      BY <1>1, <2>2, Applied DEF Start, ThemeTypeOK
    <2> QED  BY <2>1, <2>2
  <1>3. ThemeTypeOK' /\ PanelInOrder'
    BY <1>1, <1>2 DEF ThemeTypeOK, PanelInOrder
  <1> QED  BY <1>1, <1>2, <1>3 DEF ThemeInv, LastEventIsStored, Catching, CaughtUp, DarkOrUntold

(* The pointer and the panel. *)
LEMMA PointerStep ==
  ASSUME ThemeInv, ClosePanel \/ MouseEnter \/ Preview \/ MouseLeave
  PROVE  ThemeInv'
  <1>1. /\ ThemeTypeOK /\ PanelInOrder /\ LastEventIsStored /\ Catching /\ DarkOrUntold
        /\ UNCHANGED <<stored, pref, events, imports, osDark, started, asks, asked, overtaken,
                       untold>>
    BY DEF ThemeInv, ClosePanel, MouseEnter, Preview, MouseLeave, storage, history, document
  <1>2. CASE ClosePanel
    <2>1. panel.open /\ panel' = ClosedPanel /\ shown' = Reverted(shown, stored)
      BY <1>2 DEF ClosePanel
    <2>2. ThemeTypeOK' /\ PanelInOrder'
      BY <1>1, <2>1, RevertedPage DEF ThemeTypeOK, ClosedPanel, Theme, PanelInOrder
    <2>3. Catching'
      BY <1>1, <2>1, RevertedPage DEF Catching, CaughtUp, PanelInOrder, ClosedPanel
    <2> QED  BY <1>1, <2>1, <2>2, <2>3, RevertedPage DEF ThemeInv, LastEventIsStored, DarkOrUntold
  <1>3. CASE MouseEnter
    <2>1. PICK id \in Themes : panel' = [panel EXCEPT !.over = id, !.timer = id]
      BY <1>3 DEF MouseEnter
    <2>2. /\ panel' \in [open : BOOLEAN, over : Theme, timer : Theme]
          /\ panel'.over = id /\ panel'.timer = id /\ panel'.open = panel.open
      BY <1>1, <2>1 DEF ThemeTypeOK, Theme
    <2>3. panel.over = NoTheme /\ started = "dropdown" /\ shown' = shown
      BY <1>3 DEF MouseEnter, document
    <2>4. ThemeTypeOK' /\ PanelInOrder'
      BY <1>1, <2>2, <2>3 DEF ThemeTypeOK, PanelInOrder
    <2> QED  BY <1>1, <2>3, <2>4 DEF ThemeInv, LastEventIsStored, Catching, CaughtUp, DarkOrUntold
  <1>4. CASE Preview
    <2>1. /\ panel.timer # NoTheme /\ panel.over = panel.timer
          /\ shown' = [shown EXCEPT !.colors = panel.timer]
          /\ panel' = [panel EXCEPT !.timer = NoTheme]
      BY <1>1, <1>4 DEF Preview, PanelInOrder
    <2>2. /\ shown' \in Document /\ shown'.effects = shown.effects /\ shown'.dark = shown.dark
          /\ panel' \in [open : BOOLEAN, over : Theme, timer : Theme]
          /\ panel'.over = panel.over /\ panel'.timer = NoTheme /\ panel'.open = panel.open
      BY <1>1, <2>1 DEF ThemeTypeOK, Document, Theme
    <2>3. ThemeTypeOK' /\ PanelInOrder'
      BY <1>1, <2>2 DEF ThemeTypeOK, PanelInOrder
    <2>4. Catching'
      BY <1>1, <2>1, <2>2 DEF Catching, CaughtUp, PanelInOrder
    <2> QED  BY <1>1, <2>2, <2>3, <2>4 DEF ThemeInv, LastEventIsStored, DarkOrUntold
  <1>5. CASE MouseLeave
    <2>1. /\ started = "dropdown" /\ shown' = Reverted(shown, stored)
          /\ panel' = [panel EXCEPT !.over = NoTheme, !.timer = NoTheme]
      BY <1>1, <1>5 DEF MouseLeave, PanelInOrder
    <2>2. /\ panel' \in [open : BOOLEAN, over : Theme, timer : Theme]
          /\ panel'.over = NoTheme /\ panel'.timer = NoTheme /\ panel'.open = panel.open
      BY <1>1, <2>1 DEF ThemeTypeOK, Theme
    <2>3. ThemeTypeOK' /\ PanelInOrder'
      BY <1>1, <2>1, <2>2, RevertedPage DEF ThemeTypeOK, PanelInOrder
    <2>4. Catching'
      BY <1>1, <2>1, RevertedPage DEF Catching, CaughtUp
    <2> QED  BY <1>1, <2>1, <2>3, <2>4, RevertedPage DEF ThemeInv, LastEventIsStored, DarkOrUntold
  <1> QED  BY <1>2, <1>3, <1>4, <1>5

(* A question is asked, or answered by the server. *)
LEMMA AskStep ==
  ASSUME ThemeTypeOK, NEW theme \in Theme, Ask(theme)
  PROVE  asks' \subseteq Question /\ asked' \in Int
  BY DEF ThemeTypeOK, Ask, Question

LEMMA OpenPanelStep ==
  ASSUME ThemeInv, OpenPanel
  PROVE  ThemeInv'
  <1>1. /\ ThemeTypeOK /\ PanelInOrder /\ LastEventIsStored /\ Catching /\ DarkOrUntold
        /\ UNCHANGED <<stored, pref, events, shown, imports, osDark, started, overtaken, untold>>
        /\ started # "no" /\ panel' = [panel EXCEPT !.open = TRUE]
    BY DEF ThemeInv, OpenPanel, storage, history, document
  <1>2. asks' \subseteq Question /\ asked' \in Int
    BY <1>1, AskStep DEF OpenPanel, ThemeTypeOK, Theme
  <1>3. /\ panel' \in [open : BOOLEAN, over : Theme, timer : Theme]
        /\ panel'.over = panel.over /\ panel'.timer = panel.timer
    BY <1>1 DEF ThemeTypeOK
  <1>4. ThemeTypeOK' /\ PanelInOrder'
    BY <1>1, <1>2, <1>3 DEF ThemeTypeOK, PanelInOrder
  <1> QED  BY <1>1, <1>3, <1>4 DEF ThemeInv, LastEventIsStored, Catching, CaughtUp, DarkOrUntold

LEMMA ClickBaseStep ==
  ASSUME ThemeAssumption, ThemeInv, ClickBase
  PROVE  ThemeInv'
  <1>1. /\ ThemeTypeOK /\ PanelInOrder /\ Catching /\ LastEventIsStored
        /\ started # "no" /\ pref' \in Preference /\ panel' = ClosedPanel
        /\ untold' = FALSE
        /\ UNCHANGED <<events, osDark, imports, started, asks, asked>>
    BY DEF ThemeInv, ClickBase, PanelInOrder
  <1>2. /\ panel' \in [open : BOOLEAN, over : Theme, timer : Theme]
        /\ panel'.over = NoTheme /\ panel'.timer = NoTheme
    BY <1>1 DEF ClosedPanel, Theme
  <1>3. /\ shown' \in Document /\ stored' \in Theme /\ overtaken' \in BOOLEAN
        /\ shown'.dark = IsDark(pref', osDark)
        /\ Catching' /\ LastEventIsStored'
    <2>1. CASE started = "dropdown"
      <3>1. /\ stored' = NoTheme
            /\ shown' = [Cleared(shown, pref') EXCEPT !.nav = NoTheme, !.icon = NoTheme]
            /\ overtaken' = (events # <<>>)
        BY <2>1 DEF ClickBase
      <3>2. /\ Cleared(shown, pref') \in Document
            /\ Cleared(shown, pref').colors = NoTheme /\ Cleared(shown, pref').effects = NoTheme
            /\ Cleared(shown, pref').dark = IsDark(pref', osDark)
        BY <1>1, ClearedPage
      <3> DEFINE page == Cleared(shown, pref')
      <3> HIDE DEF page
      <3>3. page \in Document /\ page.colors = NoTheme /\ page.effects = NoTheme
            /\ page.dark = IsDark(pref', osDark)
            /\ shown' = [page EXCEPT !.nav = NoTheme, !.icon = NoTheme]
        BY <3>1, <3>2 DEF page
      <3>4. /\ shown' \in Document /\ shown'.colors = stored' /\ shown'.effects = stored'
            /\ shown'.dark = IsDark(pref', osDark)
        BY <3>1, <3>3 DEF Document, Theme
      <3> QED  BY <1>1, <3>1, <3>4 DEF Theme, Catching, CaughtUp, LastEventIsStored
    <2>2. CASE started # "dropdown"
      <3>1. /\ stored' = stored /\ shown' = [shown EXCEPT !.dark = IsDark(pref', osDark)]
            /\ overtaken' = overtaken /\ panel.over = NoTheme
        BY <1>1, <2>2 DEF ClickBase, PanelInOrder
      <3>2. /\ shown' \in Document /\ shown'.colors = shown.colors
            /\ shown'.effects = shown.effects /\ shown'.dark = IsDark(pref', osDark)
        BY <1>1, <3>1 DEF ThemeTypeOK, Document, IsDark
      <3> QED  BY <1>1, <3>1, <3>2 DEF ThemeTypeOK, Catching, CaughtUp, LastEventIsStored
    <2> QED  BY <2>1, <2>2
  <1>4. ThemeTypeOK' /\ PanelInOrder'
    BY <1>1, <1>2, <1>3 DEF ThemeTypeOK, PanelInOrder
  <1>5. DarkOrUntold'
    BY <1>1, <1>3 DEF DarkOrUntold
  <1> QED  BY <1>3, <1>4, <1>5 DEF ThemeInv

LEMMA ClickThemeStep ==
  ASSUME ThemeAssumption, ThemeInv, ClickTheme
  PROVE  ThemeInv'
  <1>1. /\ ThemeTypeOK /\ PanelInOrder /\ started # "no" /\ panel.over \in Theme
        /\ UNCHANGED <<pref, events, osDark, started, untold>>
    BY DEF ThemeInv, ClickTheme, PanelInOrder, ThemeTypeOK
  <1>2. CASE cached = "unknown"
    <2>1. Ask(panel.over) /\ UNCHANGED <<stored, shown, imports, panel, overtaken>>
      BY <1>2 DEF ClickTheme, document
    <2>2. ThemeTypeOK' /\ PanelInOrder'
      BY <1>1, <2>1, AskStep DEF ThemeTypeOK, PanelInOrder
    <2> QED  BY <1>1, <2>1, <2>2 DEF ThemeInv, LastEventIsStored, Catching, CaughtUp, DarkOrUntold
  <1>3. CASE cached # "unknown"
    <2>1. Decide(panel.over, cached = "yes") /\ UNCHANGED <<asks, asked>>
      BY <1>3 DEF ClickTheme
    <2> QED  BY <1>1, <2>1, Committed DEF ThemeTypeOK
  <1> QED  BY <1>2, <1>3

LEMMA AnsweredStep ==
  ASSUME ThemeAssumption, ThemeInv, TierAnswered
  PROVE  ThemeInv'
  <1>1. PICK a \in asks :
          /\ asks' = asks \ {a}
          /\ IF a.for = NoTheme
             THEN UNCHANGED <<stored, shown, imports, panel, overtaken>>
             ELSE Decide(a.for, a.answer = "yes")
    BY DEF TierAnswered, document
  <1>2. /\ ThemeTypeOK /\ PanelInOrder /\ started # "no" /\ a.for \in Theme
        /\ UNCHANGED <<pref, events, osDark, started, asked, untold>>
        /\ asks' \subseteq Question /\ asked' \in Int
    BY <1>1 DEF ThemeInv, TierAnswered, PanelInOrder, ThemeTypeOK, Question
  <1>3. CASE a.for = NoTheme
    <2>1. ThemeTypeOK' /\ PanelInOrder'
      BY <1>1, <1>2, <1>3 DEF ThemeTypeOK, PanelInOrder
    <2> QED  BY <1>1, <1>2, <1>3, <2>1 DEF ThemeInv, LastEventIsStored, Catching, CaughtUp, DarkOrUntold
  <1>4. CASE a.for # NoTheme
    BY <1>1, <1>2, <1>4, Committed
  <1> QED  BY <1>3, <1>4

(* The rest touches neither the theme nor the panel. *)
LEMMA QuietStep ==
  ASSUME ThemeAssumption, ThemeInv,
         FontArrives \/ LayoutMade \/ DropdownFilled \/ ServeTier \/ SessionChanges \/ UNCHANGED themeVars
  PROVE  ThemeInv'
  <1>1. /\ ThemeTypeOK /\ PanelInOrder /\ LastEventIsStored /\ Catching /\ DarkOrUntold
        /\ UNCHANGED <<stored, pref, events, osDark, panel, asked, overtaken, untold>>
    BY DEF ThemeInv, FontArrives, LayoutMade, DropdownFilled, ServeTier, SessionChanges, themeVars, storage,
              history
  <1>2. /\ shown' \in Document /\ imports' \subseteq Themes
        /\ shown'.colors = shown.colors /\ shown'.effects = shown.effects /\ shown'.dark = shown.dark
    <2>1. CASE FontArrives
      <3>1. PICK id \in imports : imports' = imports \ {id} /\ shown' = [shown EXCEPT !.font = id]
        BY <2>1 DEF FontArrives
      <3>2. id \in Theme
        BY <1>1 DEF ThemeTypeOK, Theme
      <3> QED  BY <1>1, <3>1, <3>2 DEF ThemeTypeOK, Document
    <2>2. CASE LayoutMade \/ DropdownFilled \/ ServeTier \/ SessionChanges \/ UNCHANGED themeVars
      BY <1>1, <2>2 DEF LayoutMade, DropdownFilled, ServeTier, SessionChanges, themeVars, document, ThemeTypeOK
    <2> QED  BY <2>1, <2>2
  <1>3. /\ \/ started' = started
           \/ started' = "layout" /\ started = "engine"
           \/ started' = "dropdown" /\ started = "layout"
        /\ asks' \subseteq Question /\ (asks = {} => asks' = {})
    <2>1. CASE ServeTier
      <3>1. PICK a \in asks, answer \in {"yes", "no"} :
              asks' = (asks \ {a}) \cup {[a EXCEPT !.answer = answer]}
        BY <2>1 DEF ServeTier
      <3> QED  BY <1>1, <2>1, <3>1 DEF ServeTier, ThemeTypeOK, Question
    <2>2. CASE FontArrives \/ LayoutMade \/ DropdownFilled \/ SessionChanges \/ UNCHANGED themeVars
      BY <1>1, <2>2 DEF FontArrives, LayoutMade, DropdownFilled, SessionChanges, themeVars, ThemeTypeOK
    <2> QED  BY <2>1, <2>2
  <1>4. ThemeTypeOK' /\ PanelInOrder'
    BY <1>1, <1>2, <1>3 DEF ThemeTypeOK, PanelInOrder
  <1> QED  BY <1>1, <1>2, <1>3, <1>4 DEF ThemeInv, LastEventIsStored, Catching, CaughtUp, DarkOrUntold

LEMMA ThemeSteps == ThemeAssumption /\ ThemeInv /\ [ThemeNext]_themeVars => ThemeInv'
  BY StorageEventStep, OtherTabStep, SystemStep, StartStep, PointerStep, OpenPanelStep,
     ClickBaseStep, ClickThemeStep, AnsweredStep, QuietStep DEF ThemeNext

(* For any themes and any number of previews, of questions and of other tabs'
   changes, which may cross those of this tab, the document shows the theme that
   localStorage has (retro-theme.ts:43-202, theme-toggle.ts:167-262), until a
   storage event overtakes one committed here, and its base mode, until another
   tab changes that one (theme.ts:63). *)
THEOREM CommittedIsShown == ThemeAssumption => (ThemeSpec => []ShownIsCommitted)
  <1> SUFFICES ASSUME ThemeAssumption  PROVE ThemeSpec => []ShownIsCommitted
    OBVIOUS
  <1>1. ThemeInit => ThemeInv
    BY ThemeInitially
  <1>2. ThemeInv /\ [ThemeNext]_themeVars => ThemeInv'
    BY ThemeSteps
  <1>3. ThemeInv => ShownIsCommitted
    BY DEF ThemeInv, ShownIsCommitted, Settled, Catching, CaughtUp, DarkOrUntold
  <1> QED  BY <1>1, <1>2, <1>3, PTL DEF ThemeSpec
-----------------------------------------------------------------------------
(* The protection panel: the numbers of randomChar and getUnbiasedRandomIndex. *)

LEMMA Division ==
  ASSUME NEW a \in Nat, NEW n \in Nat \ {0}
  PROVE  /\ a \div n \in Nat /\ a % n \in 0 .. n - 1
         /\ a = n * (a \div n) + (a % n)
  OBVIOUS

LEMMA AtLeastOnce ==
  ASSUME NEW k \in Int, NEW n \in Nat \ {0}, k >= 1
  PROVE  n * k >= n
  OBVIOUS

LEMMA DivisionIsUnique ==
  ASSUME NEW n \in Nat \ {0}, NEW q \in Nat, NEW r \in 0 .. n - 1
  PROVE  (n * q + r) \div n = q /\ (n * q + r) % n = r
  <1> DEFINE p == (n * q + r) \div n
             s == (n * q + r) % n
  <1>1. n * q + r \in Nat
    OBVIOUS
  <1>2. p \in Nat /\ s \in 0 .. n - 1 /\ n * q + r = n * p + s
    BY <1>1, Division
  <1> HIDE DEF p, s
  <1>3. n * (q - p) = s - r /\ n * (p - q) = r - s
    BY <1>2
  <1>4. ~ (q - p >= 1)
    BY <1>2, <1>3, AtLeastOnce
  <1>5. ~ (p - q >= 1)
    BY <1>2, <1>3, AtLeastOnce
  <1>6. p = q
    BY <1>2, <1>4, <1>5
  <1>7. s = r
    BY <1>2, <1>6
  <1> QED  BY <1>6, <1>7 DEF p, s

(* Of the draws below a multiple of n, each remainder has as many. *)
LEMMA MultiplesAreUnbiased ==
  ASSUME Words \in Nat, NEW n \in Nat \ {0}, NEW q \in Nat \ {0}, n * q <= Words
  PROVE  Unbiased(n, n * q)
  <1>1. n * q \in n .. Words
    BY AtLeastOnce
  <1>2. (n * q) \div n = q
    <2>1. 0 \in 0 .. n - 1 /\ n * q + 0 = n * q
      OBVIOUS
    <2> QED  BY <2>1, DivisionIsUnique
  <1>3. ASSUME NEW i \in 0 .. n - 1
        PROVE  Cardinality({w \in 0 .. n * q - 1 : w % n = i}) = q
    <2> DEFINE S == {w \in 0 .. n * q - 1 : w % n = i}
               f == [k \in 1 .. q |-> n * (k - 1) + i]
    <2>1. ASSUME NEW k \in 1 .. q
          PROVE  f[k] \in S /\ (f[k] \div n) + 1 = k
      <3>1. k - 1 \in Nat /\ n * (k - 1) + i \in Nat
        OBVIOUS
      <3>2. (n * (k - 1) + i) \div n = k - 1 /\ (n * (k - 1) + i) % n = i
        BY <3>1, DivisionIsUnique
      <3>3. n * (k - 1) + n <= n * q
        <4>1. k = q \/ q - k >= 1
          OBVIOUS
        <4>2. n * q = n * (k - 1) + n + n * (q - k)
          OBVIOUS
        <4>3. n * (q - k) >= 0
          BY <4>1, AtLeastOnce
        <4>4. n * (q - k) \in Int /\ n * (k - 1) \in Int /\ n * q \in Int
          OBVIOUS
        <4> QED  BY <4>2, <4>3, <4>4
      <3>4. n * (k - 1) + i <= n * q - 1
        BY <3>1, <3>3
      <3> QED  BY <3>1, <3>2, <3>4
    <2>2. ASSUME NEW w \in S  PROVE \E k \in 1 .. q : f[k] = w
      <3>1. w \in Nat /\ w % n = i /\ w <= n * q - 1
        OBVIOUS
      <3>2. w \div n \in Nat /\ w = n * (w \div n) + i
        BY <3>1, Division
      <3>3. w \div n < q
        <4>1. SUFFICES ASSUME w \div n >= q  PROVE FALSE
          BY <3>2
        <4>2. n * (w \div n) = n * q + n * ((w \div n) - q)
          BY <3>2
        <4>3. n * ((w \div n) - q) >= 0
          BY <3>2, <4>1, AtLeastOnce
        <4>4. n * ((w \div n) - q) \in Int /\ n * q \in Int /\ n * (w \div n) \in Int
          BY <3>2
        <4> QED  BY <3>1, <3>2, <4>2, <4>3, <4>4
      <3>4. (w \div n) + 1 \in 1 .. q /\ f[(w \div n) + 1] = w
        BY <3>2, <3>3
      <3> QED  BY <3>4
    <2>3. f \in [1 .. q -> S]
      BY <2>1
    <2>4. \A j, k \in 1 .. q : f[j] = f[k] => j = k
      <3>1. ASSUME NEW j \in 1 .. q, NEW k \in 1 .. q, f[j] = f[k]  PROVE j = k
        <4>1. (f[j] \div n) + 1 = j /\ (f[k] \div n) + 1 = k
          BY <2>1
        <4> HIDE DEF f
        <4> QED  BY <3>1, <4>1
      <3> QED  BY <3>1
    <2> HIDE DEF f, S
    <2>5. f \in Bijection(1 .. q, S)
      BY <2>2, <2>3, <2>4 DEF Bijection, Injection, IsInjective, Surjection
    <2>6. ExistsBijection(1 .. q, S)
      BY <2>5 DEF ExistsBijection
    <2>7. Cardinality(S) = q
      BY <2>6, FS_CountingElements
    <2> QED  BY <2>7 DEF S
  <1> QED  BY <1>1, <1>2, <1>3 DEF Unbiased

LEMMA DrawsAreUnbiased ==
  ASSUME PanelAssumption, NEW n \in 1 .. 100
  PROVE  Unbiased(n, DrawLimit(n)) /\ Unbiased(n, Cutoff(n))
  <1>1. Words \in Nat /\ Words - 1 \in Nat /\ n < Words /\ n \in Nat \ {0}
    BY DEF PanelAssumption
  <1>2. ASSUME NEW a \in Nat, n <= a, a <= Words
        PROVE  n * (a \div n) = a - (a % n) /\ Unbiased(n, n * (a \div n))
    <2>1. /\ a \div n \in Nat /\ a % n \in 0 .. n - 1
          /\ a = n * (a \div n) + (a % n)
      BY <1>1, Division
    <2>2. a \div n # 0
      BY <1>1, <1>2, <2>1
    <2>3. n * (a \div n) \in Int /\ n * (a \div n) <= Words
      BY <1>1, <1>2, <2>1
    <2>4. Unbiased(n, n * (a \div n))
      BY <1>1, <2>1, <2>2, <2>3, MultiplesAreUnbiased
    <2> QED  BY <1>1, <1>2, <2>1, <2>3, <2>4
  <1>3. DrawLimit(n) = n * ((Words - 1) \div n)
    <2>1. (Words - 1) \div n \in Nat
      BY <1>1, Division
    <2> QED  BY <1>1, <2>1 DEF DrawLimit
  <1>4. Unbiased(n, n * ((Words - 1) \div n))
    <2>1. n <= Words - 1 /\ Words - 1 <= Words
      BY <1>1
    <2> QED  BY <1>1, <1>2, <2>1
  <1>5. n <= Words /\ Words <= Words
    BY <1>1
  <1> QED  BY <1>1, <1>2, <1>3, <1>4, <1>5 DEF Cutoff
-----------------------------------------------------------------------------
(* The character sets: fewer than a hundred, and apart from each other. *)

Few(S, n) == IsFiniteSet(S) /\ Cardinality(S) <= n

LEMMA Joined ==
  ASSUME NEW S, NEW T, IsFiniteSet(S), IsFiniteSet(T)
  PROVE  /\ IsFiniteSet(S \cup T)
         /\ Cardinality(S) \in Nat /\ Cardinality(T) \in Nat /\ Cardinality(S \cup T) \in Nat
         /\ Cardinality(S \cup T) <= Cardinality(S) + Cardinality(T)
  <1>1. IsFiniteSet(S \cap T) /\ IsFiniteSet(S \cup T)
    BY FS_Intersection, FS_Union
  <1>2. /\ Cardinality(S) \in Nat /\ Cardinality(T) \in Nat
        /\ Cardinality(S \cap T) \in Nat /\ Cardinality(S \cup T) \in Nat
    BY <1>1, FS_CardinalityType
  <1>3. Cardinality(S \cup T) = Cardinality(S) + Cardinality(T) - Cardinality(S \cap T)
    BY FS_Union
  <1> QED  BY <1>1, <1>2, <1>3

LEMMA Four ==
  ASSUME NEW w, NEW x, NEW y, NEW z
  PROVE  Few({w, x, y, z}, 4)
  <1>1. /\ IsFiniteSet({w}) /\ IsFiniteSet({x}) /\ IsFiniteSet({y}) /\ IsFiniteSet({z})
        /\ Cardinality({w}) = 1 /\ Cardinality({x}) = 1 /\ Cardinality({y}) = 1 /\ Cardinality({z}) = 1
    BY FS_Singleton
  <1>2. IsFiniteSet({w} \cup {x}) /\ Cardinality({w} \cup {x}) \in Nat /\ Cardinality({w} \cup {x}) <= 2
    BY <1>1, Joined
  <1>3. IsFiniteSet({y} \cup {z}) /\ Cardinality({y} \cup {z}) \in Nat /\ Cardinality({y} \cup {z}) <= 2
    BY <1>1, Joined
  <1>4. Few(({w} \cup {x}) \cup ({y} \cup {z}), 4)
    <2> DEFINE S == {w} \cup {x}
               T == {y} \cup {z}
    <2>1. IsFiniteSet(S) /\ IsFiniteSet(T) /\ Cardinality(S) <= 2 /\ Cardinality(T) <= 2
      BY <1>2, <1>3
    <2> HIDE DEF S, T
    <2>2. Few(S \cup T, 4)
      BY <2>1, Joined DEF Few
    <2> QED  BY <2>2 DEF S, T
  <1>5. ({w} \cup {x}) \cup ({y} \cup {z}) = {w, x, y, z}
    OBVIOUS
  <1> QED  BY <1>4, <1>5

LEMMA Thirteen ==
  ASSUME NEW a, NEW b, NEW c, NEW d, NEW e, NEW f, NEW g, NEW h, NEW i, NEW j, NEW k, NEW l, NEW m
  PROVE  Few({a, b, c, d, e, f, g, h, i, j, k, l, m}, 13)
  <1> DEFINE A == {a, b, c, d}
             B == {e, f, g, h}
             C == {i, j, k, l}
  <1>1. Few(A, 4) /\ Few(B, 4) /\ Few(C, 4)
    BY Four
  <1>2. IsFiniteSet({m}) /\ Cardinality({m}) = 1
    BY FS_Singleton
  <1>3. {a, b, c, d, e, f, g, h, i, j, k, l, m} = (A \cup B) \cup (C \cup {m})
    OBVIOUS
  <1> HIDE DEF A, B, C
  <1>4. Few(A \cup B, 8)
    BY <1>1, Joined DEF Few
  <1>5. Few(C \cup {m}, 5)
    BY <1>1, <1>2, Joined DEF Few
  <1>6. Few((A \cup B) \cup (C \cup {m}), 13)
    BY <1>4, <1>5, Joined DEF Few
  <1> QED  BY <1>3, <1>6

Everything == Lowercase \cup UNION {Characters[b] : b \in Box}

LEMMA EverythingIsFew == Few(Everything, 91)
  <1> DEFINE L1 == {"a", "b", "c", "d", "e", "f", "g", "h", "i", "j", "k", "l", "m"}
             L2 == {"n", "o", "p", "q", "r", "s", "t", "u", "v", "w", "x", "y", "z"}
             U1 == {"A", "B", "C", "D", "E", "F", "G", "H", "I", "J", "K", "L", "M"}
             U2 == {"N", "O", "P", "Q", "R", "S", "T", "U", "V", "W", "X", "Y", "Z"}
             N  == {"0", "1", "2", "3", "4", "5", "6", "7", "8", "9", "9", "9", "9"}
             S1 == {"!", "@", "#", "$", "%", "^", "&", "*", "(", ")", "-", "_", "="}
             S2 == {"+", "[", "]", "{", "}", "|", ";", ":", ",", ".", "<", ">", "?"}
  <1>1. /\ Few(L1, 13) /\ Few(L2, 13) /\ Few(U1, 13) /\ Few(U2, 13)
        /\ Few(N, 13) /\ Few(S1, 13) /\ Few(S2, 13)
    BY Thirteen
  <1>2. Lowercase = L1 \cup L2
    BY DEF Lowercase
  <1>3. /\ Characters["uppercase"] = U1 \cup U2
        /\ Characters["numbers"] = N
        /\ Characters["symbols"] = S1 \cup S2
    BY DEF Characters
  <1> HIDE DEF L1, L2, U1, U2, N, S1, S2
  <1>4. Few(L1 \cup L2, 26) /\ Few(U1 \cup U2, 26) /\ Few(S1 \cup S2, 26)
    BY <1>1, Joined DEF Few
  <1>5. Few((L1 \cup L2) \cup (U1 \cup U2), 52)
    BY <1>4, Joined DEF Few
  <1>6. Few(N \cup (S1 \cup S2), 39)
    BY <1>1, <1>4, Joined DEF Few
  <1>7. Few(((L1 \cup L2) \cup (U1 \cup U2)) \cup (N \cup (S1 \cup S2)), 91)
    BY <1>5, <1>6, Joined DEF Few
  <1>8. Everything = ((L1 \cup L2) \cup (U1 \cup U2)) \cup (N \cup (S1 \cup S2))
    BY <1>2, <1>3 DEF Everything, Box
  <1> QED  BY <1>7, <1>8

LEMMA Apart ==
  ASSUME NEW c, NEW b \in Box, c \in Characters[b]
  PROVE  /\ c \notin Lowercase
         /\ \A a \in Box : c \in Characters[a] => a = b
  <1>1. \A x \in Lowercase : \A a \in Box : x \notin Characters[a]
    <2>1. ASSUME NEW x \in Lowercase  PROVE x \notin Characters["uppercase"]
      BY DEF Lowercase, Characters
    <2>2. ASSUME NEW x \in Lowercase  PROVE x \notin Characters["numbers"]
      BY DEF Lowercase, Characters
    <2>3. ASSUME NEW x \in Lowercase  PROVE x \notin Characters["symbols"]
      BY DEF Lowercase, Characters
    <2> QED  BY <2>1, <2>2, <2>3 DEF Box
  <1>2. ASSUME NEW x \in Characters["numbers"]
        PROVE  x \notin Characters["uppercase"] /\ x \notin Characters["symbols"]
    BY DEF Characters
  <1>3. ASSUME NEW x \in Characters["symbols"]  PROVE x \notin Characters["uppercase"]
    BY DEF Characters
  <1> QED  BY <1>1, <1>2, <1>3 DEF Box

LEMMA CharsetIsAllowed ==
  ASSUME boxes \subseteq Box, filters \subseteq Filter
  PROVE  /\ Charset(boxes, filters) \subseteq Everything
         /\ \A c \in Charset(boxes, filters) : Allows(c)
  <1>1. Phonetic \subseteq Lowercase /\ Similar \subseteq Ambiguous
    BY DEF Phonetic, Similar, Ambiguous
  <1>2. CASE "easyToSay" \in filters
    <2>1. Charset(boxes, filters) \subseteq Phonetic
      BY <1>2 DEF Charset
    <2>2. ASSUME NEW c \in Charset(boxes, filters)
          PROVE  /\ "easyToRead" \in filters => c \notin Ambiguous
                 /\ "omitSimilar" \in filters => c \notin Similar
      BY <1>1, <1>2, <2>2 DEF Charset
    <2> QED  BY <1>1, <1>2, <2>1, <2>2, Apart DEF Allows, Everything
  <1>3. CASE "easyToSay" \notin filters
    <2>1. ASSUME NEW c \in Charset(boxes, filters)
          PROVE  /\ c \in Lowercase \cup UNION {Characters[b] : b \in boxes}
                 /\ "easyToRead" \in filters => c \notin Ambiguous
                 /\ "omitSimilar" \in filters => c \notin Similar
      BY <1>1, <1>3, <2>1 DEF Charset
    <2>2. ASSUME NEW c \in Lowercase \cup UNION {Characters[b] : b \in boxes}
          PROVE  c \in Everything /\ \A b \in Box : c \in Characters[b] => b \in boxes
      <3>1. CASE c \in Lowercase
        BY <3>1, Apart DEF Everything
      <3>2. CASE c \notin Lowercase
        <4>1. PICK a \in boxes : c \in Characters[a]
          BY <3>2
        <4> QED  BY <4>1, Apart DEF Everything
      <3> QED  BY <3>1, <3>2
    <2> QED  BY <1>3, <2>1, <2>2 DEF Allows
  <1> QED  BY <1>2, <1>3

-----------------------------------------------------------------------------
(* While the generator is shown, the password in the field is the one that was
   generated last, for the options of this moment. *)
GeneratedForNow ==
    /\ generated = Generated(activeTier, boxes, filters)
    /\ error = (generated = NoPassword)
    /\ confirmed \in {NoPassword, generated}
    /\ field = generated

PanelInv ==
    /\ activeTier \in Tier /\ boxes \subseteq Box /\ filters \subseteq Filter
    /\ tab = "generate" => GeneratedForNow

LEMMA PanelInitially == PanelInit => PanelInv
  BY DEF PanelInit, PanelInv, Tier

LEMMA Regenerated ==
  ASSUME NEW t, NEW checked, NEW wanted, Regenerate(t, checked, wanted),
         activeTier' = t, boxes' = checked, filters' = wanted
  PROVE  GeneratedForNow'
  BY DEF Regenerate, GeneratedForNow, Generated

LEMMA PanelSteps == PanelInv /\ [PanelNext]_panelVars => PanelInv'
  <1> SUFFICES ASSUME PanelInv, [PanelNext]_panelVars  PROVE PanelInv'
    OBVIOUS
  <1> USE DEF PanelInv
  <1>1. \A t \in Tier : Defaults(t) \subseteq Box
    BY DEF Tier, Defaults, Box
  <1>2. CASE ClickTier
    <2>1. /\ activeTier' \in Tier /\ boxes' = Defaults(activeTier') /\ filters' = filters
          /\ Regenerate(activeTier', boxes', filters)
      BY <1>2 DEF ClickTier
    <2> QED  BY <1>1, <2>1, Regenerated
  <1>3. CASE CheckBox
    <2>1. boxes' \subseteq Box /\ UNCHANGED <<activeTier, filters>> /\ Regenerate(activeTier, boxes', filters)
      BY <1>3 DEF CheckBox
    <2> QED  BY <2>1, Regenerated
  <1>4. CASE CheckEasyToSay
    <2>1. /\ filters' \subseteq Filter /\ boxes' \subseteq Box /\ activeTier' = activeTier
          /\ Regenerate(activeTier, boxes', filters')
      BY <1>1, <1>4 DEF CheckEasyToSay, Filter
    <2> QED  BY <2>1, Regenerated
  <1>5. CASE CheckFilter
    <2>1. filters' \subseteq Filter /\ UNCHANGED <<activeTier, boxes>> /\ Regenerate(activeTier, boxes, filters')
      BY <1>5 DEF CheckFilter, Filter
    <2> QED  BY <2>1, Regenerated
  <1>6. CASE ClickRegenerate
    <2>1. UNCHANGED <<activeTier, boxes, filters>> /\ Regenerate(activeTier, boxes, filters)
      BY <1>6 DEF ClickRegenerate
    <2> QED  BY <2>1, Regenerated
  <1>7. CASE UsePassword
    BY <1>7 DEF UsePassword, OnlyGenerator, GeneratedForNow
  <1>8. CASE ClickTab \/ PressArrow
    <2>1. PICK t \in PanelTab : ActivateTab(t)
      BY <1>8 DEF ClickTab, PressArrow
    <2>2. UNCHANGED <<activeTier, boxes, filters>> /\ tab' = t
      BY <2>1 DEF ActivateTab
    <2>3. CASE t = "generate"
      <3>1. Regenerate(activeTier, boxes, filters)
        BY <2>1, <2>3 DEF ActivateTab
      <3> QED  BY <2>2, <3>1, Regenerated
    <2>4. CASE t # "generate"
      BY <2>2, <2>4
    <2> QED  BY <2>3, <2>4
  <1>9. CASE ClickLocked \/ ClickNotify \/ ClickElsewhere \/ UNCHANGED panelVars
    BY <1>9 DEF ClickLocked, ClickNotify, ClickElsewhere, panelVars, generator, GeneratedForNow
  <1> QED  BY <1>2, <1>3, <1>4, <1>5, <1>6, <1>7, <1>8, <1>9 DEF PanelNext

(* Whatever is clicked, in whatever order, the password in the field, and the
   one that is sent, is of the strength and the characters the options say; and
   each of its characters is drawn without bias, for any number of values of a
   draw above a hundred: for the 2^32 of the code, which no run reaches. *)
THEOREM FieldFollowsOptions == PanelAssumption => (PanelSpec => []FieldIsCurrent)
  <1> SUFFICES ASSUME PanelAssumption  PROVE PanelSpec => []FieldIsCurrent
    OBVIOUS
  <1>1. ASSUME PanelInv  PROVE FieldIsCurrent
    <2>1. SUFFICES ASSUME tab = "generate"  PROVE FieldIsCurrent
      BY DEF FieldIsCurrent
    <2>2. GeneratedForNow /\ activeTier \in Tier /\ boxes \subseteq Box /\ filters \subseteq Filter
      BY <1>1, <2>1 DEF PanelInv
    <2>3. Sent \in {NoPassword, field} /\ error = (field = NoPassword)
      BY <2>1, <2>2 DEF Sent, GeneratedForNow
    <2>4. ASSUME field # NoPassword
          PROVE  /\ field.length = LengthOf[activeTier]
                 /\ field.from = Charset(boxes, filters) /\ field.from # {}
      BY <2>2, <2>4 DEF GeneratedForNow, Generated
    <2>5. ASSUME field # NoPassword
          PROVE  LET n == Cardinality(field.from)
                 IN Unbiased(n, DrawLimit(n)) /\ Unbiased(n, Cutoff(n))
      <3>1. field.from \subseteq Everything
        BY <2>2, <2>4, <2>5, CharsetIsAllowed
      <3>2. IsFiniteSet(Everything) /\ Cardinality(Everything) <= 91
        BY EverythingIsFew DEF Few
      <3>3. IsFiniteSet(field.from) /\ Cardinality(field.from) <= Cardinality(Everything)
        BY <3>1, <3>2, FS_Subset
      <3>4. Cardinality(field.from) \in Nat /\ Cardinality(Everything) \in Nat
        BY <3>2, <3>3, FS_CardinalityType
      <3>5. Cardinality(field.from) # 0
        BY <2>4, <2>5, <3>3, FS_EmptySet
      <3>6. Cardinality(field.from) \in 1 .. 100
        BY <3>2, <3>3, <3>4, <3>5
      <3> QED  BY <3>6, DrawsAreUnbiased
    <2> QED  BY <2>2, <2>3, <2>4, <2>5, CharsetIsAllowed DEF FieldIsCurrent
  <1> QED  BY <1>1, PanelInitially, PanelSteps, PTL DEF PanelSpec

==============================================================================
