---------------------------- MODULE ProtectionPanel ----------------------------
(***************************************************************************)
(* What the protection panel of the create page (createProtectionPanel of  *)
(* client/src/pages/create.ts) does on its own: the generator of passwords *)
(* with its options (crypto/password-generator.ts), and the popovers of    *)
(* the locked tabs and of the notify toggle.  What the panel gives to the  *)
(* submit handler is in CreatePage.                                        *)
(***************************************************************************)
EXTENDS Integers, FiniteSets

CONSTANTS Words \* how many values a draw has: 2^32, here fewer

PanelAssumption == Words \in Nat /\ Words > 100

Tier == {"low", "medium", "high", "max"}
PanelTab == {"none", "generate", "custom", "passphrase"}
Box == {"uppercase", "numbers", "symbols"}
Filter == {"easyToSay", "easyToRead", "omitSimilar"}

(* TIER_CONFIG *)
LengthOf == [low |-> 8, medium |-> 12, high |-> 16, max |-> 24]
Defaults(tier) ==
    CASE tier = "low" -> {}
      [] tier = "medium" -> {"uppercase", "numbers"}
      [] OTHER -> Box

Lowercase == {"a", "b", "c", "d", "e", "f", "g", "h", "i", "j", "k", "l", "m",
              "n", "o", "p", "q", "r", "s", "t", "u", "v", "w", "x", "y", "z"}
Characters ==
    [uppercase |-> {"A", "B", "C", "D", "E", "F", "G", "H", "I", "J", "K", "L", "M",
                    "N", "O", "P", "Q", "R", "S", "T", "U", "V", "W", "X", "Y", "Z"},
     numbers |-> {"0", "1", "2", "3", "4", "5", "6", "7", "8", "9"},
     symbols |-> {"!", "@", "#", "$", "%", "^", "&", "*", "(", ")", "-", "_", "=",
                  "+", "[", "]", "{", "}", "|", ";", ":", ",", ".", "<", ">", "?"}]
Phonetic == Lowercase \ {"i", "l", "o", "q", "x"}
Similar == {"1", "l", "I", "|", "0", "O"}
Ambiguous == Similar \cup {"B", "8", "S", "5"}

NoPassword == [length |-> 0, from |-> {}]

VARIABLES
    panelMode,  \* whom the panel was made for: "anon", "free" or "pro"
    tab,        \* activeTab
    activeTier, \* activeTier
    boxes,      \* the boxes that are checked
    disabled,   \* whether the boxes can be used
    filters,    \* the filters that are checked
    generated,  \* generatedPassword
    confirmed,  \* confirmedPassword
    field,      \* what the field shows
    error,      \* whether the filters are said to be incompatible
    popovers,   \* the locked tabs whose popover is open
    notify      \* whether the popover of the notify toggle is open

generator == <<activeTier, boxes, disabled, filters, generated, confirmed, field, error>>
panelVars == <<panelMode, tab, generator, popovers, notify>>

PanelInit ==
    /\ panelMode \in {"anon", "free", "pro"}
    /\ tab = "none" /\ activeTier = "high"
    /\ boxes = Box /\ disabled = FALSE /\ filters = {}
    /\ generated = NoPassword /\ confirmed = NoPassword
    /\ field = NoPassword /\ error = FALSE
    /\ popovers = {} /\ notify = FALSE

-----------------------------------------------------------------------------
(* password-generator.ts *)

(* buildCharset; nothing where it throws. *)
Charset(checked, wanted) ==
    LET say == "easyToSay" \in wanted
        raw == IF say THEN Phonetic
               ELSE Lowercase \cup UNION {Characters[b] : b \in checked}
        omitted == IF "easyToRead" \in wanted THEN Ambiguous
                   ELSE IF "omitSimilar" \in wanted THEN Similar ELSE {}
    IN IF say /\ "omitSimilar" \in wanted THEN {} ELSE raw \ omitted

(* randomChar takes the draws below its limit, getUnbiasedRandomIndex of
   passphrase.ts those below its cutoff. *)
DrawLimit(n) == ((Words - 1) \div n) * n
Cutoff(n) == Words - (Words % n)

(* generatePassword: a length, and the characters it is drawn from. *)
Generated(t, checked, wanted) ==
    LET charset == Charset(checked, wanted)
    IN IF charset = {} THEN NoPassword ELSE [length |-> LengthOf[t], from |-> charset]

-----------------------------------------------------------------------------
(* create.ts, the generate tab *)

(* Faulty: a confirmed password stays. *)
RegenerateKeeps(t, checked, wanted) ==
    /\ generated' = Generated(t, checked, wanted)
    /\ error' = (generated' = NoPassword)
    /\ field' = IF confirmed # NoPassword THEN confirmed ELSE generated'
    /\ UNCHANGED confirmed

(* regenerate: back to a preview. *)
Regenerate(t, checked, wanted) ==
    /\ generated' = Generated(t, checked, wanted)
    /\ error' = (generated' = NoPassword)
    /\ confirmed' = NoPassword
    /\ field' = generated'

(* What a click anywhere but on a locked tab or the notify toggle does. *)
ClosesAll == popovers' = {} /\ notify' = FALSE

OnlyGenerator == ClosesAll /\ UNCHANGED <<panelMode, tab>>

ClickTier ==
    /\ tab = "generate"
    /\ activeTier' \in Tier \ {activeTier}
    /\ boxes' = Defaults(activeTier')
    /\ Regenerate(activeTier', boxes', filters)
    /\ UNCHANGED <<disabled, filters>> /\ OnlyGenerator

CheckBox ==
    /\ tab = "generate" /\ ~disabled
    /\ \E b \in Box :
        boxes' = IF b \in boxes THEN boxes \ {b} ELSE boxes \cup {b}
    /\ Regenerate(activeTier, boxes', filters)
    /\ UNCHANGED <<activeTier, disabled, filters>> /\ OnlyGenerator

CheckEasyToSay ==
    /\ tab = "generate"
    /\ disabled' = ("easyToSay" \notin filters)
    /\ filters' = IF disabled' THEN filters \cup {"easyToSay"} ELSE filters \ {"easyToSay"}
    /\ boxes' = IF disabled' THEN {} ELSE Defaults(activeTier)
    /\ Regenerate(activeTier, boxes', filters')
    /\ UNCHANGED activeTier /\ OnlyGenerator

CheckFilter ==
    /\ tab = "generate"
    /\ \E f \in Filter \ {"easyToSay"} :
        filters' = IF f \in filters THEN filters \ {f} ELSE filters \cup {f}
    /\ Regenerate(activeTier, boxes, filters')
    /\ UNCHANGED <<activeTier, boxes, disabled>> /\ OnlyGenerator

ClickRegenerate ==
    /\ tab = "generate"
    /\ Regenerate(activeTier, boxes, filters)
    /\ UNCHANGED <<activeTier, boxes, disabled, filters>> /\ OnlyGenerator

UsePassword ==
    /\ tab = "generate"
    /\ generated # NoPassword
    /\ confirmed' = generated
    /\ field' = confirmed'
    /\ UNCHANGED <<activeTier, boxes, disabled, filters, generated, error>> /\ OnlyGenerator

(* getPassword, on this tab. *)
Sent == IF tab = "generate" THEN confirmed ELSE NoPassword

-----------------------------------------------------------------------------
(* The tabs and the popovers.  A click reaches the listeners that the document
   has for the capture phase, then those of what was clicked, and at last,
   unless it was stopped, those that the document has for the bubble phase. *)

LockLevel(t) ==
    CASE t = "none" -> "none"
      [] t = "passphrase" -> IF panelMode = "anon" THEN "free" ELSE "none"
      [] OTHER -> IF panelMode = "pro" THEN "none" ELSE "pro"

(* activateTab: leaving the generator drops what was confirmed. *)
ActivateTab(t) ==
    /\ LockLevel(t) = "none"
    /\ tab' = t
    /\ IF t = "generate"
       THEN Regenerate(activeTier, boxes, filters)
       ELSE /\ confirmed' = IF tab = "generate" THEN NoPassword ELSE confirmed
            /\ field' = IF tab = "generate" THEN generated ELSE field
            /\ UNCHANGED <<generated, error>>
    /\ UNCHANGED <<panelMode, activeTier, boxes, disabled, filters>>

ClickTab ==
    /\ \E t \in PanelTab : ActivateTab(t)
    /\ ClosesAll

(* Arrow keys walk along the tabs that are open; a key is no click. *)
PressArrow ==
    /\ \E t \in PanelTab \ {tab} : ActivateTab(t)
    /\ UNCHANGED <<popovers, notify>>

(* The document closes every popover; then the button toggles its own, and
   stops the click. *)
ClickLocked ==
    /\ \E t \in PanelTab :
        /\ LockLevel(t) # "none"
        /\ popovers' = {t}
    /\ UNCHANGED <<panelMode, tab, generator, notify>>

(* The wrapper stops the click in its capture phase. *)
ClickNotify ==
    /\ panelMode # "pro"
    /\ notify' = ~notify
    /\ popovers' = {}
    /\ UNCHANGED <<panelMode, tab, generator>>

ClickElsewhere ==
    /\ ClosesAll
    /\ UNCHANGED <<panelMode, tab, generator>>

PanelNext ==
    \/ ClickTier \/ CheckBox \/ CheckEasyToSay \/ CheckFilter
    \/ ClickRegenerate \/ UsePassword
    \/ ClickTab \/ PressArrow \/ ClickLocked \/ ClickNotify \/ ClickElsewhere

PanelSpec == PanelInit /\ [][PanelNext]_panelVars

-----------------------------------------------------------------------------
(* Properties. *)

(* What the options on the screen allow. *)
Allows(c) ==
    /\ \A b \in Box : c \in Characters[b] => b \in boxes
    /\ "easyToSay" \in filters => c \in Phonetic
    /\ "easyToRead" \in filters => c \notin Ambiguous
    /\ "omitSimilar" \in filters => c \notin Similar

(* Each index is reached by as many draws as every other. *)
Unbiased(n, bound) ==
    /\ bound \in n .. Words
    /\ \A i \in 0 .. n - 1 :
        Cardinality({w \in 0 .. bound - 1 : w % n = i}) = bound \div n

(* The password in the field, and the one that is sent, is of the strength and
   the characters that the options say at that moment, each character being as
   likely as every other; without one the page says why. *)
FieldIsCurrent ==
    tab = "generate" =>
        /\ error = (field = NoPassword)
        /\ field # NoPassword =>
            /\ field.length = LengthOf[activeTier]
            /\ \A c \in field.from : Allows(c)
            /\ LET n == Cardinality(field.from)
               IN Unbiased(n, DrawLimit(n)) /\ Unbiased(n, Cutoff(n))
        /\ Sent \in {NoPassword, field}

==============================================================================
