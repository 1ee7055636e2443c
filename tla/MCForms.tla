------------------------------- MODULE MCForms -------------------------------
(* Small instances of what a visitor fills in and sends: the create page, its
   protection panel, and the sealing of the text.  They share no state, so that a
   behaviour is one of any of them, with the others at rest: every state of each
   is reached. *)
EXTENDS CreatePage, ProtectionPanel, Sealing

CONSTANTS u1, r1

(* Every number of bytes up to a thousand, then one of every 41 up to the most that
   the text area can hold, and all of those about the limits for texts of one, two
   and three bytes a unit. *)
SomeLengths ==
    (0 .. 1000) \cup {41 * k : k \in 24 .. 731}
    \cup UNION {(n - 10) .. (n + 10) : n \in {10000, 20000}} \cup (29990 .. 30000)

VARIABLE part \* which of them the behaviour is of

ASSUME PanelAssumption /\ SealingAssumption

FormsInit ==
    /\ part \in {"page", "panel", "seal"}
    /\ part # "page" => session = FALSE /\ tier = [u \in User |-> "free"]
    /\ PageInit
    /\ part # "panel" => panelMode = "anon"
    /\ PanelInit
    /\ part # "seal" => text = 0
    /\ SealingInit

FormsNext ==
    \/ /\ part = "page" /\ Next
       /\ UNCHANGED <<part, panelVars, sealVars>>
    \/ /\ part = "panel" /\ PanelNext
       /\ UNCHANGED <<part, vars, sealVars>>
    \/ /\ part = "seal" /\ SealNext
       /\ UNCHANGED <<part, vars, panelVars>>

FormsSpec ==
    /\ FormsInit /\ [][FormsNext]_<<part, vars, panelVars, sealVars>>
    /\ Fairness
==============================================================================
