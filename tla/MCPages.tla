------------------------------- MODULE MCPages -------------------------------
(* Small instances of what waits for an answer, a timer or the visitor: the
   reveal page, the copy buttons, the modal of an account's deletion, and, at the
   server, an upgrade that waits for the events of Stripe.  They share no state,
   so that a behaviour is one of any of them, with the others at rest: every state
   of each is reached. *)
EXTENDS RevealPage

CONSTANTS url, phrase,
          Button, Seconds, MaxClicks, Empty, Own, \* of CopyButton
          MaxRequests, MaxOpened,                 \* of AccountModal
          u1, c1, c2, s1, h1,
          User, Customer, Session, Handler, MaxFaults \* of Billing

VARIABLES
    part, \* which of them the behaviour is of
    clipboard, focused, writes, remaining, deferred, clicks, forgotten,
    account, place, opened, onBody, typed, button, waits, asked,
    users, remembered, checkout, sent, unanswered, pc, job, faults

Copy  == INSTANCE CopyButton
Modal == INSTANCE AccountModal
Bills == INSTANCE Billing WITH account <- users, keyed <- remembered

ASSUME Copy!CopyAssumption /\ Modal!ModalAssumption /\ Bills!BillingAssumption

copyVars == <<clipboard, focused, writes, remaining, deferred, clicks, forgotten>>
modalVars == <<account, place, opened, onBody, typed, button, waits, asked>>
billsVars == <<users, remembered, checkout, sent, unanswered, pc, job, faults>>
allVars == <<part, vars, copyVars, modalVars, billsVars>>

PagesInit ==
    /\ part \in {"reveal", "copy", "modal", "bills"}
    /\ part # "reveal" =>
        /\ link = [burn |-> FALSE, owned |-> FALSE, protected |-> FALSE, rightKey |-> TRUE]
        /\ row = "live" /\ left = MaxAttempts
    /\ RevealInit
    /\ part # "copy" => clipboard = Empty
    /\ Copy!CopyInit
    /\ Modal!ModalInit
    /\ Bills!Init

PagesNext ==
    \/ part = "reveal" /\ Next /\ UNCHANGED <<part, copyVars, modalVars, billsVars>>
    \/ part = "copy" /\ Copy!Next /\ UNCHANGED <<part, vars, modalVars, billsVars>>
    \/ part = "modal" /\ Modal!Next /\ UNCHANGED <<part, vars, copyVars, billsVars>>
    \/ part = "bills" /\ Bills!Next /\ UNCHANGED <<part, vars, copyVars, modalVars>>

PagesSpec ==
    /\ PagesInit /\ [][PagesNext]_allVars
    /\ Fairness /\ Copy!Fairness /\ Modal!Fairness /\ Bills!Fairness

(* The properties of those that are instantiated. *)
ClearedInTheEnd == Copy!ClearedInTheEnd
ConfirmAnswered == Modal!ConfirmAnswered
PaidGetsPro == Bills!PaidGetsPro
==============================================================================
