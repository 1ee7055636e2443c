----------------------------- MODULE AccountModal -----------------------------
(***************************************************************************)
(* The modal in which an account asks to be deleted: createDeleteAccount-  *)
(* Modal and deleteAccount of client/src/pages/dashboard.ts.  It hangs on  *)
(* the body, outside of what the router empties, and can be typed into,    *)
(* closed and opened again while a deletion is under way.                  *)
(***************************************************************************)
EXTENDS Integers

CONSTANTS MaxRequests, \* how many deletions are asked for
          MaxOpened    \* how many modals are opened

ModalAssumption == MaxRequests \in Nat /\ MaxOpened \in Nat

Opened == 1 .. MaxOpened

VARIABLES
    account,  \* "there", or "gone"
    place,    \* the route
    opened,   \* how many modals were opened
    onBody,   \* the modals on the body: one, for the overlay covers its button
    typed,    \* whether the input says "delete"
    button,   \* whether "Delete account" can be clicked
    waits,    \* modals whose deletions await an answer: for each, how far they are
    asked

vars == <<account, place, opened, onBody, typed, button, waits, asked>>

ModalInit ==
    /\ account = "there"
    /\ place = "dashboard"
    /\ opened = 0
    /\ onBody = {}
    /\ typed = FALSE
    /\ button = FALSE
    /\ waits = {}
    /\ asked = 0

Open ==
    /\ place = "dashboard" /\ onBody = {}
    /\ opened < MaxOpened
    /\ opened' = opened + 1
    /\ onBody' = {opened'}
    /\ typed' = FALSE /\ button' = FALSE
    /\ UNCHANGED <<account, place, waits, asked>>

Type ==
    /\ onBody # {}
    /\ typed' \in BOOLEAN
    /\ button' = typed'
    /\ UNCHANGED <<account, place, opened, onBody, waits, asked>>

(* Cancel, and Escape. *)
Close ==
    /\ onBody # {}
    /\ onBody' = {}
    /\ UNCHANGED <<account, place, opened, typed, button, waits, asked>>

Confirm ==
    /\ onBody # {} /\ button
    /\ asked < MaxRequests
    /\ asked' = asked + 1
    /\ button' = FALSE
    /\ waits' = waits \cup {[by |-> opened, n |-> asked', answer |-> "none"]}
    /\ UNCHANGED <<account, place, opened, onBody, typed>>

(* DELETE /api/me, as the module AccountDeletion has it; the answer or the
   request may be lost, and without an account there is no session. *)
Serve ==
    /\ \E w \in waits :
        /\ w.answer = "none"
        /\ \E answer \in {"ok", "failed"}, deletes \in BOOLEAN :
            /\ answer = "ok" => deletes /\ account = "there"
            /\ account' = IF deletes THEN "gone" ELSE account
            /\ waits' = (waits \ {w}) \cup {[w EXCEPT !.answer = answer]}
    /\ UNCHANGED <<place, opened, onBody, typed, button, asked>>

Succeeded ==
    /\ \E w \in waits : w.answer = "ok" /\ waits' = waits \ {w}
    /\ place' = "home"
    /\ UNCHANGED <<account, opened, onBody, typed, button, asked>>

(* Faulty: the button is left as it was. *)
FailedForGood ==
    /\ \E w \in waits : w.answer = "failed" /\ waits' = waits \ {w}
    /\ UNCHANGED <<account, place, opened, onBody, typed, button, asked>>

(* The modal's own button is restored, if that is still the one shown. *)
Failed ==
    /\ \E w \in waits :
        /\ w.answer = "failed"
        /\ waits' = waits \ {w}
        /\ button' = IF w.by = opened THEN typed ELSE button
    /\ UNCHANGED <<account, place, opened, onBody, typed, asked>>

(* Back, and forward again; without an account the dashboard is not shown. *)
Leave ==
    /\ place' = IF place = "dashboard" THEN "home" ELSE "dashboard"
    /\ account = "there"
    /\ UNCHANGED <<account, opened, onBody, typed, button, waits, asked>>

Next == Open \/ Type \/ Close \/ Confirm \/ Serve \/ Succeeded \/ Failed \/ Leave

Spec == ModalInit /\ [][Next]_vars

(* Requests are answered or fail, and the browser goes on with the answers. *)
Fairness == WF_vars(Serve) /\ WF_vars(Succeeded) /\ WF_vars(Failed)

FairSpec == Spec /\ Fairness

-----------------------------------------------------------------------------
(* Properties. *)

(* Whoever has confirmed a deletion ends on another page, with the modal
   closed, or with a button that works as soon as the input says so. *)
ConfirmAnswered == waits # {} ~> (place = "home" \/ onBody = {} \/ button = typed)

==============================================================================
