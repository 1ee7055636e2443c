------------------------------ MODULE CopyButton ------------------------------
(***************************************************************************)
(* The copy buttons of the confirmation page: client/src/components/       *)
(* copy-button.ts.  Each button counts down after a copy and then empties  *)
(* the one clipboard they share, at once or when the window has the focus  *)
(* again.  Writes to the clipboard are awaited and take effect in order.   *)
(***************************************************************************)
EXTENDS Integers, Sequences

CONSTANTS
    Button,    \* the copy buttons of the page, each with a text of its own
    Seconds,   \* autoClearMs / 1000
    MaxClicks, \* how often each is clicked
    Empty, Own \* the clipboard when cleared, and with what the visitor copied elsewhere

CopyAssumption ==
    /\ Seconds \in Nat \ {0} /\ MaxClicks \in Nat
    /\ {Empty, Own} \cap Button = {}

VARIABLES
    clipboard,
    focused,   \* document.hasFocus()
    writes,    \* calls of writeText not yet settled: a button for its text, or Empty
    remaining, \* the seconds of each countdown, 0 when there is none
    deferred,  \* buttons with a pendingFocusHandler
    clicks,
    forgotten  \* a clear was rejected (no such thing in the code)

vars == <<clipboard, focused, writes, remaining, deferred, clicks, forgotten>>

CopyInit ==
    /\ clipboard \in {Empty, Own}
    /\ focused = TRUE
    /\ writes = <<>>
    /\ remaining = [b \in Button |-> 0]
    /\ deferred = {}
    /\ clicks = [b \in Button |-> 0]
    /\ forgotten = FALSE

Click(b) ==
    /\ focused /\ clicks[b] < MaxClicks
    /\ clicks' = [clicks EXCEPT ![b] = @ + 1]
    /\ writes' = Append(writes, b)
    /\ UNCHANGED <<clipboard, focused, remaining, deferred, forgotten>>

StartCountdown(b) ==
    /\ remaining' = [remaining EXCEPT ![b] = Seconds]
    /\ deferred' = deferred \ {b}

Written ==
    /\ writes # <<>>
    /\ writes' = Tail(writes)
    /\ clipboard' = Head(writes)
    /\ IF Head(writes) = Empty THEN UNCHANGED <<remaining, deferred>>
                               ELSE StartCountdown(Head(writes))
    /\ UNCHANGED <<focused, clicks, forgotten>>

(* A rejected copy is tried with execCommand, whose failure nobody looks at;
   a rejected clear is forgotten. *)
Rejected ==
    /\ writes # <<>>
    /\ writes' = Tail(writes)
    /\ IF Head(writes) = Empty
       THEN forgotten' = TRUE /\ UNCHANGED <<clipboard, remaining, deferred>>
       ELSE /\ clipboard' \in {Head(writes), clipboard}
            /\ StartCountdown(Head(writes))
            /\ UNCHANGED forgotten
    /\ UNCHANGED <<focused, clicks>>

(* Faulty: without the focus the clear is let go. *)
ClearIfFocused(b) ==
    /\ writes' = IF focused THEN Append(writes, Empty) ELSE writes
    /\ UNCHANGED deferred

ClearClipboard(b) ==
    IF focused
    THEN writes' = Append(writes, Empty) /\ UNCHANGED deferred
    ELSE deferred' = deferred \cup {b} /\ UNCHANGED writes

Tick(b) ==
    /\ remaining[b] > 0
    /\ remaining' = [remaining EXCEPT ![b] = @ - 1]
    /\ IF remaining[b] = 1 THEN ClearClipboard(b) ELSE UNCHANGED <<writes, deferred>>
    /\ UNCHANGED <<clipboard, focused, clicks, forgotten>>

LoseFocus ==
    /\ focused
    /\ focused' = FALSE
    /\ UNCHANGED <<clipboard, writes, remaining, deferred, clicks, forgotten>>

(* Each handler that waits clears the clipboard, whatever is in it by now. *)
Focus ==
    /\ ~ focused
    /\ focused' = TRUE
    /\ writes' = IF deferred = {} THEN writes ELSE Append(writes, Empty)
    /\ deferred' = {}
    /\ UNCHANGED <<clipboard, remaining, clicks, forgotten>>

CopyElsewhere ==
    /\ ~ focused
    /\ clipboard' = Own
    /\ UNCHANGED <<focused, writes, remaining, deferred, clicks, forgotten>>

Next ==
    \/ \E b \in Button : Click(b) \/ Tick(b)
    \/ Written \/ Rejected
    \/ LoseFocus \/ Focus \/ CopyElsewhere

Spec == CopyInit /\ [][Next]_vars

(* Intervals tick and writes are settled; the visitor may stay away. *)
Fairness == WF_vars(Written \/ Rejected) /\ \A b \in Button : WF_vars(Tick(b))

FairSpec == Spec /\ Fairness

-----------------------------------------------------------------------------
(* Properties. *)

(* What a button copied does not stay on the clipboard of a visitor who always
   comes back to the page, in whatever order copies, countdowns and the focus
   follow each other, unless the browser rejects a clear. *)
ClearedInTheEnd ==
    []<>focused => \A b \in Button : clipboard = b ~> clipboard # b \/ forgotten

==============================================================================
