---------------------------- MODULE OneTimeSecret ----------------------------
(***************************************************************************)
(* What the secrets API promises, without rows, locks or statements.       *)
(*                                                                         *)
(* A sealed secret is opened or erased once and never sealed again.  Only  *)
(* a reader who began while it was sealed can take it.  Readers of a       *)
(* password-protected secret exclude each other: one takes it while it is  *)
(* still sealed and the others get nothing.  Readers of an unprotected one *)
(* that overlap may each take it.                                          *)
(***************************************************************************)
CONSTANTS Secret, Reader

VARIABLES
    state,      \* "new", "sealed" or "spent"
    guarded,    \* the protected secrets
    racing,     \* readers of each secret that have begun and not finished
    got         \* readers the secret's ciphertext has gone out to

promise == <<state, guarded, racing, got>>

Init ==
    /\ state = [s \in Secret |-> "new"]
    /\ guarded = {}
    /\ racing = [s \in Secret |-> {}]
    /\ got = [s \in Secret |-> {}]

Seal(s) ==
    /\ state[s] = "new"
    /\ state' = [state EXCEPT ![s] = "sealed"]
    /\ guarded' \in {guarded, guarded \cup {s}}
    /\ UNCHANGED <<racing, got>>

Begin(s, r) ==
    /\ state[s] = "sealed"
    /\ racing' = [racing EXCEPT ![s] = @ \cup {r}]
    /\ UNCHANGED <<state, guarded, got>>

Quit(s, r) ==
    /\ racing' = [racing EXCEPT ![s] = @ \ {r}]
    /\ UNCHANGED <<state, guarded, got>>

Take(s, r) ==
    /\ r \in racing[s]
    /\ s \in guarded => state[s] = "sealed"
    /\ state' = [state EXCEPT ![s] = "spent"]
    /\ racing' = [racing EXCEPT ![s] = @ \ {r}]
    /\ got' = [got EXCEPT ![s] = @ \cup {r}]
    /\ UNCHANGED guarded

(* The answer is lost on its way; the secret is spent all the same. *)
Lose(s, r) ==
    /\ got' = [got EXCEPT ![s] = @ \ {r}]
    /\ UNCHANGED <<state, guarded, racing>>

(* Expiry, deletion by the owner, too many wrong passwords. *)
Erase(S) ==
    /\ \A s \in S : state[s] = "sealed"
    /\ state' = [s \in Secret |-> IF s \in S THEN "spent" ELSE state[s]]
    /\ UNCHANGED <<guarded, racing, got>>

Next ==
    \/ \E S \in SUBSET Secret : Erase(S)
    \/ \E s \in Secret :
          \/ Seal(s)
          \/ \E r \in Reader : Begin(s, r) \/ Quit(s, r) \/ Take(s, r) \/ Lose(s, r)

Spec == Init /\ [][Next]_promise

=============================================================================
