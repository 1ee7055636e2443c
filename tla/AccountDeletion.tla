--------------------------- MODULE AccountDeletion ---------------------------
(***************************************************************************)
(* server/src/auth.ts, deleteUser.beforeDelete, and what Better Auth does  *)
(* after it: the secrets of the account are made anonymous by one bulk     *)
(* UPDATE, then the account's row is deleted, and the foreign key (ON      *)
(* DELETE SET NULL) does the same to secrets created in between.           *)
(***************************************************************************)
EXTENDS Secrets

CONSTANT Leaver     \* accounts whose owner may ask for their deletion

ASSUME AccountAssumption == User \subseteq Session /\ Leaver \subseteq User

VARIABLES
    leaving,    \* how far the deletion of each account is
    pending     \* rows its statement has yet to visit

deletion == <<leaving, pending>>

Stage == {"no", "detach", "detaching", "drop", "dropping", "gone"}

AccountTypeOK ==
    /\ leaving \in [User -> Stage]
    /\ pending \in [User -> SUBSET Secret]

AccountInit ==
    /\ leaving = [u \in User |-> "no"]
    /\ pending = [u \in User |-> {}]

Owns(u, row) == row.life = "live" /\ row.owner = u

Become(u, stage) == leaving' = [leaving EXCEPT ![u] = stage]

DeleteAccount(u) ==
    /\ leaving[u] = "no"
    /\ Become(u, "detach")
    /\ UNCHANGED <<secretVars, pending>>

(* UPDATE secrets SET user_id = NULL WHERE user_id = u, by beforeDelete and *)
(* again by the foreign key.  Deleting the account's row blocks, and after  *)
(* COMMIT refuses, new secrets of the account.                              *)
DetachStart(u) ==
    /\ leaving[u] \in {"detach", "drop"}
    /\ pending' = [pending EXCEPT ![u] = {s \in Secret : Owns(u, committed[s])}]
    /\ Become(u, IF leaving[u] = "detach" THEN "detaching" ELSE "dropping")
    /\ users' = IF leaving[u] = "drop" THEN users \ {u} ELSE users
    /\ UNCHANGED <<store, expired, requests>>

DetachRow(u, s) ==
    /\ leaving[u] \in {"detaching", "dropping"}
    /\ s \in pending[u]
    /\ Unlocked(u, s)
    /\ IF Owns(u, View(u, s))
         THEN Put(u, s, [View(u, s) EXCEPT !.owner = NoUser])
         ELSE UNCHANGED store
    /\ pending' = [pending EXCEPT ![u] = @ \ {s}]
    /\ UNCHANGED <<expired, users, requests, leaving>>

(* Faulty: the account's row goes with nothing done for newer secrets. *)
DetachOnce(u) ==
    /\ leaving[u] \in {"detaching", "dropping"}
    /\ pending[u] = {}
    /\ Commit(u)
    /\ Become(u, "gone")
    /\ UNCHANGED <<expired, users, requests, pending>>

DetachDone(u) ==
    /\ leaving[u] \in {"detaching", "dropping"}
    /\ pending[u] = {}
    /\ Commit(u)
    /\ Become(u, IF leaving[u] = "detaching" THEN "drop" ELSE "gone")
    /\ UNCHANGED <<expired, users, requests, pending>>

(* Either statement fails: the account stays and may be deleted later. *)
DetachFail(u) ==
    /\ leaving[u] \notin {"no", "gone"}
    /\ Rollback(u)
    /\ Become(u, "no")
    /\ pending' = [pending EXCEPT ![u] = {}]
    /\ users' = users \cup {u}
    /\ UNCHANGED <<expired, requests>>

Detach(u) ==
    \/ DetachStart(u)
    \/ \E s \in Secret : DetachRow(u, s)
    \/ DetachDone(u)

AccountNext == \E u \in Leaver : DeleteAccount(u) \/ Detach(u) \/ DetachFail(u)

=============================================================================
