------------------------------ MODULE RowStore ------------------------------
(***************************************************************************)
(* The "secrets" table of server/src/db/schema.ts and the part of          *)
(* PostgreSQL (READ COMMITTED, the default isolation level, which          *)
(* db.transaction never raises) that the services rely on:                 *)
(*                                                                         *)
(*  - a plain SELECT never waits: it sees the last committed version of a  *)
(*    row, or the version its own transaction wrote;                       *)
(*  - SELECT ... FOR UPDATE, UPDATE and DELETE wait for the row lock, then *)
(*    act on the latest committed version; on a row that is gone by then   *)
(*    they affect zero rows, without an error and without a lock;          *)
(*  - COMMIT publishes the versions the transaction wrote and frees its    *)
(*    locks; ROLLBACK (an error, a timeout, a dead connection) drops them. *)
(*                                                                         *)
(* One operator is one statement; the modules that extend this one say     *)
(* which statements follow which.                                          *)
(***************************************************************************)
EXTENDS Naturals

CONSTANTS
    Secret,     \* ids; a nanoid is never drawn twice
    User,       \* accounts
    NoUser,     \* user_id IS NULL
    Session,    \* database sessions, one per running transaction
    NoSession   \* nobody holds the row lock

ASSUME RowStoreAssumption ==
    /\ NoUser \notin User
    /\ NoSession \notin Session

VARIABLES
    committed,  \* the last committed version of each row
    holder,     \* the session whose transaction holds the row lock
    draft       \* the version that session has written and not committed

store == <<committed, holder, draft>>

Status == {"active", "viewed", "expired", "deleted"}

(* Columns no property looks at (label, timestamps) are left out.  "sealed" *)
(* is the ciphertext as the client sent it, "zero" a string of zeros.       *)
Row == [life     : {"unborn", "live", "gone"},
        cipher   : {"none", "sealed", "zero"},
        pw       : BOOLEAN,
        attempts : Nat,
        owner    : User \cup {NoUser},
        notify   : BOOLEAN,
        status   : Status]

Unborn == [life |-> "unborn", cipher |-> "none", pw |-> FALSE, attempts |-> 0,
           owner |-> NoUser, notify |-> FALSE, status |-> "active"]

(* A deleted row.  pw is kept only so that a property can still say whether *)
(* the secret was password protected; no statement can read it.             *)
Gone(row) == [Unborn EXCEPT !.life = "gone", !.pw = row.pw]

StoreTypeOK ==
    /\ committed \in [Secret -> Row]
    /\ draft \in [Secret -> Row]
    /\ holder \in [Secret -> Session \cup {NoSession}]

StoreInit ==
    /\ committed = [s \in Secret |-> Unborn]
    /\ draft = [s \in Secret |-> Unborn]
    /\ holder = [s \in Secret |-> NoSession]

-----------------------------------------------------------------------------
(* What a statement of session t sees of row s. *)
View(t, s) == IF holder[s] = t THEN draft[s] ELSE committed[s]

Exists(t, s) == View(t, s).life = "live"

(* t need not wait for the lock of row s. *)
Unlocked(t, s) == holder[s] \in {t, NoSession}

(* SELECT ... FOR UPDATE on a row that exists. *)
LockRow(t, s) ==
    /\ Unlocked(t, s)
    /\ Exists(t, s)
    /\ holder' = [holder EXCEPT ![s] = t]
    /\ UNCHANGED <<committed, draft>>

(* UPDATE or DELETE of row s to the version row, inside a transaction. *)
Put(t, s, row) ==
    /\ Unlocked(t, s)
    /\ IF Exists(t, s)
         THEN /\ holder' = [holder EXCEPT ![s] = t]
              /\ draft' = [draft EXCEPT ![s] = row]
              /\ UNCHANGED committed
         ELSE UNCHANGED store

(* The same as a statement outside a transaction: it commits by itself. *)
AutoPut(s, row) ==
    /\ holder[s] = NoSession
    /\ IF committed[s].life = "live"
         THEN /\ committed' = [committed EXCEPT ![s] = row]
              /\ draft' = [draft EXCEPT ![s] = row]
              /\ UNCHANGED holder
         ELSE UNCHANGED store

(* INSERT of a new row, outside a transaction. *)
AutoInsert(s, row) ==
    /\ committed[s].life = "unborn"
    /\ committed' = [committed EXCEPT ![s] = row]
    /\ draft' = [draft EXCEPT ![s] = row]
    /\ UNCHANGED holder

Release(t) == [s \in Secret |-> IF holder[s] = t THEN NoSession ELSE holder[s]]

Commit(t) ==
    /\ committed' = [s \in Secret |-> View(t, s)]
    /\ holder' = Release(t)
    /\ UNCHANGED draft

Rollback(t) ==
    /\ draft' = [s \in Secret |-> IF holder[s] = t THEN committed[s] ELSE draft[s]]
    /\ holder' = Release(t)
    /\ UNCHANGED committed

=============================================================================
