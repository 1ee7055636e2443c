--------------------------- MODULE ExpirationWorker ---------------------------
(***************************************************************************)
(* server/src/workers/expiration-worker.ts: a cron tick takes the Redis    *)
(* lock and runs cleanExpiredSecrets, three bulk statements that commit    *)
(* one by one.  A bulk statement picks its rows from a snapshot, then      *)
(* locks and rewrites them one after the other, and checks a row again     *)
(* once it has the row's lock.                                             *)
(*                                                                         *)
(* A worker is one cleanup run at a time.  Ticks that do nothing (the lock *)
(* is held, Redis fails) change nothing and are not actions.               *)
(***************************************************************************)
EXTENDS Secrets

CONSTANTS
    Worker,     \* cleanup runs that can be under way at once
    HasRedis    \* a Redis client is configured

ASSUME WorkerAssumption ==
    /\ Worker \subseteq Session
    /\ HasRedis \in BOOLEAN

VARIABLES
    phase,      \* which statement each run is at
    cutoff,     \* what had expired at the run's "now"
    todo,       \* rows its statement has yet to visit
    cronLock    \* the key expiration-lock exists in Redis

cleanup == <<phase, cutoff, todo, cronLock>>

Bulk == {"expireOwned", "zeroAnon", "deleteAnon"}

Phase == {"idle", "expireOwned", "expiringOwned", "zeroAnon", "zeroingAnon",
          "deleteAnon", "deletingAnon"}

Running == {"expiringOwned", "zeroingAnon", "deletingAnon"}

WorkerTypeOK ==
    /\ phase \in [Worker -> Phase]
    /\ cutoff \in [Worker -> SUBSET Secret]
    /\ todo \in [Worker -> SUBSET Secret]
    /\ cronLock \in BOOLEAN

WorkerInit ==
    /\ phase = [w \in Worker |-> "idle"]
    /\ cutoff = [w \in Worker |-> {}]
    /\ todo = [w \in Worker |-> {}]
    /\ cronLock = FALSE

-----------------------------------------------------------------------------
(* The WHERE clauses: expires_at <= now and user_id IS (NOT) NULL. *)
Matches(at, row) ==
    /\ row.life = "live"
    /\ (row.owner # NoUser) = (at \in {"expireOwned", "expiringOwned"})

(* Faulty: expired rows with an owner keep their ciphertext. *)
SweptOwnedKept(w, row) ==
    CASE phase[w] = "expiringOwned" -> SoftExpired(row)
      [] phase[w] = "zeroingAnon"   -> Zeroed(row)
      [] OTHER                      -> Gone(row)

(* What the statement a run is in makes of a row. *)
Swept(w, row) ==
    CASE phase[w] = "expiringOwned" -> SoftExpired(Zeroed(row))
      [] phase[w] = "zeroingAnon"   -> Zeroed(row)
      [] OTHER                      -> Gone(row)

(* A tick that gets the lock (SET expiration-lock 1 EX 299 NX) or needs none. *)
Tick(w) ==
    /\ phase[w] = "idle"
    /\ HasRedis => ~cronLock
    /\ cronLock' = HasRedis
    /\ phase' = [phase EXCEPT ![w] = "expireOwned"]
    /\ cutoff' = [cutoff EXCEPT ![w] = expired]
    /\ UNCHANGED <<secretVars, todo>>

(* Faulty: the key is set without a time to live. *)
LockStays ==
    /\ FALSE
    /\ cronLock' = FALSE
    /\ UNCHANGED <<secretVars, phase, cutoff, todo>>

(* Nobody deletes the key; it runs out, whether the run has ended or not. *)
LockExpires ==
    /\ cronLock
    /\ cronLock' = FALSE
    /\ UNCHANGED <<secretVars, phase, cutoff, todo>>

NextPhase(p) ==
    CASE p = "expireOwned" -> "expiringOwned"
      [] p = "expiringOwned" -> "zeroAnon"
      [] p = "zeroAnon" -> "zeroingAnon"
      [] p = "zeroingAnon" -> "deleteAnon"
      [] p = "deleteAnon" -> "deletingAnon"
      [] OTHER -> "idle"

(* The statement is sent: its snapshot fixes the rows it will visit. *)
SweepStart(w) ==
    /\ phase[w] \in Bulk
    /\ todo' = [todo EXCEPT ![w] =
                  {s \in cutoff[w] : Matches(phase[w], committed[s])}]
    /\ phase' = [phase EXCEPT ![w] = NextPhase(@)]
    /\ UNCHANGED <<secretVars, cutoff, cronLock>>

(* It reaches row s, waiting for its lock first. *)
SweepRow(w, s) ==
    /\ phase[w] \in Running
    /\ s \in todo[w]
    /\ Unlocked(w, s)
    /\ IF Matches(phase[w], View(w, s))
         THEN Put(w, s, Swept(w, View(w, s)))
         ELSE UNCHANGED store
    /\ todo' = [todo EXCEPT ![w] = @ \ {s}]
    /\ UNCHANGED <<expired, users, requests, phase, cutoff, cronLock>>

(* Faulty: the statements run in a transaction nobody commits. *)
SweepUncommitted(w) ==
    /\ phase[w] \in Running
    /\ todo[w] = {}
    /\ phase' = [phase EXCEPT ![w] = NextPhase(@)]
    /\ cutoff' = IF NextPhase(phase[w]) = "idle" THEN [cutoff EXCEPT ![w] = {}] ELSE cutoff
    /\ UNCHANGED <<store, expired, users, requests, todo, cronLock>>

(* It has visited every row and commits. *)
SweepDone(w) ==
    /\ phase[w] \in Running
    /\ todo[w] = {}
    /\ Commit(w)
    /\ phase' = [phase EXCEPT ![w] = NextPhase(@)]
    /\ cutoff' = IF NextPhase(phase[w]) = "idle" THEN [cutoff EXCEPT ![w] = {}] ELSE cutoff
    /\ UNCHANGED <<expired, users, requests, todo, cronLock>>

(* The statement fails (deadlock victim, timeout, lost connection, crash):  *)
(* it is rolled back and the error logged; the rest of the run is skipped.  *)
SweepFail(w) ==
    /\ phase[w] # "idle"
    /\ Rollback(w)
    /\ phase' = [phase EXCEPT ![w] = "idle"]
    /\ cutoff' = [cutoff EXCEPT ![w] = {}]
    /\ todo' = [todo EXCEPT ![w] = {}]
    /\ UNCHANGED <<expired, users, requests, cronLock>>

Sweep(w) ==
    \/ SweepStart(w)
    \/ \E s \in Secret : SweepRow(w, s)
    \/ SweepDone(w)

WorkerNext ==
    \/ LockExpires
    \/ \E w \in Worker : Tick(w) \/ Sweep(w) \/ SweepFail(w)

=============================================================================
