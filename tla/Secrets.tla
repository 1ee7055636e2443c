------------------------------- MODULE Secrets -------------------------------
(***************************************************************************)
(* server/src/services/secrets.service.ts, one action per awaited database *)
(* statement, under the routes of server/src/routes/secrets.ts.            *)
(*                                                                         *)
(* A request runs its handler once.  pc is where the handler is suspended, *)
(* seen the row its SELECT returned, result what it will answer; the       *)
(* client has the answer when pc is "done".  Between any two steps other   *)
(* requests, the cleanup worker, an account deletion or a failure may run. *)
(***************************************************************************)
EXTENDS RowStore

CONSTANTS
    Request,    \* HTTP requests; each may arrive once
    Kind,       \* the kinds of secrets that people create
    Traffic,    \* the kinds of requests that arrive
    NoSecret    \* the id of a request that has not arrived

ASSUME SecretsAssumption ==
    /\ Request \subseteq Session
    /\ Kind \subseteq [owner : User \cup {NoUser}, pw : BOOLEAN, notify : BOOLEAN]
    /\ Traffic \subseteq {"get", "verify", "meta", "delete"}
    /\ NoSecret \notin Secret

VARIABLES
    expired,    \* secrets whose expiresAt has passed
    users,      \* accounts whose row a new secret may refer to
    pc,         \* where each request's handler is suspended
    call,       \* what each request asks for
    seen,       \* the row the handler read
    result,     \* what the handler is going to answer
    mail        \* requests that dispatched a "secret viewed" notification

requests == <<pc, call, seen, result, mail>>
secretVars == <<store, expired, users, requests>>

MaxPasswordAttempts == 3

Location == {"idle", "asked", "locked", "read", "zero", "consume", "purge",
             "remove", "count", "zeroNow", "markNow", "erase", "commit",
             "reply", "done"}

(* late records whether the secret had expired when the request came in. *)
Call == [op   : {"none", "get", "verify", "meta", "delete"},
         id   : Secret \cup {NoSecret},
         user : User \cup {NoUser},
         good : BOOLEAN,
         late : BOOLEAN]

NoCall == [op |-> "none", id |-> NoSecret, user |-> NoUser,
           good |-> FALSE, late |-> FALSE]

Result == [kind   : {"none", "null", "ok", "wrong", "meta", "deleted", "error"},
           cipher : {"none", "sealed", "zero"},
           left   : Nat]

NoResult == [kind |-> "none", cipher |-> "none", left |-> 0]
Null     == [NoResult EXCEPT !.kind = "null"]
Failed   == [NoResult EXCEPT !.kind = "error"]
Deleted  == [NoResult EXCEPT !.kind = "deleted"]
Wrong(n)   == [NoResult EXCEPT !.kind = "wrong", !.left = n]
Found(row) == [NoResult EXCEPT !.kind = "ok", !.cipher = row.cipher]
Meta(row)  == [NoResult EXCEPT !.kind = "meta",
                 !.left = IF row.attempts >= MaxPasswordAttempts THEN 0
                          ELSE MaxPasswordAttempts - row.attempts]

SecretsInit ==
    /\ StoreInit
    /\ expired = {}
    /\ users = User
    /\ pc = [r \in Request |-> "idle"]
    /\ call = [r \in Request |-> NoCall]
    /\ seen = [r \in Request |-> Unborn]
    /\ result = [r \in Request |-> NoResult]
    /\ mail = {}

-----------------------------------------------------------------------------
(* Steps of a handler. *)

At(r, op, loc) == call[r].op = op /\ pc[r] = loc

Goto(r, loc) == pc' = [pc EXCEPT ![r] = loc]

(* The handler returns res at location loc: "commit" out of a transaction, *)
(* "reply" otherwise.                                                      *)
Return(r, res, loc) ==
    /\ Goto(r, loc)
    /\ result' = [result EXCEPT ![r] = res]

Zeroed(row) == [row EXCEPT !.cipher = "zero"]
Viewed(row) == [row EXCEPT !.status = "viewed"]
SoftExpired(row) == [row EXCEPT !.status = "expired"]
SoftDeleted(row) == [row EXCEPT !.cipher = "zero", !.status = "deleted"]

(* Faulty: the column counts down from its default of 0. *)
CountedDown(row) == [row EXCEPT !.attempts = @ - 1]
Counted(row) == [row EXCEPT !.attempts = @ + 1]

(* A plain SELECT by id, and where the handler continues if it finds a row. *)
Select(r, found, notFoundAt) ==
    LET s == call[r].id IN
    /\ UNCHANGED <<store, expired, users, call, mail>>
    /\ IF Exists(r, s)
         THEN /\ seen' = [seen EXCEPT ![r] = View(r, s)]
              /\ Goto(r, found)
              /\ UNCHANGED result
         ELSE /\ Return(r, Null, notFoundAt)
              /\ UNCHANGED seen

(* An UPDATE or DELETE by id inside the transaction of r. *)
Write(r, row) ==
    /\ Put(r, call[r].id, row)
    /\ UNCHANGED <<expired, users, call, seen>>

Latest(r) == View(r, call[r].id)

(* Faulty: the ciphertext is not overwritten before the row is kept. *)
ZeroSkipped(r, loc) ==
    /\ Write(r, Latest(r))
    /\ Goto(r, loc)
    /\ UNCHANGED <<result, mail>>

(* UPDATE ... SET ciphertext = zeros, then on to loc. *)
ZeroThen(r, loc) ==
    /\ Write(r, Zeroed(Latest(r)))
    /\ Goto(r, loc)
    /\ UNCHANGED <<result, mail>>

(* Faulty: the whole row that was read is written back, not one column. *)
ConsumeStale(r) ==
    /\ Write(r, IF seen[r].owner # NoUser THEN Viewed(seen[r]) ELSE Gone(Latest(r)))
    /\ mail' = IF seen[r].notify /\ seen[r].owner # NoUser THEN mail \cup {r} ELSE mail
    /\ Return(r, Found(seen[r]), "commit")

(* The last write of a successful retrieval: an owned row is kept as viewed, *)
(* an anonymous one deleted.  The owner the handler read decides, not the    *)
(* owner the row has now.  The notification is dispatched before COMMIT.     *)
Consume(r) ==
    /\ Write(r, IF seen[r].owner # NoUser THEN Viewed(Latest(r)) ELSE Gone(Latest(r)))
    /\ mail' = IF seen[r].notify /\ seen[r].owner # NoUser THEN mail \cup {r} ELSE mail
    /\ Return(r, Found(seen[r]), "commit")

(* The second half of zero-then-delete; the answer is already decided. *)
Remove(r) ==
    /\ Write(r, Gone(Latest(r)))
    /\ Goto(r, "commit")
    /\ UNCHANGED <<result, mail>>

(* A decision the handler takes without touching the database. *)
Decide(r) == UNCHANGED <<store, expired, users, call, seen, mail>>

-----------------------------------------------------------------------------
(* createSecret, as POST / calls it: one INSERT.  Anonymous requests never  *)
(* carry notify; a dead account violates the foreign key.                   *)
CreateSecret(s, k) ==
    /\ k.owner \in users \cup {NoUser}
    /\ k.notify => k.owner # NoUser
    /\ AutoInsert(s, [Unborn EXCEPT !.life = "live", !.cipher = "sealed", !.pw = k.pw,
                                     !.owner = k.owner, !.notify = k.notify])
    /\ UNCHANGED <<expired, users, requests>>

(* Time passes the expiresAt of a stored secret; it is never moved. *)
Expire(s) ==
    /\ committed[s].life = "live"
    /\ expired' = expired \cup {s}
    /\ UNCHANGED <<store, users, requests>>

(* A request for an id someone was given.  Only a signed-in user deletes. *)
Arrive(r, op, s, u, good) ==
    /\ pc[r] = "idle"
    /\ committed[s].life # "unborn"
    /\ op # "verify" => ~good
    /\ IF op = "delete" THEN u \in users ELSE u = NoUser
    /\ call' = [call EXCEPT ![r] = [op |-> op, id |-> s, user |-> u,
                                    good |-> good, late |-> s \in expired]]
    /\ Goto(r, "asked")
    /\ UNCHANGED <<store, expired, users, seen, result, mail>>

-----------------------------------------------------------------------------
(* retrieveAndDestroy: a transaction whose SELECT takes no lock. *)

RetrieveSelect(r) ==
    /\ At(r, "get", "asked")
    /\ Select(r, "read", "commit")

(* Faulty: expiry is left to the cleanup worker. *)
RetrieveIgnoresExpiry(r) ==
    /\ At(r, "get", "read")
    /\ Decide(r)
    /\ IF seen[r].pw
         THEN Return(r, Null, "commit")
         ELSE Goto(r, "zero") /\ UNCHANGED result

(* Faulty: GET serves password-protected secrets as well. *)
RetrieveIgnoresHash(r) ==
    /\ At(r, "get", "read")
    /\ Decide(r)
    /\ IF call[r].id \in expired
         THEN Return(r, Null, "purge")
         ELSE Goto(r, "zero") /\ UNCHANGED result

RetrieveCheck(r) ==
    /\ At(r, "get", "read")
    /\ Decide(r)
    /\ \/ /\ call[r].id \in expired
          /\ Return(r, Null, "purge")
       \/ /\ call[r].id \notin expired
          /\ seen[r].pw
          /\ Return(r, Null, "commit")
       \/ /\ call[r].id \notin expired
          /\ ~seen[r].pw
          /\ Goto(r, "zero")
          /\ UNCHANGED result

RetrievePurge(r) == At(r, "get", "purge") /\ ZeroThen(r, "remove")

RetrieveRemove(r) == At(r, "get", "remove") /\ Remove(r)

RetrieveZero(r) == At(r, "get", "zero") /\ ZeroThen(r, "consume")

RetrieveConsume(r) == At(r, "get", "consume") /\ Consume(r)

-----------------------------------------------------------------------------
(* verifyAndRetrieve: the same, behind SELECT ... FOR UPDATE. *)

(* Faulty: a plain SELECT in place of SELECT ... FOR UPDATE. *)
VerifyUnlocked(r) ==
    /\ At(r, "verify", "asked")
    /\ Goto(r, "locked")
    /\ UNCHANGED <<store, expired, users, call, seen, result, mail>>

VerifyLock(r) ==
    LET s == call[r].id IN
    /\ At(r, "verify", "asked")
    /\ Unlocked(r, s)
    /\ UNCHANGED <<expired, users, call, seen, mail>>
    /\ \/ /\ LockRow(r, s)
          /\ Goto(r, "locked")
          /\ UNCHANGED result
       \/ /\ ~Exists(r, s)
          /\ Return(r, Null, "commit")
          /\ UNCHANGED store

VerifySelect(r) ==
    /\ At(r, "verify", "locked")
    /\ Select(r, "read", "commit")

(* Faulty: the last wrong password is counted and does not destroy. *)
VerifyOffByOne(r) ==
    LET s == call[r].id
        attempts == seen[r].attempts + 1
    IN
    /\ At(r, "verify", "read")
    /\ Decide(r)
    /\ IF s \in expired \/ ~seen[r].pw \/ attempts > MaxPasswordAttempts
         THEN Return(r, Null, "purge")
         ELSE IF call[r].good THEN Goto(r, "zero") /\ UNCHANGED result
         ELSE Return(r, Wrong(MaxPasswordAttempts - attempts), "count")

(* Expiry, then the hash, then argon2; the third wrong password destroys. *)
VerifyCheck(r) ==
    LET s == call[r].id
        attempts == seen[r].attempts + 1
    IN
    /\ At(r, "verify", "read")
    /\ Decide(r)
    /\ \/ /\ s \in expired
          /\ Return(r, Null, "purge")
       \/ /\ s \notin expired
          /\ ~seen[r].pw
          /\ Return(r, Null, "commit")
       \/ /\ s \notin expired
          /\ seen[r].pw
          /\ call[r].good
          /\ Goto(r, "zero")
          /\ UNCHANGED result
       \/ /\ s \notin expired
          /\ seen[r].pw
          /\ ~call[r].good
          /\ IF attempts >= MaxPasswordAttempts
               THEN Return(r, Wrong(0), "purge")
               ELSE Return(r, Wrong(MaxPasswordAttempts - attempts), "count")

VerifyPurge(r) == At(r, "verify", "purge") /\ ZeroThen(r, "remove")

VerifyRemove(r) == At(r, "verify", "remove") /\ Remove(r)

VerifyZero(r) == At(r, "verify", "zero") /\ ZeroThen(r, "consume")

VerifyConsume(r) == At(r, "verify", "consume") /\ Consume(r)

(* Faulty: the answer counts the attempt and the row does not. *)
VerifyUncounted(r) ==
    /\ At(r, "verify", "count")
    /\ Goto(r, "commit")
    /\ UNCHANGED <<store, expired, users, call, seen, result, mail>>

VerifyCount(r) ==
    /\ At(r, "verify", "count")
    /\ Write(r, Counted(Latest(r)))
    /\ Goto(r, "commit")
    /\ UNCHANGED <<result, mail>>

-----------------------------------------------------------------------------
(* getSecretMeta: no transaction; each statement commits by itself. *)

MetaSelect(r) ==
    /\ At(r, "meta", "asked")
    /\ Select(r, "read", "reply")

MetaCheck(r) ==
    /\ At(r, "meta", "read")
    /\ Decide(r)
    /\ IF call[r].id \in expired
         THEN Return(r, Null, "zeroNow")
         ELSE Return(r, Meta(seen[r]), "reply")

(* Faulty: the status is set before the ciphertext is overwritten. *)
MetaMarkFirst(r) ==
    LET s == call[r].id IN
    /\ At(r, "meta", "zeroNow")
    /\ AutoPut(s, SoftExpired(committed[s]))
    /\ Goto(r, "markNow")
    /\ UNCHANGED <<expired, users, call, seen, result, mail>>

MetaZero(r) ==
    LET s == call[r].id IN
    /\ At(r, "meta", "zeroNow")
    /\ AutoPut(s, Zeroed(committed[s]))
    /\ Goto(r, "markNow")
    /\ UNCHANGED <<expired, users, call, seen, result, mail>>

MetaMark(r) ==
    LET s == call[r].id IN
    /\ At(r, "meta", "markNow")
    /\ AutoPut(s, IF seen[r].owner # NoUser THEN SoftExpired(committed[s]) ELSE Gone(committed[s]))
    /\ Goto(r, "reply")
    /\ UNCHANGED <<expired, users, call, seen, result, mail>>

-----------------------------------------------------------------------------
(* deleteUserSecret: a transaction whose SELECT takes no lock; its checks   *)
(* look only at that snapshot.                                              *)

DeleteSelect(r) ==
    LET s == call[r].id
        mine == /\ Exists(r, s)
                /\ View(r, s).owner = call[r].user
                /\ View(r, s).status = "active"
    IN
    /\ At(r, "delete", "asked")
    /\ UNCHANGED <<store, expired, users, call, mail>>
    /\ \/ /\ mine
          /\ seen' = [seen EXCEPT ![r] = View(r, s)]
          /\ Goto(r, "erase")
          /\ UNCHANGED result
       \/ /\ ~mine
          /\ Return(r, Null, "commit")
          /\ UNCHANGED seen

DeleteErase(r) ==
    /\ At(r, "delete", "erase")
    /\ Write(r, SoftDeleted(Latest(r)))
    /\ Return(r, Deleted, "commit")
    /\ UNCHANGED mail

-----------------------------------------------------------------------------
(* COMMIT, then the HTTP answer; or the handler throws: the transaction is  *)
(* rolled back and the client gets an error or, after a crash, nothing.  An *)
(* answer can be lost after COMMIT as well.                                 *)

(* The row the handler read is out of scope. *)
Forget(r) == seen' = [seen EXCEPT ![r] = Unborn]

(* Faulty: the handler answers and its transaction stays open. *)
CommitForgotten(r) ==
    /\ pc[r] = "commit"
    /\ Goto(r, "reply")
    /\ Forget(r)
    /\ UNCHANGED <<store, expired, users, call, result, mail>>

CommitRequest(r) ==
    /\ pc[r] = "commit"
    /\ Commit(r)
    /\ Goto(r, "reply")
    /\ Forget(r)
    /\ UNCHANGED <<expired, users, call, result, mail>>

Reply(r) ==
    /\ pc[r] = "reply"
    /\ Goto(r, "done")
    /\ UNCHANGED <<store, expired, users, call, seen, result, mail>>

Fail(r) ==
    /\ pc[r] \notin {"idle", "done"}
    /\ Rollback(r)
    /\ Return(r, Failed, "done")
    /\ Forget(r)
    /\ UNCHANGED <<expired, users, call, mail>>

-----------------------------------------------------------------------------
Retrieve(r) == \/ RetrieveSelect(r) \/ RetrieveCheck(r)
               \/ RetrievePurge(r)  \/ RetrieveRemove(r)
               \/ RetrieveZero(r)   \/ RetrieveConsume(r)

Verify(r) == \/ VerifyLock(r)  \/ VerifySelect(r) \/ VerifyCheck(r)
             \/ VerifyPurge(r) \/ VerifyRemove(r)
             \/ VerifyZero(r)  \/ VerifyConsume(r)
             \/ VerifyCount(r)

GetMeta(r) == MetaSelect(r) \/ MetaCheck(r) \/ MetaZero(r) \/ MetaMark(r)

DeleteOwn(r) == DeleteSelect(r) \/ DeleteErase(r)

(* The steps a started request takes on its own. *)
Proceed(r) == \/ Retrieve(r) \/ Verify(r) \/ GetMeta(r) \/ DeleteOwn(r)
              \/ CommitRequest(r) \/ Reply(r)

SecretsNext ==
    \/ \E s \in Secret, k \in Kind : CreateSecret(s, k)
    \/ \E s \in Secret : Expire(s)
    \/ \E r \in Request, s \in Secret, u \in User \cup {NoUser}, good \in BOOLEAN,
          op \in Traffic : Arrive(r, op, s, u, good)
    \/ \E r \in Request : Proceed(r) \/ Fail(r)

=============================================================================
