----------------------------- MODULE TorchSecret -----------------------------
(***************************************************************************)
(* The life of a secret on the server: requests, the cleanup worker and    *)
(* account deletions over one table, and the properties that make the      *)
(* system correct.                                                         *)
(***************************************************************************)
EXTENDS ExpirationWorker, AccountDeletion

vars == <<secretVars, cleanup, deletion>>

(* Sessions of different kinds are different sessions. *)
ASSUME SessionAssumption ==
    /\ Request \cap Worker = {}
    /\ Request \cap User = {}
    /\ Worker \cap User = {}

Init == SecretsInit /\ WorkerInit /\ AccountInit

Next ==
    \/ SecretsNext /\ UNCHANGED <<cleanup, deletion>>
    \/ WorkerNext /\ UNCHANGED deletion
    \/ AccountNext /\ UNCHANGED cleanup

Spec == Init /\ [][Next]_vars

-----------------------------------------------------------------------------
(* Two bulk statements that lock the same rows in different orders wait for *)
(* each other; PostgreSQL finds the cycle and makes one of them fail.       *)
Deadlocked(w, u) ==
    /\ \E s \in todo[w] : holder[s] = u
    /\ \E s \in pending[u] : holder[s] = w

BreakDeadlock ==
    \E w \in Worker, u \in User :
        /\ Deadlocked(w, u)
        /\ \/ SweepFail(w) /\ UNCHANGED deletion
           \/ DetachFail(u) /\ UNCHANGED cleanup

(* Scheduling: a handler that has started, a statement that was sent and a *)
(* cron job go on.  The fairness is strong where a row lock is awaited,    *)
(* since PostgreSQL queues its waiters, and for the tick, since the Redis  *)
(* key lives 299 seconds and ticks are 300 seconds apart.  Cleanup runs do *)
(* not fail forever.                                                       *)
Fairness ==
    /\ \A r \in Request : SF_vars(Proceed(r) /\ UNCHANGED <<cleanup, deletion>>)
    /\ \A w \in Worker : /\ SF_vars(Sweep(w) /\ UNCHANGED deletion)
                          /\ SF_vars(Tick(w) /\ UNCHANGED deletion)
    /\ \A u \in User : SF_vars(Detach(u) /\ UNCHANGED cleanup)
    /\ WF_vars(LockExpires /\ UNCHANGED deletion)
    /\ WF_vars(BreakDeadlock)
    /\ <>[][\A w \in Worker : ~SweepFail(w)]_vars

LiveSpec == Spec /\ Fairness

-----------------------------------------------------------------------------
(* Types. *)
TypeOK ==
    /\ StoreTypeOK
    /\ expired \in SUBSET Secret
    /\ users \in SUBSET User
    /\ pc \in [Request -> Location]
    /\ call \in [Request -> Call]
    /\ seen \in [Request -> Row]
    /\ result \in [Request -> Result]
    /\ mail \in SUBSET Request
    /\ WorkerTypeOK
    /\ AccountTypeOK

(* The handler has committed; its answer is on the wire or received. *)
Answered(r) == pc[r] \in {"reply", "done"}

(* The answer carries the ciphertext the sender sealed. *)
Delivers(r) ==
    /\ Answered(r)
    /\ result[r].kind = "ok"
    /\ result[r].cipher = "sealed"

-----------------------------------------------------------------------------
(* Safety. *)

(* verifyAndRetrieve, "FOR UPDATE serializes concurrent calls": of all the  *)
(* requests for a password-protected secret, whatever their kind and        *)
(* however they overlap, at most one is given the ciphertext.               *)
ProtectedDeliveredOnce ==
    \A q, r \in Request :
        /\ Delivers(q)
        /\ Delivers(r)
        /\ call[q].id = call[r].id
        /\ committed[call[r].id].pw
        => q = r

(* Zero-then-delete: once somebody has been given the ciphertext, or an     *)
(* owner told that the secret is deleted, the database no longer has it.    *)
AnsweredMeansErased ==
    \A r \in Request :
        Delivers(r) \/ (Answered(r) /\ result[r].kind = "deleted")
            => committed[call[r].id].cipher # "sealed"

(* Brute force: no two wrong passwords for one secret are answered with the *)
(* same number of remaining attempts, so that MAX_PASSWORD_ATTEMPTS bounds  *)
(* the wrong answers a secret ever gives, concurrent ones included.         *)
WrongAnswersCountDown ==
    \A q, r \in Request :
        /\ Answered(q) /\ result[q].kind = "wrong"
        /\ Answered(r) /\ result[r].kind = "wrong"
        /\ call[q].id = call[r].id
        /\ result[q].left = result[r].left
        => q = r

(* Zero attempts remaining is only ever said of a secret that is gone. *)
ExhaustedMeansGone ==
    \A r \in Request :
        Answered(r) /\ result[r].kind = "wrong" /\ result[r].left = 0
            => committed[call[r].id].life = "gone"

(* The dashboard's history: a row that no longer counts as active holds no  *)
(* ciphertext, whichever of the handlers, the worker or an account deletion *)
(* got there first.                                                         *)
InactiveMeansErased ==
    \A s \in Secret : committed[s].status # "active" => committed[s].cipher # "sealed"

(* The expiry guard of every reader: a request that comes in after          *)
(* expiresAt is not given the ciphertext, cleaned up or not.                *)
NoLateDelivery == \A r \in Request : Delivers(r) => ~call[r].late

(* Once an account is gone no secret points at it, the ones its owner      *)
(* created while the deletion was under way included.                      *)
GoneAccountOwnsNothing ==
    \A u \in User, s \in Secret : leaving[u] = "gone" => committed[s].owner # u

-----------------------------------------------------------------------------
(* What a step may never do. *)

(* A row that is erased, gone or no longer active never goes back, although *)
(* handlers write columns they decided on long before.                      *)
NoWayBack(s) ==
    /\ committed[s].life = "gone" => committed'[s] = committed[s]
    /\ committed[s].cipher = "zero" => committed'[s].cipher # "sealed"
    /\ committed[s].status # "active" /\ committed'[s].life = "live"
         => committed'[s].status # "active"
    /\ committed'[s].life = "live" /\ committed[s].life = "live"
         => committed'[s].attempts >= committed[s].attempts

ErasureIsFinal == [][\A s \in Secret : NoWayBack(s)]_committed

(* A cleanup run that ends without an error has erased everything that had *)
(* expired when it started, even rows an account deletion turned from      *)
(* owned to anonymous between or during its three statements.              *)
CompleteRun(w) ==
    SweepDone(w) /\ phase'[w] = "idle"
        => \A s \in cutoff[w] : committed'[s].cipher # "sealed"

CleanupComplete == [][\A w \in Worker : CompleteRun(w)]_vars

-----------------------------------------------------------------------------
(* What must happen. *)

(* A secret that expires does not keep its ciphertext, visited or not. *)
ExpiredErased ==
    \A s \in Secret : s \in expired ~> committed[s].cipher # "sealed"

(* No request waits forever for a row lock, and no answer is forgotten. *)
EveryRequestAnswered ==
    \A r \in Request : pc[r] = "asked" ~> pc[r] = "done"

(* An account deletion comes to an end. *)
DeletionEnds ==
    \A u \in User : leaving[u] = "detach" ~> leaving[u] \in {"gone", "no"}

-----------------------------------------------------------------------------
(* The abstract promise and the state it sees in the implementation. *)

(* Requests that have read the ciphertext and may still be going to answer. *)
Holding(r) ==
    /\ call[r].op \in {"get", "verify"}
    /\ seen[r].cipher = "sealed"
    /\ \/ pc[r] \in {"read", "zero", "consume"}
       \/ pc[r] = "commit" /\ result[r].kind = "ok"

StateOf == [s \in Secret |->
    IF committed[s].life = "unborn" THEN "new"
    ELSE IF committed[s].cipher = "sealed" THEN "sealed" ELSE "spent"]

GuardedOf == {s \in Secret : committed[s].pw}

(* For each secret, the requests for it that Holding or Delivers is true of. *)
RacingOf == [s \in Secret |-> {r \in Request : call[r].id = s /\ Holding(r)}]
GotOf == [s \in Secret |-> {r \in Request : call[r].id = s /\ Delivers(r)}]

Promise == INSTANCE OneTimeSecret WITH
    Reader <- Request, state <- StateOf, guarded <- GuardedOf, racing <- RacingOf, got <- GotOf

(* The server keeps the promise of OneTimeSecret. *)
KeepsPromise == Promise!Spec

-----------------------------------------------------------------------------
(* What the documentation says and the code does not do. *)

(* README.md:22: deletion in the transaction that serves the secret         *)
(* "prevents replay even under concurrent requests".                        *)
DeliveredOnce ==
    \A q, r \in Request :
        Delivers(q) /\ Delivers(r) /\ call[q].id = call[r].id => q = r

(* routes/secrets.ts:239: a second GET of a viewed secret is answered like  *)
(* one of a secret that never existed, with 404, and never with a 200 that  *)
(* carries the zeros left in the row.                                       *)
NoZerosServed ==
    \A r \in Request : Answered(r) /\ result[r].kind = "ok" => result[r].cipher = "sealed"

=============================================================================
