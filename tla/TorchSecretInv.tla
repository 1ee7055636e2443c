---------------------------- MODULE TorchSecretInv ----------------------------
(***************************************************************************)
(* The inductive invariant behind the safety properties of TorchSecret.    *)
(*                                                                         *)
(* StoreInv says what a written but uncommitted version of a row may be:   *)
(* a descendant of the committed one, so that no COMMIT brings anything    *)
(* back.  RequestInv says what a handler knows of the row it is working on *)
(* at each location: from a plain SELECT almost nothing, behind FOR UPDATE *)
(* that the row it read is still the committed one.                        *)
(***************************************************************************)
EXTENDS TorchSecret

(* What b may be if a is an earlier version of the same row. *)
Descends(a, b) ==
    /\ a.life = "gone" => b = a
    /\ a.life # "unborn" => b.life # "unborn" /\ b.pw = a.pw
    /\ a.life # "unborn" /\ a.cipher # "sealed" => b.cipher # "sealed"
    /\ a.life # "unborn" /\ a.status # "active" /\ b.life = "live" => b.status # "active"
    /\ a.life = "live" /\ b.life = "live" => b.attempts >= a.attempts

(* No ciphertext in a row that is gone or no longer active. *)
Clean(row) ==
    /\ row.status # "active" => row.cipher # "sealed"
    /\ row.life # "live" => row.cipher = "none" /\ row.status = "active"

StoreInv ==
    \A s \in Secret :
        /\ Clean(committed[s])
        /\ Clean(draft[s])
        /\ holder[s] = NoSession => draft[s] = committed[s]
        /\ holder[s] # NoSession => committed[s].life = "live"
        /\ Descends(committed[s], draft[s])

(* The handler has promised an answer that needs the ciphertext erased. *)
Erasing(r) ==
    \/ pc[r] \in {"consume", "remove", "markNow"}
    \/ pc[r] = "commit" /\ result[r].kind \in {"ok", "deleted"}

(* Locations of verifyAndRetrieve at which it holds the row lock. *)
Locked(r) ==
    /\ call[r].op = "verify"
    /\ \/ pc[r] \in {"locked", "read", "zero", "consume", "purge", "remove", "count"}
       \/ pc[r] = "commit" /\ result[r].kind # "null"

(* Locations at which the handler has written nothing and holds nothing. *)
Lockless(r) ==
    \/ pc[r] \in {"idle", "asked", "reply", "done"}
    \/ call[r].op = "meta"

(* A wrong password: the attempt it counts is the one after the committed. *)
Counting(r) ==
    LET s == call[r].id IN
    /\ result[r].left > 0 => result[r].left + committed[s].attempts + 1 = MaxPasswordAttempts
    /\ pc[r] = "count" => result[r].left > 0 /\ draft[s] = committed[s]
    /\ pc[r] \in {"purge", "remove"} => result[r].left = 0
    /\ pc[r] = "commit" =>
         IF result[r].left = 0 THEN draft[s].life = "gone"
         ELSE draft[s].life = "live" /\ draft[s].attempts = committed[s].attempts + 1

KindOfOp(r) ==
    /\ pc[r] # "idle" => call[r].id \in Secret /\ call[r].op # "none"
    /\ pc[r] \in {"idle", "asked", "locked", "zero", "consume"} => result[r].kind = "none"
    /\ pc[r] = "read" => result[r].kind = "none"
    /\ pc[r] \in {"locked", "count"} => call[r].op = "verify"
    /\ pc[r] \in {"zero", "consume", "purge", "remove"} => call[r].op \in {"get", "verify"}
    /\ pc[r] \in {"zeroNow", "markNow"} => call[r].op = "meta"
    /\ pc[r] = "erase" => call[r].op = "delete"
    /\ result[r].kind = "ok" => call[r].op \in {"get", "verify"}
    /\ result[r].kind = "wrong" => call[r].op = "verify"
    /\ pc[r] \in {"purge", "remove"} => result[r].kind \in {"null", "wrong"}
    /\ pc[r] = "count" => result[r].kind = "wrong"
    /\ pc[r] = "commit" => result[r].kind \in {"null", "ok", "wrong", "deleted"}

(* What a request knows of its secret before it has answered. *)
WorkInv(r) ==
    LET s == call[r].id IN
    /\ pc[r] # "idle" => committed[s].life # "unborn"
    /\ Lockless(r) => \A x \in Secret : holder[x] # r
    /\ Erasing(r) => View(r, s).cipher # "sealed"
    /\ Locked(r) => holder[s] = r
    /\ Locked(r) /\ pc[r] \in {"locked", "read", "zero"} => draft[s] = committed[s]
    /\ Locked(r) /\ pc[r] \in {"read", "zero", "consume"} => seen[r] = committed[s]
    /\ Locked(r) /\ pc[r] = "commit" /\ result[r].kind = "ok" =>
         result[r].cipher = committed[s].cipher
    /\ call[r].op = "get" /\ pc[r] \in {"read", "zero", "consume"} =>
         seen[r].pw = committed[s].pw
    /\ call[r].op = "get" /\ pc[r] \in {"zero", "consume"} => ~seen[r].pw
    /\ call[r].op = "get" /\ result[r].kind = "ok" => ~committed[s].pw
    /\ result[r].kind = "wrong" /\ ~Answered(r) => Counting(r)

(* What is true of its secret once it has answered. *)
AnswerInv(r) ==
    LET s == call[r].id IN
    Answered(r) =>
        /\ result[r].kind \in {"ok", "deleted"} => committed[s].cipher # "sealed"
        /\ result[r].kind = "wrong" =>
             \/ committed[s].life = "gone"
             \/ /\ committed[s].life = "live"
                /\ result[r].left > 0
                /\ committed[s].attempts + result[r].left >= MaxPasswordAttempts

RequestInv(r) == KindOfOp(r) /\ WorkInv(r) /\ AnswerInv(r)

(* A request that came too late has been stopped by the expiry guard, or is *)
(* going to be: what it asks for stays expired.                             *)
LateInv(r) ==
    call[r].late => /\ call[r].id \in expired
                    /\ pc[r] \notin {"zero", "consume"}
                    /\ result[r].kind # "ok"

IInv ==
    /\ TypeOK
    /\ StoreInv
    /\ \A r \in Request : RequestInv(r) /\ LateInv(r)
    /\ ProtectedDeliveredOnce
    /\ WrongAnswersCountDown

=============================================================================
