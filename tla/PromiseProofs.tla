---------------------------- MODULE PromiseProofs -----------------------------
(***************************************************************************)
(* What the server promises beyond its locks and rows.  First what the     *)
(* bulk statements achieve: an account that is gone owns nothing, and a    *)
(* cleanup run that ends without an error has erased what had expired.     *)
(* Each statement visits the rows of a snapshot one by one; what it has    *)
(* not visited, and the snapshot did not show, is what the others may      *)
(* still do to a row's owner.  Then that the server keeps the promise of   *)
(* OneTimeSecret: every step of a handler, of the worker or of an account  *)
(* deletion is a step of the abstract specification, or one that nobody    *)
(* outside sees.                                                           *)
(***************************************************************************)
EXTENDS TorchSecretProofs

(* A later version has the same owner, or none any more. *)
OwnerLeft(a, b) ==
    /\ b.owner \in {a.owner, NoUser}
    /\ b.life # "live" => b.owner = NoUser

OwnerInv ==
    \A s \in Secret :
        /\ OwnerLeft(committed[s], draft[s])
        /\ committed[s].life # "live" => committed[s].owner = NoUser

(* Rows only lose their owners; new ones have one whose account exists. *)
OwnersFade ==
    \A s \in Secret :
        \/ committed'[s].owner \in {committed[s].owner, NoUser}
        \/ committed[s].life = "unborn" /\ committed'[s].owner \in users

(* The statement that deletes the account's row refuses new secrets, and has
   the others in front of it or in its transaction. *)
AccountKnows(u) ==
    /\ leaving[u] \in {"dropping", "gone"} => u \notin users
    /\ leaving[u] = "dropping" =>
         \A s \in Secret : committed[s].owner = u =>
             s \in pending[u] \/ (holder[s] = u /\ draft[s].owner # u)
    /\ leaving[u] = "gone" => \A s \in Secret : committed[s].owner # u

(* What is still sealed of what had expired, after each statement of a run:
   after the first only what nobody owns, after the second nothing. *)
WorkerKnows(w) ==
    \A s \in Secret :
        /\ holder[s] = w => draft[s].cipher # "sealed"
        /\ s \in cutoff[w] => committed[s].life # "unborn"
        /\ s \in cutoff[w] /\ committed[s].cipher = "sealed" =>
             /\ phase[w] = "expiringOwned" =>
                  committed[s].owner = NoUser \/ s \in todo[w] \/ holder[s] = w
             /\ phase[w] \in {"zeroAnon", "zeroingAnon"} => committed[s].owner = NoUser
             /\ phase[w] = "zeroingAnon" => s \in todo[w] \/ holder[s] = w
             /\ phase[w] \notin {"deleteAnon", "deletingAnon"}

BulkInv ==
    /\ OwnerInv
    /\ \A s \in expired : committed[s].life # "unborn"
    /\ \A u \in User : AccountKnows(u)
    /\ \A w \in Worker : WorkerKnows(w)

-----------------------------------------------------------------------------
(* The store. *)

(* What every step does to the owners. *)
Fading == OwnerInv' /\ OwnersFade

LEMMA FadingIdle ==
  ASSUME OwnerInv, UNCHANGED <<committed, draft>>
  PROVE  Fading
  BY DEF Fading, OwnerInv, OwnersFade, OwnerLeft

LEMMA FadingPut ==
  ASSUME StoreTypeOK, OwnerInv, NEW t, NEW s \in Secret, NEW row,
         Put(t, s, row), Exists(t, s) => OwnerLeft(View(t, s), row)
  PROVE  Fading
  <1>1. CASE ~Exists(t, s)
    BY <1>1, FadingIdle DEF Put, store
  <1>2. CASE Exists(t, s)
    <2>1. /\ committed' = committed
          /\ draft' = [draft EXCEPT ![s] = row]
      BY <1>2 DEF Put
    <2>2. OwnerLeft(committed[s], row)
      BY <1>2 DEF View, OwnerInv, OwnerLeft
    <2> QED  BY <2>1, <2>2 DEF Fading, OwnerInv, OwnersFade, StoreTypeOK
  <1> QED  BY <1>1, <1>2

LEMMA FadingAutoPut ==
  ASSUME StoreTypeOK, OwnerInv, NEW s \in Secret, NEW row,
         AutoPut(s, row), OwnerLeft(committed[s], row)
  PROVE  Fading
  <1>1. CASE committed[s].life = "live"
    <2>1. /\ committed' = [committed EXCEPT ![s] = row]
          /\ draft' = [draft EXCEPT ![s] = row]
      BY <1>1 DEF AutoPut
    <2> QED  BY <2>1 DEF Fading, OwnerInv, OwnersFade, OwnerLeft, StoreTypeOK
  <1>2. CASE committed[s].life # "live"
    BY <1>2, FadingIdle DEF AutoPut, store
  <1> QED  BY <1>1, <1>2

LEMMA FadingCommit ==
  ASSUME StoreTypeOK, OwnerInv, NEW t, Commit(t)
  PROVE  Fading
  BY DEF Commit, View, Fading, OwnerInv, OwnersFade, OwnerLeft, StoreTypeOK

LEMMA FadingRollback ==
  ASSUME StoreTypeOK, OwnerInv, NEW t, Rollback(t)
  PROVE  Fading
  BY DEF Rollback, Fading, OwnerInv, OwnersFade, OwnerLeft, StoreTypeOK

(* What the statements make of a row. *)
LEMMA RowsFade ==
  ASSUME NEW row \in Row, row.life # "live" => row.owner = NoUser
  PROVE  /\ OwnerLeft(row, row)
         /\ OwnerLeft(row, Zeroed(row)) /\ OwnerLeft(row, Viewed(row))
         /\ OwnerLeft(row, SoftExpired(row)) /\ OwnerLeft(row, SoftDeleted(row))
         /\ OwnerLeft(row, Counted(row)) /\ OwnerLeft(row, Gone(row))
  BY DEF OwnerLeft, Row, Zeroed, Viewed, SoftExpired, SoftDeleted, Counted, Gone, Unborn

LEMMA ViewFades ==
  ASSUME StoreTypeOK, OwnerInv, NEW t, NEW s \in Secret
  PROVE  /\ View(t, s) \in Row
         /\ View(t, s).life # "live" => View(t, s).owner = NoUser
  BY ViewType DEF View, OwnerInv, OwnerLeft

-----------------------------------------------------------------------------
(* The handlers. *)

(* A write of a handler inside its transaction. *)
LEMMA WriteFades ==
  ASSUME Base, OwnerInv, NEW r \in Request, pc[r] # "idle", NEW row, Write(r, row),
         row \in {Zeroed(Latest(r)), Viewed(Latest(r)), Gone(Latest(r)),
                  SoftDeleted(Latest(r)), Counted(Latest(r))}
  PROVE  Fading
  <1>1. PICK s \in Secret : s = call[r].id
    BY DEF Base, RequestInv, KindOfOp
  <1>2. StoreTypeOK
    BY DEF Base, TypeOK
  <1>3. OwnerLeft(View(r, s), row)
    BY <1>1, <1>2, ViewFades, RowsFade DEF Latest
  <1> QED  BY <1>1, <1>2, <1>3, FadingPut DEF Write

LEMMA RequestFades ==
  ASSUME Base, OwnerInv, NEW r \in Request, Proceed(r) \/ Fail(r)
  PROVE  Fading
  <1>0. StoreTypeOK
    BY DEF Base, TypeOK
  <1>1. ASSUME NEW loc, pc[r] # "idle", ZeroThen(r, loc)
        PROVE  Fading
    BY <1>1, WriteFades DEF ZeroThen
  <1>2. ASSUME pc[r] # "idle", Remove(r)
        PROVE  Fading
    BY <1>2, WriteFades DEF Remove
  <1>3. ASSUME pc[r] # "idle", Consume(r)
        PROVE  Fading
    BY <1>3, WriteFades DEF Consume
  <1>4. CASE Retrieve(r)
    <2>1. CASE RetrieveSelect(r) \/ RetrieveCheck(r)
      BY <2>1, FadingIdle DEF RetrieveSelect, RetrieveCheck, Select, Decide, store
    <2>2. CASE RetrievePurge(r) \/ RetrieveZero(r)
      BY <2>2, <1>1 DEF RetrievePurge, RetrieveZero, At
    <2>3. CASE RetrieveRemove(r) \/ RetrieveConsume(r)
      BY <2>3, <1>2, <1>3 DEF RetrieveRemove, RetrieveConsume, At
    <2> QED  BY <1>4, <2>1, <2>2, <2>3 DEF Retrieve
  <1>5. CASE Verify(r)
    <2>1. CASE VerifyLock(r)
      BY <2>1, FadingIdle DEF VerifyLock, LockRow, store
    <2>2. CASE VerifySelect(r) \/ VerifyCheck(r)
      BY <2>2, FadingIdle DEF VerifySelect, VerifyCheck, Select, Decide, store
    <2>3. CASE VerifyPurge(r) \/ VerifyZero(r)
      BY <2>3, <1>1 DEF VerifyPurge, VerifyZero, At
    <2>4. CASE VerifyRemove(r) \/ VerifyConsume(r)
      BY <2>4, <1>2, <1>3 DEF VerifyRemove, VerifyConsume, At
    <2>5. CASE VerifyCount(r)
      BY <2>5, WriteFades DEF VerifyCount, At
    <2> QED  BY <1>5, <2>1, <2>2, <2>3, <2>4, <2>5 DEF Verify
  <1>6. CASE GetMeta(r)
    <2>1. CASE MetaSelect(r) \/ MetaCheck(r)
      BY <2>1, FadingIdle DEF MetaSelect, MetaCheck, Select, Decide, store
    <2>2. ASSUME pc[r] # "idle", NEW row, AutoPut(call[r].id, row),
                 row \in {Zeroed(committed[call[r].id]), SoftExpired(committed[call[r].id]),
                          Gone(committed[call[r].id])}
          PROVE  Fading
      <3>1. PICK s \in Secret : s = call[r].id
        BY <2>2 DEF Base, RequestInv, KindOfOp
      <3>2. OwnerLeft(committed[s], row)
        BY <1>0, <2>2, <3>1, RowsFade DEF OwnerInv, StoreTypeOK
      <3> QED  BY <1>0, <2>2, <3>1, <3>2, FadingAutoPut
    <2>3. CASE MetaZero(r)
      BY <2>2, <2>3 DEF MetaZero, At
    <2>4. CASE MetaMark(r)
      BY <2>2, <2>4 DEF MetaMark, At
    <2> QED  BY <1>6, <2>1, <2>3, <2>4 DEF GetMeta
  <1>7. CASE DeleteOwn(r)
    <2>1. CASE DeleteSelect(r)
      BY <2>1, FadingIdle DEF DeleteSelect, store
    <2>2. CASE DeleteErase(r)
      BY <2>2, WriteFades DEF DeleteErase, At
    <2> QED  BY <1>7, <2>1, <2>2 DEF DeleteOwn
  <1>8. CASE CommitRequest(r) \/ Reply(r) \/ Fail(r)
    BY <1>0, <1>8, FadingCommit, FadingRollback, FadingIdle
    DEF CommitRequest, Reply, Fail, store
  <1> QED  BY <1>4, <1>5, <1>6, <1>7, <1>8 DEF Proceed

-----------------------------------------------------------------------------
(* What the bulk statements know, while others work. *)

LEMMA AccountElse ==
  ASSUME Base, OwnersFade, NEW u \in User, AccountKnows(u), Spares(u),
         leaving'[u] = leaving[u], pending'[u] = pending[u],
         u \notin users => u \notin users'
  PROVE  AccountKnows(u)'
  <1>1. ASSUME NEW s \in Secret, committed'[s].owner = u, u \notin users
        PROVE  committed[s].owner = u
    BY <1>1, RowStoreAssumption DEF OwnersFade
  <1> QED  BY <1>1 DEF AccountKnows, Spares

LEMMA WorkerElse ==
  ASSUME Base, OwnersFade, Evolves, StoreTypeOK', NEW w \in Worker, WorkerKnows(w), Spares(w),
         phase'[w] = phase[w], cutoff'[w] = cutoff[w], todo'[w] = todo[w]
  PROVE  WorkerKnows(w)'
  <1> SUFFICES ASSUME NEW s \in Secret
               PROVE  /\ holder'[s] = w => draft'[s].cipher # "sealed"
                      /\ s \in cutoff[w] => committed'[s].life # "unborn"
                      /\ s \in cutoff[w] /\ committed'[s].cipher = "sealed" =>
                           /\ phase[w] = "expiringOwned" =>
                                committed'[s].owner = NoUser \/ s \in todo[w] \/ holder'[s] = w
                           /\ phase[w] \in {"zeroAnon", "zeroingAnon"} =>
                                committed'[s].owner = NoUser
                           /\ phase[w] = "zeroingAnon" => s \in todo[w] \/ holder'[s] = w
                           /\ phase[w] \notin {"deleteAnon", "deletingAnon"}
    BY DEF WorkerKnows
  <1>1. holder'[s] = w => holder[s] = w /\ draft'[s] = draft[s]
    BY DEF Spares
  <1>2. ASSUME s \in cutoff[w]
        PROVE  /\ committed[s].life # "unborn" /\ committed'[s].life # "unborn"
               /\ committed'[s].cipher = "sealed" => committed[s].cipher = "sealed"
               /\ committed[s].owner = NoUser => committed'[s].owner = NoUser
    BY <1>2 DEF WorkerKnows, Evolves, Descends, OwnersFade
  <1>3. holder[s] = w => holder'[s] = w
    BY DEF Spares
  <1> QED  BY <1>1, <1>2, <1>3 DEF WorkerKnows

(* So a step of session t keeps what every other account and run knows. *)
LEMMA OthersKnow ==
  ASSUME Base, BulkInv, Fading, NEW t, Sound(t), t \notin Worker, t \notin User,
         UNCHANGED <<cleanup, deletion, users>>,
         \A s \in expired' : committed'[s].life # "unborn"
  PROVE  BulkInv'
  <1>1. ASSUME NEW u \in User PROVE AccountKnows(u)'
    <2>1. u # t /\ u \in Session
      BY AccountAssumption
    <2> QED  BY <2>1, AccountElse DEF Sound, BulkInv, Fading, deletion
  <1>2. ASSUME NEW w \in Worker PROVE WorkerKnows(w)'
    <2>1. w # t /\ w \in Session
      BY WorkerAssumption
    <2> QED  BY <2>1, WorkerElse DEF Sound, BulkInv, Fading, cleanup
  <1> QED  BY <1>1, <1>2 DEF BulkInv, Fading

-----------------------------------------------------------------------------
(* Requests, and what happens outside them. *)

LEMMA ExpiredStaysBorn ==
  ASSUME Base, BulkInv, Evolves, expired' = expired
  PROVE  \A s \in expired' : committed'[s].life # "unborn"
  BY DEF Base, TypeOK, BulkInv, Evolves, Descends

LEMMA BulkSecrets ==
  ASSUME Base, BulkInv, SecretsNext, UNCHANGED <<cleanup, deletion>>
  PROVE  BulkInv'
  <1>1. ASSUME NEW r \in Request
        PROVE  r \notin Worker /\ r \notin User
    BY SessionAssumption
  <1>2. ASSUME NEW r \in Request, Proceed(r) \/ Fail(r)
        PROVE  BulkInv'
    <2>1. Sound(r) /\ UNCHANGED <<expired, users>>
      BY <1>2, RequestStep DEF GoodStep
    <2>2. Fading
      BY <1>2, RequestFades DEF BulkInv
    <2> QED  BY <1>1, <2>1, <2>2, ExpiredStaysBorn, OthersKnow DEF Sound
  <1>3. ASSUME NEW r \in Request, NEW op \in Traffic, NEW s \in Secret,
               NEW u \in User \cup {NoUser}, NEW good \in BOOLEAN, Arrive(r, op, s, u, good)
        PROVE  BulkInv'
    <2>1. Sound(r) /\ UNCHANGED <<expired, users, committed, draft>>
      BY <1>3, ArriveStep DEF GoodStep, Arrive, store
    <2>2. Fading
      BY <2>1, FadingIdle DEF BulkInv
    <2> QED  BY <1>1, <2>1, <2>2, ExpiredStaysBorn, OthersKnow DEF Sound
  <1>4. NoSession \notin Worker /\ NoSession \notin User
    BY RowStoreAssumption, WorkerAssumption, AccountAssumption
  <1>5. ASSUME NEW s \in Secret, Expire(s)
        PROVE  BulkInv'
    <2>1. Sound(NoSession) /\ UNCHANGED <<users, committed, draft>>
      BY <1>5, ExpireStep DEF ElseStep, Expire, store
    <2>2. Fading
      BY <2>1, FadingIdle DEF BulkInv
    <2>3. \A x \in expired' : committed'[x].life # "unborn"
      BY <1>5, <2>1 DEF Expire, BulkInv
    <2> QED  BY <1>4, <2>1, <2>2, <2>3, OthersKnow
  <1>6. ASSUME NEW s \in Secret, NEW k \in Kind, CreateSecret(s, k)
        PROVE  BulkInv'
    <2> DEFINE row == [Unborn EXCEPT !.life = "live", !.cipher = "sealed", !.pw = k.pw,
                                     !.owner = k.owner, !.notify = k.notify]
    <2>1. Sound(NoSession) /\ UNCHANGED <<users, expired>>
      BY <1>6, CreateStep DEF ElseStep, CreateSecret
    <2>2. /\ committed[s].life = "unborn"
          /\ committed' = [committed EXCEPT ![s] = row]
          /\ draft' = [draft EXCEPT ![s] = row]
          /\ k.owner \in users \cup {NoUser}
      BY <1>6 DEF CreateSecret, AutoInsert
    <2>3. row.life = "live" /\ row.owner = k.owner
      BY DEF Unborn
    <2>4. StoreTypeOK
      BY DEF Base, TypeOK
    <2>5. Fading
      <3> HIDE DEF row
      <3> QED  BY <2>2, <2>3, <2>4 DEF BulkInv, Fading, OwnerInv, OwnersFade, OwnerLeft, StoreTypeOK
    <2> QED  BY <1>4, <2>1, <2>5, ExpiredStaysBorn, OthersKnow DEF Sound
  <1> QED  BY <1>2, <1>3, <1>5, <1>6 DEF SecretsNext

-----------------------------------------------------------------------------
(* The worker. *)

LEMMA SweptFades ==
  ASSUME NEW w, NEW row \in Row, row.life = "live"
  PROVE  OwnerLeft(row, Swept(w, row)) /\ Swept(w, row).cipher # "sealed"
  BY DEF OwnerLeft, Swept, SoftExpired, Zeroed, Gone, Row, Unborn

(* A step of run w that leaves the table alone, or is one of its statements: what
   it knows itself is all there is to show. *)
LEMMA RunKnows ==
  ASSUME Base, BulkInv, NEW w \in Worker, Sound(w), Fading,
         UNCHANGED <<expired, users, deletion>>,
         \A v \in Worker : v # w =>
             phase'[v] = phase[v] /\ cutoff'[v] = cutoff[v] /\ todo'[v] = todo[v],
         WorkerKnows(w)'
  PROVE  BulkInv'
  <1>1. ASSUME NEW u \in User PROVE AccountKnows(u)'
    <2>1. u # w /\ u \in Session
      BY AccountAssumption, SessionAssumption
    <2> QED  BY <2>1, AccountElse DEF Sound, BulkInv, Fading, deletion
  <1>2. ASSUME NEW v \in Worker, v # w PROVE WorkerKnows(v)'
    <2>1. v \in Session
      BY WorkerAssumption
    <2> QED  BY <1>2, <2>1, WorkerElse DEF Sound, BulkInv, Fading
  <1> QED  BY <1>1, <1>2, ExpiredStaysBorn DEF BulkInv, Fading, Sound

LEMMA BulkWorker ==
  ASSUME Base, BulkInv, WorkerNext, UNCHANGED deletion
  PROVE  BulkInv'
  <1>1. StoreTypeOK /\ StoreInv /\ WorkerTypeOK
    BY DEF Base, TypeOK
  <1>2. ASSUME NEW w \in Worker
        PROVE  w \in Session /\ WorkerKnows(w) /\ w # NoSession
    BY WorkerAssumption, RowStoreAssumption DEF BulkInv
  <1>3. CASE LockExpires
    <2>1. Sound(NoSession) /\ UNCHANGED <<expired, users, committed, draft, phase, cutoff, todo>>
      BY <1>1, <1>3, SoundIdle DEF LockExpires, secretVars, store
    <2>2. Fading
      BY <2>1, FadingIdle DEF BulkInv
    <2>3. ASSUME NEW w \in Worker PROVE WorkerKnows(w)'
      BY <1>2, <2>1, <2>2, WorkerElse DEF Sound, Fading
    <2>4. ASSUME NEW u \in User PROVE AccountKnows(u)'
      BY <2>1, <2>2, AccountElse, AccountAssumption, RowStoreAssumption
      DEF Sound, Fading, BulkInv, deletion
    <2> QED  BY <2>1, <2>2, <2>3, <2>4, ExpiredStaysBorn DEF BulkInv, Fading, Sound
  <1>4. ASSUME NEW w \in Worker, Tick(w)
        PROVE  BulkInv'
    <2>1. Sound(w) /\ Fading /\ UNCHANGED <<expired, users, store>>
      BY <1>1, <1>4, SoundIdle, FadingIdle DEF Tick, secretVars, store, BulkInv
    <2>2. /\ phase' = [phase EXCEPT ![w] = "expireOwned"]
          /\ cutoff' = [cutoff EXCEPT ![w] = expired]
          /\ todo' = todo
      BY <1>4 DEF Tick
    <2>3. WorkerKnows(w)'
      BY <1>1, <1>2, <2>1, <2>2 DEF WorkerKnows, WorkerTypeOK, BulkInv, store
    <2> QED  BY <1>1, <2>1, <2>2, <2>3, RunKnows DEF WorkerTypeOK
  <1>5. ASSUME NEW w \in Worker, SweepStart(w)
        PROVE  BulkInv'
    <2>1. Sound(w) /\ Fading /\ UNCHANGED <<expired, users, store>>
      BY <1>1, <1>5, SoundIdle, FadingIdle DEF SweepStart, secretVars, store, BulkInv
    <2>2. /\ phase[w] \in Bulk
          /\ phase' = [phase EXCEPT ![w] = NextPhase(@)]
          /\ cutoff' = cutoff
          /\ todo' = [todo EXCEPT ![w] = {s \in cutoff[w] : Matches(phase[w], committed[s])}]
      BY <1>5 DEF SweepStart
    <2>3. phase'[w] = NextPhase(phase[w])
          /\ todo'[w] = {s \in cutoff[w] : Matches(phase[w], committed[s])}
      BY <1>1, <2>2 DEF WorkerTypeOK
    <2>4. ASSUME NEW s \in Secret, s \in cutoff[w], committed[s].cipher = "sealed"
          PROVE  committed[s].life = "live"
      BY <1>1, <2>4 DEF StoreInv, Clean, StoreTypeOK, Row
    <2>5. WorkerKnows(w)'
      BY <1>2, <2>1, <2>2, <2>3, <2>4 DEF WorkerKnows, Bulk, NextPhase, Matches, store
    <2> QED  BY <1>1, <2>1, <2>2, <2>5, RunKnows DEF WorkerTypeOK
  <1>6. ASSUME NEW w \in Worker, NEW s \in Secret, SweepRow(w, s)
        PROVE  BulkInv'
    <2>1. /\ UNCHANGED <<expired, users, phase, cutoff>>
          /\ phase[w] \in Running /\ Unlocked(w, s)
          /\ todo' = [todo EXCEPT ![w] = @ \ {s}]
          /\ todo'[w] = todo[w] \ {s}
      BY <1>1, <1>6 DEF SweepRow, WorkerTypeOK
    <2>2. CASE Matches(phase[w], View(w, s))
      <3>1. /\ View(w, s) \in Row /\ Clean(View(w, s)) /\ View(w, s).life = "live"
        BY <1>1, <2>2, ViewType DEF View, StoreInv, Matches
      <3>2. Put(w, s, Swept(w, View(w, s)))
        BY <1>6, <2>2 DEF SweepRow
      <3>3. Sound(w)
        BY <1>1, <1>2, <3>1, <3>2, SweptType, SoundPut
      <3>4. Fading
        BY <1>1, <3>1, <3>2, SweptFades, FadingPut DEF BulkInv
      <3>5. /\ holder' = [holder EXCEPT ![s] = w]
            /\ draft' = [draft EXCEPT ![s] = Swept(w, View(w, s))]
            /\ committed' = committed
        BY <3>1, <3>2 DEF Put, Exists
      <3>6. /\ holder'[s] = w /\ draft'[s].cipher # "sealed"
            /\ \A x \in Secret : x # s => holder'[x] = holder[x] /\ draft'[x] = draft[x]
        BY <1>1, <3>1, <3>5, SweptFades DEF StoreTypeOK
      <3>7. WorkerKnows(w)'
        BY <1>2, <2>1, <3>5, <3>6 DEF WorkerKnows
      <3> QED  BY <1>1, <2>1, <3>3, <3>4, <3>7, RunKnows DEF WorkerTypeOK
    <2>3. CASE ~Matches(phase[w], View(w, s))
      <3>1. Sound(w) /\ Fading /\ UNCHANGED store
        BY <1>1, <1>6, <2>3, SoundIdle, FadingIdle DEF SweepRow, store, BulkInv
      <3>2. holder[s] = w \/ View(w, s) = committed[s]
        BY DEF View
      <3>3. holder[s] = w
            \/ (phase[w] = "expiringOwned" /\ (committed[s].cipher = "sealed" => committed[s].owner = NoUser))
            \/ (phase[w] # "expiringOwned" /\ (committed[s].cipher = "sealed" => committed[s].owner # NoUser))
        BY <1>1, <2>1, <2>3, <3>2 DEF Matches, Running, StoreInv, Clean, StoreTypeOK, Row
      <3>4. WorkerKnows(w)'
        BY <1>2, <2>1, <3>1, <3>3 DEF WorkerKnows, store
      <3> QED  BY <1>1, <2>1, <3>1, <3>4, RunKnows DEF WorkerTypeOK
    <2> QED  BY <2>2, <2>3
  <1>7. ASSUME NEW w \in Worker, SweepDone(w)
        PROVE  BulkInv'
    <2>1. /\ UNCHANGED <<expired, users, todo>>
          /\ phase[w] \in Running /\ todo[w] = {} /\ Commit(w)
          /\ phase' = [phase EXCEPT ![w] = NextPhase(@)]
          /\ cutoff' = IF NextPhase(phase[w]) = "idle" THEN [cutoff EXCEPT ![w] = {}] ELSE cutoff
      BY <1>7 DEF SweepDone
    <2>2. /\ Sound(w) /\ Fading
          /\ \A s \in Secret : committed'[s] = View(w, s) /\ holder'[s] # w
      BY <1>1, <1>2, <2>1, SoundCommit, FadingCommit DEF BulkInv
    <2>3. /\ phase'[w] = NextPhase(phase[w])
          /\ cutoff'[w] = {} \/ (cutoff'[w] = cutoff[w] /\ NextPhase(phase[w]) # "idle")
      BY <1>1, <2>1 DEF WorkerTypeOK
    <2>4. ASSUME NEW s \in Secret, s \in cutoff[w], committed'[s].cipher = "sealed"
          PROVE  /\ committed'[s] = committed[s] /\ holder[s] # w
      BY <1>2, <2>2, <2>4 DEF View, WorkerKnows
    <2>5. ASSUME NEW s \in Secret, s \in cutoff[w]
          PROVE  committed'[s].life # "unborn"
      BY <1>2, <2>2, <2>5 DEF WorkerKnows, Sound, Evolves, Descends
    <2>6. WorkerKnows(w)'
      <3> SUFFICES ASSUME NEW s \in Secret, s \in cutoff'[w], committed'[s].cipher = "sealed"
                   PROVE  /\ phase'[w] = "zeroAnon" /\ committed'[s].owner = NoUser
        BY <2>2, <2>3, <2>5 DEF WorkerKnows
      <3>1. s \in cutoff[w] /\ NextPhase(phase[w]) # "idle"
        BY <2>3
      <3>2. committed'[s] = committed[s] /\ holder[s] # w /\ s \notin todo[w]
        BY <2>1, <2>4, <3>1
      <3>3. phase[w] = "expiringOwned" /\ committed[s].owner = NoUser
        BY <1>2, <2>1, <3>1, <3>2 DEF WorkerKnows, Running, NextPhase
      <3> QED  BY <2>3, <3>2, <3>3 DEF NextPhase
    <2> QED  BY <1>1, <2>1, <2>2, <2>6, RunKnows DEF WorkerTypeOK
  <1>8. ASSUME NEW w \in Worker, SweepFail(w)
        PROVE  BulkInv'
    <2>1. /\ UNCHANGED <<expired, users>> /\ Rollback(w)
          /\ phase' = [phase EXCEPT ![w] = "idle"]
          /\ cutoff' = [cutoff EXCEPT ![w] = {}]
          /\ todo' = [todo EXCEPT ![w] = {}]
      BY <1>8 DEF SweepFail
    <2>2. /\ Sound(w) /\ Fading
          /\ \A s \in Secret : holder'[s] # w
      BY <1>1, <1>2, <2>1, SoundRollback, FadingRollback DEF BulkInv
    <2>3. WorkerKnows(w)'
      BY <1>1, <2>1, <2>2 DEF WorkerKnows, WorkerTypeOK
    <2> QED  BY <1>1, <2>1, <2>2, <2>3, RunKnows DEF WorkerTypeOK
  <1> QED  BY <1>3, <1>4, <1>5, <1>6, <1>7, <1>8 DEF WorkerNext, Sweep

-----------------------------------------------------------------------------
(* Account deletion. *)

LEMMA LeaverKnows ==
  ASSUME Base, BulkInv, NEW u \in User, Sound(u), Fading,
         UNCHANGED <<expired, cleanup>>,
         \A v \in User : v # u =>
             /\ leaving'[v] = leaving[v] /\ pending'[v] = pending[v]
             /\ v \notin users => v \notin users',
         AccountKnows(u)'
  PROVE  BulkInv'
  <1>1. ASSUME NEW v \in User, v # u PROVE AccountKnows(v)'
    <2>1. v \in Session
      BY AccountAssumption
    <2> QED  BY <1>1, <2>1, AccountElse DEF Sound, BulkInv, Fading
  <1>2. ASSUME NEW w \in Worker PROVE WorkerKnows(w)'
    <2>1. w # u /\ w \in Session
      BY WorkerAssumption, SessionAssumption
    <2> QED  BY <2>1, WorkerElse DEF Sound, BulkInv, Fading, cleanup
  <1> QED  BY <1>1, <1>2, ExpiredStaysBorn DEF BulkInv, Fading, Sound

LEMMA BulkAccount ==
  ASSUME Base, BulkInv, AccountNext, UNCHANGED cleanup
  PROVE  BulkInv'
  <1>1. StoreTypeOK /\ StoreInv /\ AccountTypeOK /\ OwnerInv
    BY DEF Base, TypeOK, BulkInv
  <1>2. PICK u \in Leaver : DeleteAccount(u) \/ Detach(u) \/ DetachFail(u)
    BY DEF AccountNext
  <1>3. u \in User /\ u \in Session /\ AccountKnows(u) /\ u # NoUser /\ u # NoSession
    BY AccountAssumption, RowStoreAssumption DEF BulkInv
  <1>4. CASE DeleteAccount(u)
    <2>1. Sound(u) /\ Fading /\ UNCHANGED <<expired, users, pending>>
      BY <1>1, <1>4, SoundIdle, FadingIdle DEF DeleteAccount, secretVars, store
    <2>2. leaving' = [leaving EXCEPT ![u] = "detach"]
      BY <1>4 DEF DeleteAccount, Become
    <2>3. AccountKnows(u)'
      BY <1>1, <1>3, <2>2 DEF AccountKnows, AccountTypeOK
    <2> QED  BY <1>1, <1>3, <2>1, <2>2, <2>3, LeaverKnows DEF AccountTypeOK
  <1>5. CASE DetachStart(u)
    <2>1. Sound(u) /\ Fading /\ UNCHANGED <<expired, store>>
      BY <1>1, <1>5, SoundIdle, FadingIdle DEF DetachStart, store
    <2>2. /\ pending' = [pending EXCEPT ![u] = {s \in Secret : Owns(u, committed[s])}]
          /\ leaving' = [leaving EXCEPT ![u] = IF leaving[u] = "detach" THEN "detaching" ELSE "dropping"]
          /\ users' = IF leaving[u] = "drop" THEN users \ {u} ELSE users
          /\ leaving[u] \in {"detach", "drop"}
      BY <1>5 DEF DetachStart, Become
    <2>3. \A s \in Secret : committed[s].owner = u => Owns(u, committed[s])
      BY <1>1, <1>3 DEF OwnerInv, Owns
    <2>4. AccountKnows(u)'
      BY <1>1, <1>3, <2>1, <2>2, <2>3 DEF AccountKnows, AccountTypeOK, store
    <2> QED  BY <1>1, <1>3, <2>1, <2>2, <2>4, LeaverKnows DEF AccountTypeOK
  <1>6. ASSUME NEW s \in Secret, DetachRow(u, s)
        PROVE  BulkInv'
    <2> DEFINE row == [View(u, s) EXCEPT !.owner = NoUser]
    <2>1. /\ UNCHANGED <<expired, users, leaving>>
          /\ Unlocked(u, s)
          /\ pending' = [pending EXCEPT ![u] = @ \ {s}]
          /\ pending'[u] = pending[u] \ {s}
      BY <1>1, <1>3, <1>6 DEF DetachRow, AccountTypeOK
    <2>2. CASE Owns(u, View(u, s))
      <3>1. /\ View(u, s) \in Row /\ Clean(View(u, s)) /\ View(u, s).life = "live"
        BY <1>1, <2>2, ViewType DEF View, StoreInv, Owns
      <3>2. /\ row \in Row /\ Clean(row) /\ Descends(View(u, s), row)
            /\ OwnerLeft(View(u, s), row) /\ row.owner # u
        BY <1>3, <3>1 DEF Row, Clean, Descends, OwnerLeft
      <3>3. Put(u, s, row)
        BY <1>6, <2>2 DEF DetachRow
      <3>4. Sound(u) /\ Fading
        BY <1>1, <1>3, <3>2, <3>3, SoundPut, FadingPut
      <3>5. /\ holder' = [holder EXCEPT ![s] = u]
            /\ draft' = [draft EXCEPT ![s] = row]
            /\ committed' = committed
        BY <3>1, <3>3 DEF Put, Exists
      <3>6. /\ holder'[s] = u /\ draft'[s].owner # u
            /\ \A x \in Secret : x # s => holder'[x] = holder[x] /\ draft'[x] = draft[x]
        BY <1>1, <3>2, <3>5 DEF StoreTypeOK
      <3>7. AccountKnows(u)'
        BY <1>3, <2>1, <3>5, <3>6 DEF AccountKnows
      <3> QED  BY <1>1, <1>3, <2>1, <3>4, <3>7, LeaverKnows DEF AccountTypeOK
    <2>3. CASE ~Owns(u, View(u, s))
      <3>1. Sound(u) /\ Fading /\ UNCHANGED store
        BY <1>1, <1>6, <2>3, SoundIdle, FadingIdle DEF DetachRow, store
      <3>2. View(u, s).owner # u
        BY <1>1, <1>3, <2>3, ViewFades DEF Owns
      <3>3. committed[s].owner # u \/ (holder[s] = u /\ draft[s].owner # u)
        BY <3>2 DEF View
      <3>4. AccountKnows(u)'
        BY <1>3, <2>1, <3>1, <3>3 DEF AccountKnows, store
      <3> QED  BY <1>1, <1>3, <2>1, <3>1, <3>4, LeaverKnows DEF AccountTypeOK
    <2> QED  BY <2>2, <2>3
  <1>7. CASE DetachDone(u)
    <2>1. /\ UNCHANGED <<expired, users, pending>>
          /\ leaving[u] \in {"detaching", "dropping"} /\ pending[u] = {} /\ Commit(u)
          /\ leaving' = [leaving EXCEPT ![u] = IF leaving[u] = "detaching" THEN "drop" ELSE "gone"]
      BY <1>7 DEF DetachDone, Become
    <2>2. /\ Sound(u) /\ Fading
          /\ \A s \in Secret : committed'[s] = View(u, s)
      BY <1>1, <1>3, <2>1, SoundCommit, FadingCommit
    <2>3. ASSUME NEW s \in Secret, leaving[u] = "dropping"
          PROVE  committed'[s].owner # u
      BY <1>1, <1>3, <2>1, <2>2, <2>3 DEF AccountKnows, View, OwnerInv, OwnerLeft
    <2>4. AccountKnows(u)'
      BY <1>1, <1>3, <2>1, <2>3 DEF AccountKnows, AccountTypeOK
    <2> QED  BY <1>1, <1>3, <2>1, <2>2, <2>4, LeaverKnows DEF AccountTypeOK
  <1>8. CASE DetachFail(u)
    <2>1. /\ expired' = expired /\ users' = users \cup {u} /\ Rollback(u)
          /\ leaving' = [leaving EXCEPT ![u] = "no"]
          /\ pending' = [pending EXCEPT ![u] = {}]
      BY <1>8 DEF DetachFail, Become
    <2>2. Sound(u) /\ Fading
      BY <1>1, <1>3, <2>1, SoundRollback, FadingRollback
    <2>3. AccountKnows(u)'
      BY <1>1, <1>3, <2>1 DEF AccountKnows, AccountTypeOK
    <2> QED  BY <1>1, <1>3, <2>1, <2>2, <2>3, LeaverKnows DEF AccountTypeOK
  <1> QED  BY <1>2, <1>4, <1>5, <1>6, <1>7, <1>8 DEF Detach

-----------------------------------------------------------------------------
(* The invariant. *)

LEMMA BulkInit == Init => BulkInv
  <1> SUFFICES ASSUME Init PROVE BulkInv
    OBVIOUS
  <1>1. OwnerInv
    BY DEF Init, SecretsInit, StoreInit, OwnerInv, OwnerLeft, Unborn
  <1>2. ASSUME NEW u \in User PROVE AccountKnows(u)
    BY DEF Init, AccountInit, AccountKnows
  <1>3. ASSUME NEW w \in Worker PROVE WorkerKnows(w)
    BY WorkerAssumption, RowStoreAssumption
    DEF Init, SecretsInit, StoreInit, WorkerInit, WorkerKnows
  <1> QED  BY <1>1, <1>2, <1>3 DEF BulkInv, Init, SecretsInit

LEMMA BulkNext ==
  ASSUME Base, BulkInv, [Next]_vars
  PROVE  BulkInv'
  <1>1. CASE UNCHANGED vars
    BY <1>1 DEF vars, secretVars, store, cleanup, deletion, BulkInv, OwnerInv, OwnerLeft,
       AccountKnows, WorkerKnows
  <1>2. CASE SecretsNext /\ UNCHANGED <<cleanup, deletion>>
    BY <1>2, BulkSecrets
  <1>3. CASE WorkerNext /\ UNCHANGED deletion
    BY <1>3, BulkWorker
  <1>4. CASE AccountNext /\ UNCHANGED cleanup
    BY <1>4, BulkAccount
  <1> QED  BY <1>1, <1>2, <1>3, <1>4 DEF Next

LEMMA BulkInvariant == Spec => []BulkInv
  <1>1. Base /\ BulkInv /\ [Next]_vars => BulkInv'
    BY BulkNext
  <1> QED  BY BaseInvariant, BulkInit, <1>1, PTL DEF Spec

-----------------------------------------------------------------------------
(* Results. *)

(* Once the deletion of an account has ended, no secret points at it: neither
   those that beforeDelete found, nor those its owner created meanwhile. *)
THEOREM NothingOwned == Spec => []GoneAccountOwnsNothing
  <1>1. BulkInv => GoneAccountOwnsNothing
    BY DEF BulkInv, AccountKnows, GoneAccountOwnsNothing
  <1> QED  BY <1>1, BulkInvariant, PTL

(* A run of cleanExpiredSecrets that ends without an error has erased all that
   had expired at its "now", whatever requests, deletions of accounts and other
   runs do between and during its statements. *)
THEOREM RunErases == Spec => CleanupComplete
  <1>1. ASSUME Base, BulkInv, NEW w \in Worker, SweepDone(w), phase'[w] = "idle",
               NEW s \in cutoff[w]
        PROVE  committed'[s].cipher # "sealed"
    <2>1. /\ phase[w] \in Running /\ Commit(w)
          /\ phase'[w] = NextPhase(phase[w])
          /\ StoreTypeOK /\ s \in Secret /\ WorkerKnows(w)
      BY <1>1 DEF SweepDone, Base, TypeOK, WorkerTypeOK, BulkInv
    <2>2. phase[w] = "deletingAnon"
      BY <1>1, <2>1 DEF NextPhase, Running
    <2>3. committed[s].cipher # "sealed" /\ View(w, s).cipher # "sealed"
      BY <1>1, <2>1, <2>2 DEF WorkerKnows, View
    <2> QED  BY <2>1, <2>3 DEF Commit
  <1>2. Base /\ BulkInv => \A w \in Worker : CompleteRun(w)
    BY <1>1 DEF CompleteRun
  <1>3. Base /\ BulkInv => [\A w \in Worker : CompleteRun(w)]_vars
    BY <1>2
  <1> QED  BY <1>3, BaseInvariant, BulkInvariant, PTL DEF CleanupComplete

-----------------------------------------------------------------------------
(* The promise of OneTimeSecret. *)

(* A handler locks no other row than the one it is asked for, and answers with
   the ciphertext it read. *)
OwnRow(r) == \A x \in Secret : holder[x] = r => x = call[r].id

SaysSeen(r) ==
    pc[r] = "commit" /\ result[r].kind = "ok" => result[r].cipher = seen[r].cipher

(* No password before there is a secret. *)
PlainUnborn == \A s \in Secret : committed[s].life = "unborn" => ~committed[s].pw

PromiseInv == PlainUnborn /\ \A r \in Request : OwnRow(r) /\ SaysSeen(r)

(* Rows only come to be by createSecret. *)
NoBirth == \A s \in Secret : committed[s].life = "unborn" => committed'[s] = committed[s]

(* What nobody outside sees of a handler. *)
Unseen(r) ==
    /\ Holding(r)' <=> Holding(r)
    /\ Delivers(r)' <=> Delivers(r)
    /\ Holding(r) \/ Delivers(r) => call'[r].id = call[r].id

(* The other handlers take no step. *)
Alone(r) == \A q \in Request : q # r => Same(q)

-----------------------------------------------------------------------------
(* From rows to the abstract state. *)

LEMMA GuardKept ==
  ASSUME Evolves, NoBirth
  PROVE  GuardedOf' = GuardedOf
  BY DEF Evolves, Descends, NoBirth, GuardedOf

(* A step that only rewrites rows erases some secrets, or none. *)
LEMMA StepErases ==
  ASSUME Evolves, NoBirth, RacingOf' = RacingOf, GotOf' = GotOf
  PROVE  \E S \in SUBSET Secret : Promise!Erase(S)
  <1> DEFINE S == {s \in Secret : StateOf[s] = "sealed" /\ StateOf'[s] # "sealed"}
  <1>1. ASSUME NEW s \in Secret
        PROVE  StateOf'[s] = IF s \in S THEN "spent" ELSE StateOf[s]
    <2>1. CASE committed[s].life = "unborn"
      BY <2>1 DEF NoBirth, StateOf
    <2>2. CASE committed[s].life # "unborn"
      <3>1. committed'[s].life # "unborn"
            /\ (committed'[s].cipher = "sealed" => committed[s].cipher = "sealed")
        BY <2>2 DEF Evolves, Descends
      <3> QED  BY <2>2, <3>1 DEF StateOf
    <2> QED  BY <2>1, <2>2
  <1>2. StateOf' = [s \in Secret |-> IF s \in S THEN "spent" ELSE StateOf[s]]
    BY <1>1 DEF StateOf
  <1>3. GuardedOf' = GuardedOf
    BY GuardKept
  <1>4. \A s \in S : StateOf[s] = "sealed"
    OBVIOUS
  <1>5. S \in SUBSET Secret
    OBVIOUS
  <1> HIDE DEF S
  <1>6. Promise!Erase(S)
    BY <1>2, <1>3, <1>4 DEF Promise!Erase
  <1> QED  BY <1>5, <1>6

(* The handlers that take no step look the same. *)
LEMMA OthersSame ==
  ASSUME NEW q \in Request, Same(q)
  PROVE  /\ Holding(q)' <=> Holding(q)
         /\ Delivers(q)' <=> Delivers(q)
         /\ call'[q].id = call[q].id
  BY DEF Same, Holding, Delivers, Answered

LEMMA UnseenErases ==
  ASSUME Evolves, NoBirth, NEW r \in Request, Unseen(r), Alone(r)
  PROVE  \E S \in SUBSET Secret : Promise!Erase(S)
  <1>1. ASSUME NEW q \in Request
        PROVE  /\ Holding(q)' <=> Holding(q)
               /\ Delivers(q)' <=> Delivers(q)
               /\ Holding(q) \/ Delivers(q) => call'[q].id = call[q].id
    BY OthersSame DEF Unseen, Alone
  <1>2. RacingOf' = RacingOf
    BY <1>1 DEF RacingOf
  <1>3. GotOf' = GotOf
    BY <1>1 DEF GotOf
  <1> QED  BY <1>2, <1>3, StepErases

-----------------------------------------------------------------------------
(* One handler moves: what happens to the readers of the secret it is for. *)

LEMMA RacingMoves ==
  ASSUME NEW r \in Request, Alone(r), NEW s \in Secret, call[r].id = s, call'[r].id = s
  PROVE  /\ Holding(r)' => RacingOf' = [RacingOf EXCEPT ![s] = @ \cup {r}]
         /\ ~Holding(r)' => RacingOf' = [RacingOf EXCEPT ![s] = @ \ {r}]
         /\ Delivers(r)' => GotOf' = [GotOf EXCEPT ![s] = @ \cup {r}]
         /\ ~Delivers(r)' => GotOf' = [GotOf EXCEPT ![s] = @ \ {r}]
         /\ (Holding(r)' <=> Holding(r)) => RacingOf' = RacingOf
         /\ (Delivers(r)' <=> Delivers(r)) => GotOf' = GotOf
  <1>1. ASSUME NEW q \in Request, q # r
        PROVE  /\ Holding(q)' <=> Holding(q)
               /\ Delivers(q)' <=> Delivers(q)
               /\ call'[q].id = call[q].id
    BY <1>1, OthersSame DEF Alone
  <1>2. Holding(r)' => RacingOf' = [RacingOf EXCEPT ![s] = @ \cup {r}]
    BY <1>1 DEF RacingOf
  <1>3. ~Holding(r)' => RacingOf' = [RacingOf EXCEPT ![s] = @ \ {r}]
    BY <1>1 DEF RacingOf
  <1>4. Delivers(r)' => GotOf' = [GotOf EXCEPT ![s] = @ \cup {r}]
    BY <1>1 DEF GotOf
  <1>5. ~Delivers(r)' => GotOf' = [GotOf EXCEPT ![s] = @ \ {r}]
    BY <1>1 DEF GotOf
  <1>6. (Holding(r)' <=> Holding(r)) => RacingOf' = RacingOf
    BY <1>1 DEF RacingOf
  <1>7. (Delivers(r)' <=> Delivers(r)) => GotOf' = GotOf
    BY <1>1 DEF GotOf
  <1> QED  BY <1>2, <1>3, <1>4, <1>5, <1>6, <1>7

LEMMA RowsStay ==
  ASSUME committed' = committed
  PROVE  StateOf' = StateOf /\ GuardedOf' = GuardedOf
  BY DEF StateOf, GuardedOf

(* A handler that read a sealed row begins to race. *)
LEMMA Begins ==
  ASSUME NEW r \in Request, Alone(r), NEW s \in Secret, call[r].id = s, call'[r].id = s,
         committed' = committed, Holding(r)', (Delivers(r)' <=> Delivers(r)),
         committed[s].life = "live", committed[s].cipher = "sealed"
  PROVE  Promise!Begin(s, r)
  <1>1. StateOf[s] = "sealed"
    BY DEF StateOf
  <1>2. RacingOf' = [RacingOf EXCEPT ![s] = @ \cup {r}] /\ GotOf' = GotOf
    BY RacingMoves
  <1> QED  BY <1>1, <1>2, RowsStay DEF Promise!Begin

(* A handler that decides against an answer, or fails, no longer does. *)
LEMMA Quits ==
  ASSUME NEW r \in Request, Alone(r), NEW s \in Secret, call[r].id = s, call'[r].id = s,
         committed' = committed, ~Holding(r)', (Delivers(r)' <=> Delivers(r))
  PROVE  Promise!Quit(s, r)
  <1>1. RacingOf' = [RacingOf EXCEPT ![s] = @ \ {r}] /\ GotOf' = GotOf
    BY RacingMoves
  <1> QED  BY <1>1, RowsStay DEF Promise!Quit

LEMMA Loses ==
  ASSUME NEW r \in Request, Alone(r), NEW s \in Secret, call[r].id = s, call'[r].id = s,
         committed' = committed, ~Delivers(r)', (Holding(r)' <=> Holding(r))
  PROVE  Promise!Lose(s, r)
  <1>1. GotOf' = [GotOf EXCEPT ![s] = @ \ {r}] /\ RacingOf' = RacingOf
    BY RacingMoves
  <1> QED  BY <1>1, RowsStay DEF Promise!Lose

(* COMMIT of a handler that answers with the ciphertext: only its own row is
   published, erased. *)
LEMMA Takes ==
  ASSUME NEW r \in Request, Alone(r), NEW s \in Secret, call[r].id = s, call'[r].id = s,
         Evolves, NoBirth, \A x \in Secret : x # s => committed'[x] = committed[x],
         committed[s].life # "unborn", committed'[s].cipher # "sealed",
         committed[s].pw => committed[s].cipher = "sealed",
         Holding(r), ~Holding(r)', Delivers(r)'
  PROVE  Promise!Take(s, r)
  <1>1. r \in RacingOf[s]
    BY DEF RacingOf
  <1>2. s \in GuardedOf => StateOf[s] = "sealed"
    BY DEF GuardedOf, StateOf
  <1>3. committed'[s].life # "unborn"
    BY DEF Evolves, Descends
  <1>4. StateOf' = [StateOf EXCEPT ![s] = "spent"]
    BY <1>3 DEF StateOf
  <1>5. /\ RacingOf' = [RacingOf EXCEPT ![s] = @ \ {r}]
        /\ GotOf' = [GotOf EXCEPT ![s] = @ \cup {r}]
    BY RacingMoves
  <1> QED  BY <1>1, <1>2, <1>4, <1>5, GuardKept DEF Promise!Take

-----------------------------------------------------------------------------
(* The steps of a request. *)

(* What a step of r keeps, and what it is a step of. *)
Kept(r) == NoBirth /\ OwnRow(r)' /\ SaysSeen(r)'

Shown(r) ==
    \/ Unseen(r)
    \/ \E s \in Secret : \/ Promise!Begin(s, r) \/ Promise!Quit(s, r)
                         \/ Promise!Take(s, r) \/ Promise!Lose(s, r)

Ready(r) == Base /\ OwnRow(r) /\ SaysSeen(r) /\ GoodStep(r)

LEMMA Facts ==
  ASSUME NEW r \in Request, Ready(r)
  PROVE  /\ Alone(r) /\ OwnRow(r) /\ SaysSeen(r)
         /\ KindOfOp(r) /\ WorkInv(r)
         /\ KindOfOp(r)' /\ WorkInv(r)' /\ AnswerInv(r)'
         /\ StoreTypeOK /\ StoreInv /\ Evolves
         /\ pc \in [Request -> Location] /\ call \in [Request -> Call]
         /\ seen \in [Request -> Row] /\ result \in [Request -> Result]
         /\ r \in Session
  BY SecretsAssumption DEF Ready, Base, GoodStep, Sound, Alone, RequestInv, TypeOK

(* Requests that do not read the ciphertext are never seen. *)
LEMMA OtherOps ==
  ASSUME NEW r \in Request, Ready(r), call' = call, call[r].op \notin {"get", "verify"}
  PROVE  Unseen(r) /\ SaysSeen(r)'
  <1>1. KindOfOp(r) /\ KindOfOp(r)'
    BY Facts
  <1>2. result[r].kind # "ok" /\ result'[r].kind # "ok"
    BY <1>1 DEF KindOfOp
  <1> QED  BY <1>2 DEF Unseen, Holding, Delivers, SaysSeen

LEMMA StoreKept ==
  ASSUME NEW r, OwnRow(r), UNCHANGED store, call' = call
  PROVE  NoBirth /\ OwnRow(r)' /\ committed' = committed
  BY DEF OwnRow, NoBirth, store

LEMMA PutKept ==
  ASSUME NEW r \in Request, Ready(r), pc[r] # "idle", NEW row, Put(r, call[r].id, row),
         call' = call
  PROVE  NoBirth /\ OwnRow(r)' /\ committed' = committed
  <1>1. PICK s \in Secret : s = call[r].id
    BY Facts DEF KindOfOp
  <1>2. \/ UNCHANGED store
        \/ holder' = [holder EXCEPT ![s] = r] /\ committed' = committed
    BY <1>1 DEF Put
  <1>3. OwnRow(r) /\ StoreTypeOK
    BY Facts
  <1>4. OwnRow(r)'
    BY <1>1, <1>2, <1>3 DEF OwnRow, store, StoreTypeOK
  <1> QED  BY <1>2, <1>4 DEF NoBirth, store

LEMMA AutoPutKept ==
  ASSUME StoreTypeOK, NEW r, OwnRow(r), call' = call, NEW s \in Secret, NEW row, AutoPut(s, row)
  PROVE  NoBirth /\ OwnRow(r)'
  <1>1. \/ UNCHANGED store
        \/ /\ committed[s].life = "live" /\ holder' = holder
           /\ committed' = [committed EXCEPT ![s] = row]
    BY DEF AutoPut
  <1>2. NoBirth
    BY <1>1 DEF NoBirth, store, StoreTypeOK
  <1> QED  BY <1>1, <1>2 DEF OwnRow, store

(* A plain SELECT, behind FOR UPDATE or not: the row it finds is live, and no
   draft of the handler's own hides the committed version. *)
LEMMA SelectShown ==
  ASSUME NEW r \in Request, Ready(r), Select(r, "read", "commit"),
         \/ pc[r] = "asked" /\ call[r].op = "get"
         \/ pc[r] = "locked" /\ call[r].op = "verify"
  PROVE  Kept(r) /\ Shown(r)
  <1>1. PICK s \in Secret : s = call[r].id
    BY Facts DEF KindOfOp
  <1>2. View(r, s) = committed[s]
    BY <1>1, Facts DEF WorkInv, Lockless, Locked, View
  <1>3. UNCHANGED store /\ call' = call
    BY DEF Select
  <1>4. NoBirth /\ OwnRow(r)' /\ committed' = committed
    BY <1>3, StoreKept, Facts
  <1>5. ~Holding(r) /\ ~Delivers(r)
    BY DEF Holding, Delivers, Answered
  <1>6. CASE Exists(r, s)
    <2>1. pc'[r] = "read" /\ seen'[r] = committed[s] /\ committed[s].life = "live"
      BY <1>1, <1>2, <1>6, Facts DEF Select, Goto, Exists
    <2>2. ~Delivers(r)' /\ SaysSeen(r)'
      BY <2>1 DEF Delivers, Answered, SaysSeen
    <2>3. CASE committed[s].cipher = "sealed"
      <3>1. Holding(r)'
        BY <1>3, <2>1, <2>3 DEF Holding
      <3>2. Promise!Begin(s, r)
        BY <1>1, <1>3, <1>4, <1>5, <2>1, <2>2, <2>3, <3>1, Facts, Begins
      <3> QED  BY <1>4, <2>2, <3>2 DEF Kept, Shown
    <2>4. CASE committed[s].cipher # "sealed"
      <3>1. ~Holding(r)'
        BY <2>1, <2>4 DEF Holding
      <3> QED  BY <1>3, <1>4, <1>5, <2>2, <3>1 DEF Kept, Shown, Unseen
    <2> QED  BY <2>3, <2>4
  <1>7. CASE ~Exists(r, s)
    <2>1. pc'[r] = "commit" /\ result'[r].kind = "null"
      BY <1>1, <1>7, Facts DEF Select, Return, Goto, Null, NoResult
    <2>2. ~Delivers(r)' /\ SaysSeen(r)' /\ ~Holding(r)'
      BY <2>1 DEF Delivers, Answered, SaysSeen, Holding
    <2> QED  BY <1>3, <1>4, <1>5, <2>2 DEF Kept, Shown, Unseen
  <1> QED  BY <1>6, <1>7

(* The checks: the handler goes on, or gives up. *)
LEMMA CheckShown ==
  ASSUME NEW r \in Request, Ready(r), RetrieveCheck(r) \/ VerifyCheck(r)
  PROVE  Kept(r) /\ Shown(r)
  <1>1. pc[r] = "read"
    BY DEF RetrieveCheck, VerifyCheck, At
  <1>2. PICK s \in Secret : s = call[r].id
    BY <1>1, Facts DEF KindOfOp
  <1>3. UNCHANGED store /\ call' = call /\ seen' = seen
    BY DEF RetrieveCheck, VerifyCheck, Decide
  <1>4. NoBirth /\ OwnRow(r)' /\ committed' = committed
    BY <1>3, StoreKept, Facts
  <1>5. \/ pc'[r] = "zero"
        \/ pc'[r] \in {"purge", "count"}
        \/ pc'[r] = "commit" /\ result'[r].kind = "null"
    BY Facts DEF RetrieveCheck, VerifyCheck, Return, Goto, Null, NoResult
  <1>6. ~Delivers(r) /\ ~Delivers(r)' /\ SaysSeen(r)'
    BY <1>1, <1>5 DEF Delivers, Answered, SaysSeen
  <1>7. CASE pc'[r] = "zero"
    <2>1. Holding(r)' <=> Holding(r)
      BY <1>1, <1>3, <1>7 DEF Holding
    <2> QED  BY <1>3, <1>4, <1>6, <2>1 DEF Kept, Shown, Unseen
  <1>8. CASE pc'[r] # "zero"
    <2>1. ~Holding(r)'
      BY <1>5, <1>8 DEF Holding
    <2>2. Promise!Quit(s, r)
      BY <1>2, <1>3, <1>4, <1>6, <2>1, Facts, Quits
    <2> QED  BY <1>4, <1>6, <2>2 DEF Kept, Shown
  <1> QED  BY <1>7, <1>8

(* The writes of both kinds of retrieval. *)
LEMMA WriteShown ==
  ASSUME NEW r \in Request, Ready(r),
         \/ RetrievePurge(r) \/ RetrieveRemove(r) \/ RetrieveZero(r) \/ RetrieveConsume(r)
         \/ VerifyPurge(r) \/ VerifyRemove(r) \/ VerifyZero(r) \/ VerifyConsume(r)
         \/ VerifyCount(r)
  PROVE  Kept(r) /\ Shown(r)
  <1>1. /\ call[r].op \in {"get", "verify"}
        /\ \/ pc[r] = "purge" /\ ZeroThen(r, "remove")
           \/ pc[r] = "remove" /\ Remove(r)
           \/ pc[r] = "zero" /\ ZeroThen(r, "consume")
           \/ pc[r] = "consume" /\ Consume(r)
           \/ pc[r] = "count" /\ VerifyCount(r)
    BY DEF RetrievePurge, RetrieveRemove, RetrieveZero, RetrieveConsume, VerifyPurge,
       VerifyRemove, VerifyZero, VerifyConsume, VerifyCount, At
  <1>2. (\E row : Put(r, call[r].id, row)) /\ call' = call /\ seen' = seen
    BY <1>1 DEF ZeroThen, Remove, Consume, VerifyCount, Write
  <1>3. NoBirth /\ OwnRow(r)' /\ committed' = committed
    BY <1>1, <1>2, PutKept
  <1>4. ~Delivers(r)
    BY <1>1 DEF Delivers, Answered
  <1>5. CASE pc[r] \in {"purge", "remove", "count"}
    <2>1. result' = result /\ pc'[r] \in {"remove", "commit"}
      BY <1>1, <1>5, Facts DEF ZeroThen, Remove, VerifyCount, Goto
    <2>2. result[r].kind \in {"null", "wrong"}
      BY <1>5, Facts DEF KindOfOp
    <2>3. ~Holding(r) /\ ~Holding(r)' /\ ~Delivers(r)' /\ SaysSeen(r)'
      BY <1>5, <2>1, <2>2 DEF Holding, Delivers, SaysSeen
    <2> QED  BY <1>2, <1>3, <1>4, <2>3 DEF Kept, Shown, Unseen
  <1>6. CASE pc[r] = "zero"
    <2>1. pc'[r] = "consume"
      BY <1>1, <1>6, Facts DEF ZeroThen, Goto
    <2>2. (Holding(r)' <=> Holding(r)) /\ ~Delivers(r)' /\ SaysSeen(r)'
      BY <1>2, <1>6, <2>1 DEF Holding, Delivers, Answered, SaysSeen
    <2> QED  BY <1>2, <1>3, <1>4, <2>2 DEF Kept, Shown, Unseen
  <1>7. CASE pc[r] = "consume"
    <2>1. pc'[r] = "commit" /\ result'[r].kind = "ok" /\ result'[r].cipher = seen[r].cipher
      BY <1>1, <1>7, Facts DEF Consume, Return, Goto, Found, NoResult
    <2>2. (Holding(r)' <=> Holding(r)) /\ ~Delivers(r)' /\ SaysSeen(r)'
      BY <1>2, <1>7, <2>1 DEF Holding, Delivers, Answered, SaysSeen
    <2> QED  BY <1>2, <1>3, <1>4, <2>2 DEF Kept, Shown, Unseen
  <1> QED  BY <1>1, <1>5, <1>6, <1>7

LEMMA LockShown ==
  ASSUME NEW r \in Request, Ready(r), VerifyLock(r)
  PROVE  Kept(r) /\ Shown(r)
  <1>1. pc[r] = "asked" /\ call' = call
    BY DEF VerifyLock, At
  <1>2. PICK s \in Secret : s = call[r].id
    BY <1>1, Facts DEF KindOfOp
  <1>3. \/ UNCHANGED store
        \/ holder' = [holder EXCEPT ![s] = r] /\ committed' = committed
    BY <1>2 DEF VerifyLock, LockRow
  <1>4. OwnRow(r)'
    BY <1>1, <1>2, <1>3, Facts DEF OwnRow, store, StoreTypeOK
  <1>5. NoBirth
    BY <1>3 DEF NoBirth, store
  <1>6. \/ pc'[r] = "locked"
        \/ pc'[r] = "commit" /\ result'[r].kind = "null"
    BY Facts DEF VerifyLock, Return, Goto, Null, NoResult
  <1>7. /\ ~Holding(r) /\ ~Delivers(r)
        /\ ~Holding(r)' /\ ~Delivers(r)' /\ SaysSeen(r)'
    BY <1>1, <1>6 DEF Holding, Delivers, Answered, SaysSeen
  <1> QED  BY <1>1, <1>4, <1>5, <1>7 DEF Kept, Shown, Unseen

LEMMA MetaDeleteShown ==
  ASSUME NEW r \in Request, Ready(r), GetMeta(r) \/ DeleteOwn(r)
  PROVE  Kept(r) /\ Shown(r)
  <1>1. call[r].op \in {"meta", "delete"} /\ call' = call /\ pc[r] # "idle"
    BY DEF GetMeta, MetaSelect, MetaCheck, MetaZero, MetaMark, DeleteOwn, DeleteSelect,
       DeleteErase, At, Select, Decide, Write
  <1>2. PICK s \in Secret : s = call[r].id
    BY <1>1, Facts DEF KindOfOp
  <1>3. \/ UNCHANGED store
        \/ \E row : Put(r, call[r].id, row)
        \/ \E row : AutoPut(s, row)
    BY <1>2 DEF GetMeta, MetaSelect, MetaCheck, MetaZero, MetaMark, DeleteOwn, DeleteSelect,
       DeleteErase, Select, Decide, Write
  <1>4. NoBirth /\ OwnRow(r)'
    BY <1>1, <1>3, StoreKept, PutKept, AutoPutKept, Facts
  <1>5. Unseen(r) /\ SaysSeen(r)'
    BY <1>1, OtherOps
  <1> QED  BY <1>4, <1>5 DEF Kept, Shown

(* What COMMIT publishes: the rows the handler has locked, all of them live. *)
LEMMA CommitKept ==
  ASSUME StoreInv, NEW t \in Session, Commit(t)
  PROVE  /\ NoBirth
         /\ \A x \in Secret : /\ holder'[x] # t
                              /\ committed'[x] = View(t, x)
                              /\ holder[x] # t => committed'[x] = committed[x]
  <1>1. \A x \in Secret : /\ holder'[x] # t
                          /\ committed'[x] = View(t, x)
    BY RowStoreAssumption DEF Commit, Release
  <1>2. \A x \in Secret : holder[x] = t => committed[x].life = "live"
    BY RowStoreAssumption DEF StoreInv
  <1> QED  BY <1>1, <1>2 DEF NoBirth, View

LEMMA CommitShown ==
  ASSUME NEW r \in Request, Ready(r), CommitRequest(r)
  PROVE  Kept(r) /\ Shown(r)
  <1>1. pc[r] = "commit" /\ call' = call /\ result' = result /\ Commit(r)
    BY DEF CommitRequest
  <1>2. pc'[r] = "reply" /\ seen'[r].cipher # "sealed"
    BY Facts DEF CommitRequest, Goto, Forget, Unborn
  <1>3. PICK s \in Secret : s = call[r].id
    BY <1>1, Facts DEF KindOfOp
  <1>4. NoBirth /\ \A x \in Secret : /\ holder'[x] # r
                                     /\ holder[x] # r => committed'[x] = committed[x]
    BY <1>1, CommitKept, Facts
  <1>5. OwnRow(r)' /\ SaysSeen(r)'
    BY <1>2, <1>4 DEF OwnRow, SaysSeen
  <1>6. ~Holding(r)' /\ ~Delivers(r)
    BY <1>1, <1>2 DEF Holding, Delivers, Answered
  <1>7. CASE Holding(r)
    <2>1. result[r].kind = "ok" /\ seen[r].cipher = "sealed" /\ result[r].cipher = "sealed"
      BY <1>1, <1>7, Facts DEF Holding, SaysSeen
    <2>2. Delivers(r)'
      BY <1>1, <1>2, <2>1 DEF Delivers, Answered
    <2>3. committed'[s].cipher # "sealed"
      BY <1>1, <1>2, <1>3, <2>1, Facts DEF AnswerInv, Answered
    <2>4. committed[s].pw => committed[s].cipher = "sealed"
      BY <1>1, <1>3, <1>7, <2>1, Facts DEF WorkInv, Locked, Holding
    <2>5. \A x \in Secret : x # s => committed'[x] = committed[x]
      BY <1>3, <1>4, Facts DEF OwnRow
    <2>6. committed[s].life # "unborn"
      BY <1>1, <1>3, Facts DEF WorkInv
    <2>7. Promise!Take(s, r)
      BY <1>1, <1>3, <1>4, <1>6, <1>7, <2>2, <2>3, <2>4, <2>5, <2>6, Facts, Takes
    <2> QED  BY <1>4, <1>5, <2>7 DEF Kept, Shown
  <1>8. CASE ~Holding(r)
    <2>1. ~Delivers(r)'
      BY <1>1, <1>8, Facts DEF Delivers, Holding, SaysSeen, KindOfOp
    <2> QED  BY <1>1, <1>4, <1>5, <1>6, <1>8, <2>1 DEF Kept, Shown, Unseen
  <1> QED  BY <1>7, <1>8

LEMMA ReplyShown ==
  ASSUME NEW r \in Request, Ready(r), Reply(r)
  PROVE  Kept(r) /\ Shown(r)
  <1>1. pc[r] = "reply" /\ UNCHANGED store /\ call' = call /\ result' = result
    BY DEF Reply
  <1>2. pc'[r] = "done"
    BY Facts DEF Reply, Goto
  <1>3. NoBirth /\ OwnRow(r)' /\ SaysSeen(r)'
    BY <1>1, <1>2, StoreKept, Facts DEF SaysSeen
  <1>4. Unseen(r)
    BY <1>1, <1>2 DEF Unseen, Holding, Delivers, Answered
  <1> QED  BY <1>3, <1>4 DEF Kept, Shown

(* A failure before COMMIT ends the race, one after it loses the answer. *)
LEMMA FailShown ==
  ASSUME NEW r \in Request, Ready(r), Fail(r)
  PROVE  Kept(r) /\ Shown(r)
  <1>1. pc[r] # "idle" /\ pc[r] # "done" /\ call' = call /\ Rollback(r)
    BY DEF Fail
  <1>2. pc'[r] = "done" /\ result'[r].kind = "error"
    BY Facts DEF Fail, Return, Goto, Failed, NoResult
  <1>3. PICK s \in Secret : s = call[r].id
    BY <1>1, Facts DEF KindOfOp
  <1>4. committed' = committed /\ \A x \in Secret : holder'[x] # r
    BY <1>1, Facts, RowStoreAssumption DEF Rollback, Release
  <1>5. NoBirth /\ OwnRow(r)' /\ SaysSeen(r)'
    BY <1>2, <1>4 DEF NoBirth, OwnRow, SaysSeen
  <1>6. ~Holding(r)' /\ ~Delivers(r)'
    BY <1>2 DEF Holding, Delivers
  <1>7. CASE pc[r] = "reply"
    <2>1. ~Holding(r)
      BY <1>7 DEF Holding
    <2>2. Promise!Lose(s, r)
      BY <1>1, <1>3, <1>4, <1>6, <2>1, Facts, Loses
    <2> QED  BY <1>5, <2>2 DEF Kept, Shown
  <1>8. CASE pc[r] # "reply"
    <2>1. ~Delivers(r)
      BY <1>1, <1>8 DEF Delivers, Answered
    <2>2. Promise!Quit(s, r)
      BY <1>1, <1>3, <1>4, <1>6, <2>1, Facts, Quits
    <2> QED  BY <1>5, <2>2 DEF Kept, Shown
  <1> QED  BY <1>7, <1>8

LEMMA ArriveShown ==
  ASSUME NEW r \in Request, Ready(r), NEW op, NEW s, NEW u, NEW good, Arrive(r, op, s, u, good)
  PROVE  Kept(r) /\ Shown(r)
  <1>1. pc[r] = "idle" /\ UNCHANGED store
    BY DEF Arrive
  <1>2. pc'[r] = "asked"
    BY Facts DEF Arrive, Goto
  <1>3. \A x \in Secret : holder'[x] # r
    BY <1>1, Facts DEF WorkInv, Lockless, store
  <1>4. NoBirth /\ OwnRow(r)' /\ SaysSeen(r)'
    BY <1>1, <1>2, <1>3 DEF NoBirth, OwnRow, SaysSeen, store
  <1>5. Unseen(r)
    BY <1>1, <1>2 DEF Unseen, Holding, Delivers, Answered
  <1> QED  BY <1>4, <1>5 DEF Kept, Shown

LEMMA RequestShown ==
  ASSUME NEW r \in Request, Ready(r), Proceed(r) \/ Fail(r)
  PROVE  Kept(r) /\ Shown(r)
  <1>1. CASE RetrieveSelect(r) \/ VerifySelect(r)
    BY <1>1, SelectShown DEF RetrieveSelect, VerifySelect, At
  <1>2. CASE RetrieveCheck(r) \/ VerifyCheck(r)
    BY <1>2, CheckShown
  <1>3. CASE Retrieve(r)
    BY <1>1, <1>2, <1>3, WriteShown DEF Retrieve
  <1>4. CASE Verify(r)
    BY <1>1, <1>2, <1>4, WriteShown, LockShown DEF Verify
  <1> QED  BY <1>3, <1>4, MetaDeleteShown, CommitShown, ReplyShown, FailShown DEF Proceed

-----------------------------------------------------------------------------
(* The steps of the other actors. *)

LEMMA PlainKept ==
  ASSUME PlainUnborn, Evolves, NoBirth
  PROVE  PlainUnborn'
  BY DEF PlainUnborn, Evolves, Descends, NoBirth

LEMMA RequestsIdle ==
  ASSUME UNCHANGED requests
  PROVE  /\ \A r \in Request : Same(r)
         /\ RacingOf' = RacingOf
         /\ GotOf' = GotOf
  <1>1. \A r \in Request : Same(r)
    BY DEF Same, requests
  <1>2. RacingOf' = RacingOf
    BY <1>1, OthersSame DEF RacingOf
  <1>3. GotOf' = GotOf
    BY <1>1, OthersSame DEF GotOf
  <1> QED  BY <1>1, <1>2, <1>3

LEMMA ElseKeeps ==
  ASSUME Base, PromiseInv, NEW t, ElseStep(t)
  PROVE  \A r \in Request : (OwnRow(r) /\ SaysSeen(r))'
  <1> TAKE r \in Request
  <1>1. Same(r) /\ Spares(r)
    BY RequestsIdle, SecretsAssumption DEF ElseStep, Sound
  <1>2. OwnRow(r) /\ SaysSeen(r)
    BY DEF PromiseInv
  <1>3. OwnRow(r)'
    BY <1>1, <1>2 DEF OwnRow, Same, Spares
  <1> QED  BY <1>1, <1>2, <1>3 DEF SaysSeen, Same

LEMMA OthersNoBirth ==
  ASSUME Base, WorkerNext \/ AccountNext
  PROVE  NoBirth
  <1>1. StoreInv /\ StoreTypeOK
    BY DEF Base, TypeOK
  <1>2. Worker \subseteq Session /\ Leaver \subseteq Session
    BY WorkerAssumption, AccountAssumption
  <1>3. \/ committed' = committed
        \/ \E t \in Session : Commit(t)
    <2>1. CASE WorkerNext
      BY <1>2, <2>1 DEF WorkerNext, LockExpires, Tick, Sweep, SweepStart, SweepRow, SweepDone,
         SweepFail, Put, Rollback, store, secretVars
    <2>2. CASE AccountNext
      BY <1>2, <2>2 DEF AccountNext, DeleteAccount, Detach, DetachStart, DetachRow, DetachDone,
         DetachFail, Put, Rollback, store, secretVars
    <2> QED  BY <2>1, <2>2
  <1> QED  BY <1>1, <1>3, CommitKept DEF NoBirth

LEMMA ElseShown ==
  ASSUME Base, PromiseInv, NEW t, ElseStep(t), NoBirth
  PROVE  PromiseInv' /\ Promise!Next
  <1>1. Evolves /\ UNCHANGED requests
    BY DEF ElseStep, Sound
  <1>2. \E S \in SUBSET Secret : Promise!Erase(S)
    BY <1>1, RequestsIdle, StepErases
  <1>3. PromiseInv'
    BY <1>1, ElseKeeps, PlainKept DEF PromiseInv
  <1> QED  BY <1>2, <1>3 DEF Promise!Next

LEMMA CreateShown ==
  ASSUME Base, PromiseInv, NEW s \in Secret, NEW k \in Kind, CreateSecret(s, k),
         UNCHANGED <<cleanup, deletion>>
  PROVE  PromiseInv' /\ Promise!Next
  <1> DEFINE row == [Unborn EXCEPT !.life = "live", !.cipher = "sealed", !.pw = k.pw,
                                   !.owner = k.owner, !.notify = k.notify]
  <1>1. /\ committed[s].life = "unborn"
        /\ committed' = [committed EXCEPT ![s] = row]
        /\ UNCHANGED requests
    BY DEF CreateSecret, AutoInsert
  <1>2. row.life = "live" /\ row.cipher = "sealed" /\ row.pw = k.pw /\ k.pw \in BOOLEAN
    BY SecretsAssumption DEF Unborn
  <1> HIDE DEF row
  <1>3. \A x \in Secret : committed'[x] = IF x = s THEN row ELSE committed[x]
    BY <1>1 DEF Base, TypeOK, StoreTypeOK
  <1>4. ElseStep(NoSession)
    BY CreateStep
  <1>5. PlainUnborn'
    BY <1>2, <1>3 DEF PromiseInv, PlainUnborn
  <1>6. StateOf[s] = "new"
    BY <1>1 DEF StateOf
  <1>7. StateOf' = [StateOf EXCEPT ![s] = "sealed"]
    BY <1>2, <1>3 DEF StateOf
  <1>8. GuardedOf' = GuardedOf \/ GuardedOf' = GuardedOf \cup {s}
    <2>1. ~committed[s].pw
      BY <1>1 DEF PromiseInv, PlainUnborn
    <2>2. CASE k.pw
      <3>1. GuardedOf' = GuardedOf \cup {s}
        BY <1>2, <1>3, <2>2 DEF GuardedOf
      <3> QED  BY <3>1
    <2>3. CASE ~k.pw
      <3>1. GuardedOf' = GuardedOf
        BY <1>2, <1>3, <2>1, <2>3 DEF GuardedOf
      <3> QED  BY <3>1
    <2> QED  BY <2>2, <2>3
  <1>9. Promise!Seal(s)
    BY <1>1, <1>6, <1>7, <1>8, RequestsIdle DEF Promise!Seal
  <1> QED  BY <1>4, <1>5, <1>9, ElseKeeps DEF PromiseInv, Promise!Next

-----------------------------------------------------------------------------
(* Every step of the server. *)

LEMMA GoodShown ==
  ASSUME Base, PromiseInv, NEW r \in Request, GoodStep(r), Kept(r), Shown(r)
  PROVE  PromiseInv' /\ Promise!Next
  <1>1. Alone(r) /\ Evolves /\ NoBirth
    BY DEF GoodStep, Sound, Alone, Kept
  <1>2. ASSUME NEW q \in Request
        PROVE  (OwnRow(q) /\ SaysSeen(q))'
    <2>1. CASE q = r
      BY <2>1 DEF Kept
    <2>2. CASE q # r
      <3>1. Same(q) /\ Spares(q)
        BY <2>2, SecretsAssumption DEF GoodStep, Sound
      <3>2. OwnRow(q) /\ SaysSeen(q)
        BY DEF PromiseInv
      <3>3. OwnRow(q)'
        BY <3>1, <3>2 DEF OwnRow, Same, Spares
      <3> QED  BY <3>1, <3>2, <3>3 DEF SaysSeen, Same
    <2> QED  BY <2>1, <2>2
  <1>3. PromiseInv'
    BY <1>1, <1>2, PlainKept DEF PromiseInv
  <1>4. Promise!Next
    <2>1. CASE Unseen(r)
      BY <1>1, <2>1, UnseenErases DEF Promise!Next
    <2>2. CASE ~Unseen(r)
      BY <2>2 DEF Shown, Promise!Next
    <2> QED  BY <2>1, <2>2
  <1> QED  BY <1>3, <1>4

LEMMA PromiseInit == Init => PromiseInv /\ Promise!Init
  <1> SUFFICES ASSUME Init PROVE PromiseInv /\ Promise!Init
    OBVIOUS
  <1>1. /\ \A s \in Secret : committed[s] = Unborn /\ holder[s] = NoSession
        /\ \A r \in Request : pc[r] = "idle"
    BY DEF Init, SecretsInit, StoreInit
  <1>2. PromiseInv
    BY <1>1, RowStoreAssumption, SecretsAssumption
       DEF PromiseInv, PlainUnborn, OwnRow, SaysSeen, Unborn
  <1>3. StateOf = [s \in Secret |-> "new"] /\ GuardedOf = {}
    BY <1>1 DEF StateOf, GuardedOf, Unborn
  <1>4. \A r \in Request : ~Holding(r) /\ ~Delivers(r)
    BY <1>1 DEF Holding, Delivers, Answered
  <1>5. RacingOf = [s \in Secret |-> {}] /\ GotOf = [s \in Secret |-> {}]
    BY <1>4 DEF RacingOf, GotOf
  <1> QED  BY <1>2, <1>3, <1>5 DEF Promise!Init

LEMMA PromiseNext ==
  ASSUME Base, PromiseInv, [Next]_vars
  PROVE  PromiseInv' /\ [Promise!Next]_Promise!promise
  <1>1. CASE SecretsNext /\ UNCHANGED <<cleanup, deletion>>
    <2>1. ASSUME NEW s \in Secret, NEW k \in Kind, CreateSecret(s, k)
          PROVE  PromiseInv' /\ Promise!Next
      BY <1>1, <2>1, CreateShown
    <2>2. ASSUME NEW s \in Secret, Expire(s)
          PROVE  PromiseInv' /\ Promise!Next
      <3>1. NoBirth
        BY <2>2 DEF Expire, NoBirth, store
      <3> QED  BY <1>1, <2>2, <3>1, ExpireStep, ElseShown
    <2>3. ASSUME NEW r \in Request, NEW s \in Secret, NEW u \in User \cup {NoUser},
                 NEW good \in BOOLEAN, NEW op \in Traffic, Arrive(r, op, s, u, good)
          PROVE  PromiseInv' /\ Promise!Next
      <3>1. GoodStep(r)
        BY <2>3, ArriveStep
      <3>2. Kept(r) /\ Shown(r)
        BY <2>3, <3>1, ArriveShown DEF Ready, PromiseInv
      <3> QED  BY <3>1, <3>2, GoodShown
    <2>4. ASSUME NEW r \in Request, Proceed(r) \/ Fail(r)
          PROVE  PromiseInv' /\ Promise!Next
      <3>1. GoodStep(r)
        BY <2>4, RequestStep
      <3>2. Kept(r) /\ Shown(r)
        BY <2>4, <3>1, RequestShown DEF Ready, PromiseInv
      <3> QED  BY <3>1, <3>2, GoodShown
    <2> QED  BY <1>1, <2>1, <2>2, <2>3, <2>4 DEF SecretsNext
  <1>2. CASE WorkerNext /\ UNCHANGED deletion
    BY <1>2, WorkerStep, OthersNoBirth, ElseShown
  <1>3. CASE AccountNext /\ UNCHANGED cleanup
    BY <1>3, AccountStep, OthersNoBirth, ElseShown
  <1>4. CASE UNCHANGED vars
    <2>1. UNCHANGED store /\ UNCHANGED requests
      BY <1>4 DEF vars, secretVars
    <2>2. StateOf' = StateOf /\ GuardedOf' = GuardedOf
      BY <2>1, RowsStay DEF store
    <2>3. PromiseInv'
      BY <2>1 DEF PromiseInv, PlainUnborn, OwnRow, SaysSeen, store, requests
    <2> QED  BY <2>1, <2>2, <2>3, RequestsIdle DEF Promise!promise
  <1> QED  BY <1>1, <1>2, <1>3, <1>4 DEF Next

(* For any number of secrets, requests, cleanup runs and accounts: a secret *)
(* is opened or erased once and never sealed again, only by a reader who    *)
(* began while it was sealed, and readers of a protected one exclude each   *)
(* other.                                                                   *)
THEOREM PromiseKept == Spec => KeepsPromise
  <1>1. Init => Base /\ PromiseInv /\ Promise!Init
    BY BaseInit, PromiseInit
  <1>2. Base /\ PromiseInv /\ [Next]_vars
          => (Base /\ PromiseInv)' /\ [Promise!Next]_Promise!promise
    BY BaseNext, PromiseNext
  <1> QED  BY <1>1, <1>2, PTL DEF Spec, KeepsPromise, Promise!Spec

==============================================================================
